----------------------- MODULE WorkerSchedulerProofs -----------------------
(***************************************************************************)
(* Proofs about WorkerScheduler for any number of workers, slots, ids and  *)
(* callers.                                                                *)
(***************************************************************************)
EXTENDS WorkerScheduler, FiniteSetTheorems, TLAPS

\* Prover time limits, in seconds.
USE SMTT(30), ZenonT(30)

\* Where the threads are in each phase of the pool's life.  Workers above
\* workerCount are not started yet while the pool is created, and have left
\* once it is being joined; callers are inside a function only while it is
\* live.
Lifecycle ==
  /\ stopping <=> phase \in {"joining", "destroyed"}
  /\ phase = "creating" => workerCount < ActiveLimit
  /\ phase = "live" => workerCount = ActiveLimit
  /\ phase = "destroyed" => workerCount = 0
  /\ \A w \in Workers : w > workerCount => workerPc[w] \in {"unborn", "exited"}
  /\ phase # "live" => \A c \in Callers : callerPc[c] = "idle"

\* The inductive invariant.
IInv ==
  /\ TypeOK
  /\ IdsDistinct
  /\ CreditMatchesSlots
  /\ RunningWorkerOwnsTask
  /\ OneWorkerPerTask
  /\ NoLostWakeup
  /\ Lifecycle

\* The part of the inductive invariant that mentions no cardinality.
Shape ==
  /\ IdsDistinct
  /\ RunningWorkerOwnsTask
  /\ OneWorkerPerTask
  /\ NoLostWakeup
  /\ Lifecycle

USE IdsAssumption, LimitsAssumption DEF Workers, Slots, NoId

\* The table is finite, so its occupied slots can be counted.
LEMMA OccupiedFinite ==
  /\ IsFiniteSet(Slots)
  /\ IsFiniteSet(Occupied)
  /\ Cardinality(Occupied) \in 0..OutstandingLimit
<1>1. IsFiniteSet(1..OutstandingLimit) /\ Cardinality(1..OutstandingLimit) = OutstandingLimit
  BY FS_Interval
<1>2. Occupied \in SUBSET (1..OutstandingLimit)
  BY DEF Occupied
<1>3. IsFiniteSet(Occupied) /\ Cardinality(Occupied) <= Cardinality(1..OutstandingLimit)
  BY Zenon, <1>1, <1>2, FS_Subset
<1>4. Cardinality(Occupied) \in Nat
  BY <1>3, FS_CardinalityType
<1> QED
  BY <1>1, <1>3, <1>4


\* What one critical section may rely on, and the vocabulary of the
\* invariants.
USE DEF TypeOK, TaskRecord, TaskStatus, WorkerPcs, CallerPcs, Returns, Terminal,
        Holds, Found, Queued, AnyQueued, Occupied, CanCall, Return, SetStatus,
        Awoken, WakeWorkers, WakeCallers, table, workerVars, callerVars

\* Changing the status of a task, or clearing its flag, yields a table.
LEMMA TaskUpdate ==
  ASSUME tasks \in [Slots -> TaskRecord],
         NEW i \in Slots, NEW status \in TaskStatus
  PROVE  /\ [tasks[i] EXCEPT !.status = status] \in TaskRecord
         /\ [tasks EXCEPT ![i].status = status] \in [Slots -> TaskRecord]
         /\ [tasks EXCEPT ![i].occupied = FALSE] \in [Slots -> TaskRecord]
<1>1. tasks[i] \in TaskRecord
  OBVIOUS
<1>2. /\ [tasks[i] EXCEPT !.status = status] \in TaskRecord
      /\ [tasks[i] EXCEPT !.occupied = FALSE] \in TaskRecord
  BY Zenon, <1>1
<1> HIDE DEF TaskRecord
<1> QED
  BY <1>2

LEMMA InitInv == Init => IInv
<1> SUFFICES ASSUME Init PROVE IInv
  OBVIOUS
<1>1. TypeOK
  <2>1. tasks \in [Slots -> TaskRecord]
    BY DEF Init
  <2>2. stopping \in BOOLEAN
    BY Zenon DEF Init
  <2> HIDE DEF TaskRecord
  <2> QED
    BY <2>1, <2>2 DEF Init
<1>2. Shape
  BY DEF Init, Shape, IdsDistinct, RunningWorkerOwnsTask, OneWorkerPerTask,
         NoLostWakeup, Lifecycle
<1>3. CreditMatchesSlots
  <2>1. Occupied = {}
    BY DEF Init
  <2> QED
    BY Zenon, <2>1, FS_EmptySet DEF Init, CreditMatchesSlots
<1> QED
  BY <1>1, <1>2, <1>3 DEF IInv, Shape

\* Every step keeps ids distinct, tasks owned, sleepers justified and threads
\* where the phase says they are.
LEMMA ShapeStep ==
  ASSUME TypeOK, Shape, [Next]_vars
  PROVE  Shape'
<1> USE DEF Shape, IdsDistinct, RunningWorkerOwnsTask, OneWorkerPerTask,
            NoLostWakeup, Lifecycle
<1>1. CASE StartWorker
  BY <1>1 DEF StartWorker
<1>2. CASE StartWorkerFails
  BY <1>2 DEF StartWorkerFails
<1>3. ASSUME NEW w \in Workers, WorkerWait(w) PROVE Shape'
  BY <1>3 DEF WorkerWait
<1>4. ASSUME NEW w \in Workers, WorkerExit(w) PROVE Shape'
  BY <1>4 DEF WorkerExit
<1>5. ASSUME NEW w \in Workers, WorkerTake(w) PROVE Shape'
  BY <1>5 DEF WorkerTake, FirstQueued
<1>6. ASSUME NEW w \in Workers, WorkerComplete(w) PROVE Shape'
  <2> USE <1>6 DEF WorkerComplete
  <2>1. IdsDistinct'
    OBVIOUS
  <2>2. RunningWorkerOwnsTask'
    OBVIOUS
  <2>3. OneWorkerPerTask'
    <3>1. \A u, v \in Workers :
            workerPc'[u] = "running" => u # w /\ workerPc[u] = "running" /\ workerId'[u] = workerId[u]
      OBVIOUS
    <3>2. ASSUME NEW i \in Slots, tasks'[i].occupied, tasks'[i].status = "RUNNING"
          PROVE  /\ tasks[i].occupied /\ tasks[i].status = "RUNNING"
                 /\ tasks'[i].id = tasks[i].id /\ tasks[i].id # workerId[w]
      BY <3>2
    <3>3. ASSUME NEW i \in Slots, tasks'[i].occupied, tasks'[i].status = "RUNNING"
          PROVE  \E v \in Workers : workerPc'[v] = "running" /\ workerId'[v] = tasks'[i].id
      <4>1. PICK v \in Workers : workerPc[v] = "running" /\ workerId[v] = tasks[i].id
        BY <3>2, <3>3
      <4> QED
        BY SMTT(30), <3>2, <3>3, <4>1
    <3> QED
      BY <3>1, <3>3
  <2>4. NoLostWakeup'
    OBVIOUS
  <2>5. Lifecycle'
    BY Zenon
  <2> QED
    BY Zenon, <2>1, <2>2, <2>3, <2>4, <2>5
<1>7. CASE SpuriousWake
  <2>1. ASSUME NEW w \in Workers, workerPc[w] = "waiting",
               workerPc' = [workerPc EXCEPT ![w] = "ready"],
               UNCHANGED <<phase, stopping, workerCount, table, workerId, callerVars>>
        PROVE  Shape'
    BY <2>1
  <2>2. ASSUME NEW c \in Callers, callerPc[c] = "waiting",
               callerPc' = [callerPc EXCEPT ![c] = "awaiting"],
               UNCHANGED <<phase, stopping, workerCount, table, workerVars, callerId, ret>>
        PROVE  Shape'
    BY <2>2
  <2> QED
    BY SMTT(30), <1>7, <2>1, <2>2 DEF SpuriousWake
<1>8. ASSUME NEW c \in Callers, NEW id \in Ids, Submit(c, id) PROVE Shape'
  BY <1>8 DEF Submit
<1>9. ASSUME NEW c \in Callers, NEW id \in Ids, Await(c, id) PROVE Shape'
  BY <1>9 DEF Await
<1>10. ASSUME NEW c \in Callers, AwaitWaits(c) PROVE Shape'
  BY <1>10 DEF AwaitWaits
<1>11. ASSUME NEW c \in Callers, AwaitReturns(c) PROVE Shape'
  BY <1>11 DEF AwaitReturns
<1>12. ASSUME NEW c \in Callers, NEW id \in Ids, Cancel(c, id) PROVE Shape'
  BY <1>12 DEF Cancel
<1>13. ASSUME NEW c \in Callers, NEW id \in Ids, Release(c, id) PROVE Shape'
  BY <1>13 DEF Release
<1>14. ASSUME NEW c \in Callers, NEW id \in Ids,
              SubmitLimit(c, id) \/ CancelRefused(c, id) \/ ReleaseRefused(c, id)
       PROVE  Shape'
  <2>1. UNCHANGED <<phase, stopping, workerCount, table, workerVars, callerPc, callerId>>
    BY Zenon, <1>14 DEF SubmitLimit, CancelRefused, ReleaseRefused
  <2> QED
    BY <2>1
<1>15. ASSUME NEW c \in Callers, Destroy(c) PROVE Shape'
  BY <1>15 DEF Destroy
<1>16. CASE JoinWorker
  BY <1>16 DEF JoinWorker
<1>17. CASE Free
  BY <1>17 DEF Free
<1>18. CASE UNCHANGED vars
  BY SMTT(30), <1>18 DEF vars
<1> HIDE DEF Shape, TypeOK
<1> QED
  BY ZenonT(30), <1>1, <1>2, <1>3, <1>4, <1>5, <1>6, <1>7, <1>8, <1>9, <1>10, <1>11,
     <1>12, <1>13, <1>14, <1>15, <1>16, <1>17, <1>18
     DEF Next, CreateStep, WorkerStep, AwaitStep, Call, JoinStep, Destroyed

\* Every step keeps the credit counter equal to the number of occupied slots.
LEMMA CreditStep ==
  ASSUME TypeOK, CreditMatchesSlots, [Next]_vars
  PROVE  CreditMatchesSlots'
<1> USE DEF CreditMatchesSlots
<1>1. ASSUME NEW c \in Callers, NEW id \in Ids, Submit(c, id)
      PROVE  CreditMatchesSlots'
  <2>1. PICK i \in Slots : ~tasks[i].occupied /\ tasks' = [tasks EXCEPT ![i] =
                 [occupied |-> TRUE, id |-> id, status |-> "QUEUED"]]
    BY Zenon, <1>1 DEF Submit
  <2>2. Occupied' = Occupied \cup {i} /\ i \notin Occupied
    BY <2>1
  <2> HIDE DEF Occupied
  <2>3. Cardinality(Occupied') = Cardinality(Occupied) + 1
    BY Zenon, <2>2, OccupiedFinite, FS_AddElement
  <2> QED
    BY <1>1, <2>3 DEF Submit
<1>2. ASSUME NEW c \in Callers, NEW id \in Ids, Release(c, id)
      PROVE  CreditMatchesSlots'
  <2>1. PICK i \in Slots : tasks[i].occupied /\ tasks' = [tasks EXCEPT ![i].occupied = FALSE]
    BY Zenon, <1>2 DEF Release
  <2>2. Occupied' = Occupied \ {i} /\ i \in Occupied
    BY <2>1
  <2> HIDE DEF Occupied
  <2>3. Cardinality(Occupied') = Cardinality(Occupied) - 1
    BY Zenon, <2>2, OccupiedFinite, FS_RemoveElement
  <2> QED
    BY <1>2, <2>3 DEF Release
<1>3. ASSUME outstandingCount' = outstandingCount,
             \A i \in Slots : tasks'[i].occupied = tasks[i].occupied
      PROVE  CreditMatchesSlots'
  <2>1. Occupied' = Occupied
    BY <1>3
  <2> HIDE DEF Occupied
  <2> QED
    BY <1>3, <2>1
<1>4. ASSUME NEW w \in Workers, WorkerTake(w) \/ WorkerComplete(w)
      PROVE  CreditMatchesSlots'
  <2>1. outstandingCount' = outstandingCount
    BY <1>4 DEF WorkerTake, WorkerComplete
  <2>2. \A i \in Slots : tasks'[i].occupied = tasks[i].occupied
    <3>1. CASE WorkerTake(w)
      BY <3>1 DEF WorkerTake
    <3>2. CASE WorkerComplete(w)
      BY <3>2 DEF WorkerComplete
    <3> QED
      BY <1>4, <3>1, <3>2
  <2> QED
    BY Zenon, <1>3, <2>1, <2>2
<1>5. ASSUME NEW c \in Callers, NEW id \in Ids, Cancel(c, id)
      PROVE  CreditMatchesSlots'
  <2>1. outstandingCount' = outstandingCount
    BY <1>5 DEF Cancel
  <2>2. \A i \in Slots : tasks'[i].occupied = tasks[i].occupied
    BY <1>5 DEF Cancel
  <2> QED
    BY <1>3, <2>1, <2>2
<1>6. CASE UNCHANGED table
  BY <1>6, <1>3
<1> HIDE DEF CreditMatchesSlots
<1> QED
  BY ZenonT(30), <1>1, <1>2, <1>4, <1>5, <1>6
     DEF Next, vars, CreateStep, WorkerStep, AwaitStep, Call, JoinStep, Destroyed,
         StartWorker, StartWorkerFails, WorkerWait, WorkerExit, SpuriousWake,
         SubmitLimit, Await, AwaitWaits, AwaitReturns, CancelRefused,
         ReleaseRefused, Destroy, JoinWorker, Free

\* Every step keeps the variables in their types.  Submit needs its own limit
\* test and release needs the slot it frees to have been counted.
LEMMA TypeStep ==
  ASSUME IInv, [Next]_vars
  PROVE  TypeOK'
<1> USE DEF IInv
<1> HIDE DEF TaskRecord
<1>1. CASE StartWorker \/ StartWorkerFails
  <2>1. stopping' \in BOOLEAN
    BY Zenon, <1>1 DEF StartWorker, StartWorkerFails
  <2> QED
    BY <1>1, <2>1 DEF StartWorker, StartWorkerFails, Lifecycle
<1>2. ASSUME NEW w \in Workers, WorkerStep(w) PROVE TypeOK'
  <2>1. CASE WorkerWait(w) \/ WorkerExit(w)
    BY <2>1 DEF WorkerWait, WorkerExit
  <2>2. CASE WorkerTake(w)
    <3>1. tasks' \in [Slots -> TaskRecord]
      <4>1. PICK i \in Slots : tasks' = [tasks EXCEPT ![i].status = "RUNNING"]
        BY Zenon, <2>2 DEF WorkerTake
      <4> QED
        BY Zenon, <4>1, TaskUpdate
    <3>2. workerId' \in [Workers -> Ids \cup {NoId}]
      <4>1. \A i \in Slots : tasks[i].id \in Ids \cup {NoId}
        BY DEF TaskRecord
      <4> QED
        BY <2>2, <4>1 DEF WorkerTake
    <3> QED
      BY <2>2, <3>1, <3>2 DEF WorkerTake
  <2>3. CASE WorkerComplete(w)
    <3>1. tasks' \in [Slots -> TaskRecord]
      BY Zenon, <2>3, TaskUpdate DEF WorkerComplete
    <3> QED
      BY <2>3, <3>1 DEF WorkerComplete
  <2> QED
    BY Zenon, <1>2, <2>1, <2>2, <2>3 DEF WorkerStep
<1>3. CASE SpuriousWake
  BY ZenonT(30), <1>3 DEF SpuriousWake
<1>4. ASSUME NEW c \in Callers, NEW id \in Ids, Submit(c, id) PROVE TypeOK'
  <2>1. tasks' \in [Slots -> TaskRecord]
    <3>1. [occupied |-> TRUE, id |-> id, status |-> "QUEUED"] \in TaskRecord
      BY DEF TaskRecord
    <3> QED
      BY <1>4, <3>1 DEF Submit
  <2>2. outstandingCount' \in 0..OutstandingLimit
    BY <1>4 DEF Submit
  <2> QED
    BY <1>4, <2>1, <2>2 DEF Submit
<1>5. ASSUME NEW c \in Callers, NEW id \in Ids, Await(c, id) \/ Cancel(c, id)
      PROVE  TypeOK'
  <2>1. tasks' \in [Slots -> TaskRecord]
    <3>1. CASE Await(c, id)
      BY <3>1 DEF Await
    <3>2. CASE Cancel(c, id)
      <4>1. PICK i \in Slots : tasks' = [tasks EXCEPT ![i].status = "CANCELED"]
        BY Zenon, <3>2 DEF Cancel
      <4> QED
        BY Zenon, <4>1, TaskUpdate
    <3> QED
      BY Zenon, <1>5, <3>1, <3>2
  <2>2. CASE Await(c, id)
    BY <2>1, <2>2 DEF Await
  <2>3. CASE Cancel(c, id)
    BY Zenon, <2>1, <2>3 DEF Cancel
  <2> QED
    BY <1>5, <2>2, <2>3
<1>6. ASSUME NEW c \in Callers, AwaitStep(c) PROVE TypeOK'
  BY ZenonT(30), <1>6 DEF AwaitStep, AwaitWaits, AwaitReturns
<1>7. ASSUME NEW c \in Callers, NEW id \in Ids, Release(c, id) PROVE TypeOK'
  <2>1. outstandingCount > 0
    <3>1. Occupied # {}
      BY <1>7 DEF Release
    <3> HIDE DEF Occupied
    <3>2. Cardinality(Occupied) # 0
      BY <3>1, OccupiedFinite, FS_EmptySet
    <3> QED
      BY <3>2, OccupiedFinite DEF CreditMatchesSlots
  <2>2. tasks' \in [Slots -> TaskRecord]
    <3>1. PICK i \in Slots : tasks' = [tasks EXCEPT ![i].occupied = FALSE]
      BY Zenon, <1>7 DEF Release
    <3> QED
      BY Zenon, <3>1, TaskUpdate
  <2>3. outstandingCount' \in 0..OutstandingLimit
    BY <1>7, <2>1 DEF Release
  <2> QED
    BY <1>7, <2>2, <2>3 DEF Release
<1>8. ASSUME NEW c \in Callers, NEW id \in Ids,
             SubmitLimit(c, id) \/ CancelRefused(c, id) \/ ReleaseRefused(c, id)
      PROVE  TypeOK'
  BY <1>8 DEF SubmitLimit, CancelRefused, ReleaseRefused
<1>9. ASSUME NEW c \in Callers, Destroy(c) PROVE TypeOK'
  BY <1>9 DEF Destroy
<1>10. CASE JoinStep
  BY <1>10 DEF JoinStep, JoinWorker, Free
<1>11. CASE UNCHANGED vars
  BY <1>11 DEF vars
<1> HIDE DEF TypeOK
<1> QED
  BY SMTT(30), <1>1, <1>2, <1>3, <1>4, <1>5, <1>6, <1>7, <1>8, <1>9, <1>10, <1>11
     DEF Next, CreateStep, Call, Destroyed

LEMMA InductiveStep == IInv /\ [Next]_vars => IInv'
<1> SUFFICES ASSUME IInv, [Next]_vars PROVE IInv'
  OBVIOUS
<1>1. TypeOK /\ Shape /\ CreditMatchesSlots
  BY DEF IInv, Shape
<1>2. TypeOK'
  BY TypeStep
<1>3. Shape'
  BY <1>1, ShapeStep
<1>4. CreditMatchesSlots'
  BY <1>1, CreditStep
<1> HIDE DEF TypeOK
<1> QED
  BY <1>2, <1>3, <1>4 DEF IInv, Shape

LEMMA Invariance == Spec => []IInv
  BY InitInv, InductiveStep, PTL DEF Spec

\* The variables of the scheduler always have their types: in particular the
\* unsigned credit counter never wraps below zero nor passes
\* outstanding_limit.
THEOREM TypeCorrect == Spec => []TypeOK
<1>1. IInv => TypeOK
  BY DEF IInv
<1> QED
  BY <1>1, Invariance, PTL

\* outstanding_count always equals the number of occupied slots.
THEOREM CreditCorrect == Spec => []CreditMatchesSlots
<1>1. IInv => CreditMatchesSlots
  BY DEF IInv
<1> QED
  BY <1>1, Invariance, PTL

\* No submission is run by two threads, a running task keeps its slot, and
\* the id a worker looks up after running names its own task.
THEOREM ExclusiveExecution == Spec => []TasksExclusive
<1>1. IInv => TasksExclusive
  BY DEF IInv, TasksExclusive
<1> QED
  BY <1>1, Invariance, PTL

\* No thread sleeps in the condition variable past the event it waits for.
THEOREM WakeupsNotLost == Spec => []NoLostWakeup
<1>1. IInv => NoLostWakeup
  BY DEF IInv
<1> QED
  BY <1>1, Invariance, PTL

\* The scheduler is freed only after every started thread has left and while
\* no caller is inside one of its functions.
THEOREM DestructionQuiet == Spec => []FreedWhenQuiet
<1>1. IInv => FreedWhenQuiet
  BY DEF IInv, Lifecycle, FreedWhenQuiet
<1> QED
  BY <1>1, Invariance, PTL

(***************************************************************************)
(* The scheduler implements TaskBoard.                                     *)
(***************************************************************************)

\* With distinct ids the slot that holds an id is the one CHOOSE finds, in a
\* table t before or after a step.
LEMMA SlotOfId ==
  ASSUME NEW t, NEW i \in Slots, t[i].occupied,
         \A j \in Slots : t[j].occupied /\ t[j].id = t[i].id => j = i
  PROVE  (CHOOSE j \in Slots : t[j].occupied /\ t[j].id = t[i].id) = i
  OBVIOUS

\* What the owner of an id sees: the status of the slot that holds it.
StagesShown ==
  /\ \A i \in Slots : tasks[i].occupied => Stage(tasks[i].id) = tasks[i].status
  /\ \A id : ~Found(id) => Stage(id) = "none"

LEMMA StagesAreStatuses == TypeOK /\ IdsDistinct => StagesShown
<1> SUFFICES ASSUME TypeOK, IdsDistinct PROVE StagesShown
  OBVIOUS
<1>1. ASSUME NEW i \in Slots, tasks[i].occupied
      PROVE  Stage(tasks[i].id) = tasks[i].status
  <2>1. (CHOOSE j \in Slots : Holds(j, tasks[i].id)) = i
    BY <1>1, SlotOfId DEF IdsDistinct
  <2> QED
    BY Zenon, <1>1, <2>1 DEF Stage
<1> QED
  BY Zenon, <1>1 DEF StagesShown, Stage

LEMMA InvStages == IInv => StagesShown
  BY StagesAreStatuses DEF IInv

\* A table whose only change is that slot i goes to another status: the
\* board changes at the id of that slot and nowhere else.
LEMMA StatusMoves ==
  ASSUME TypeOK, StagesShown, StagesShown', NEW i \in Slots, NEW status \in TaskStatus,
         tasks[i].occupied,
         tasks' = [tasks EXCEPT ![i].status = status], IdsDistinct
  PROVE  /\ tasks[i].id \in Ids => Board!Move(tasks[i].id, tasks[i].status, status)
         /\ tasks[i].id \notin Ids => UNCHANGED StageBoard
<1> DEFINE id == tasks[i].id
<1>1. id \in Ids => StageBoard[id] = tasks[i].status
  BY DEF StagesShown, StageBoard
<1>2. Stage(id)' = status
  BY DEF StagesShown
<1>3. ASSUME NEW x \in Ids, x # id PROVE Stage(x)' = Stage(x)
  <2>1. CASE Found(x)
    BY <1>3, <2>1 DEF StagesShown
  <2>2. CASE ~Found(x)
    BY <1>3, <2>2 DEF StagesShown
  <2> QED
    BY <2>1, <2>2
<1>4. id \in Ids => StageBoard' = [StageBoard EXCEPT ![id] = status]
  BY ZenonT(30), <1>2, <1>3 DEF StageBoard
<1>5. id \notin Ids => UNCHANGED StageBoard
  BY <1>3 DEF StageBoard
<1> QED
  BY Zenon, <1>1, <1>4, <1>5 DEF Board!Move

\* Ids on the board are held by slots of their own, so they do not exceed the
\* credit in use.
LEMMA OutstandingCounted ==
  ASSUME TypeOK, StagesShown, CreditMatchesSlots
  PROVE  /\ IsFiniteSet(Board!Outstanding)
         /\ Cardinality(Board!Outstanding) <= outstandingCount
<1> DEFINE f == [id \in Board!Outstanding |-> CHOOSE i \in Occupied : tasks[i].id = id]
<1>1. ASSUME NEW id \in Board!Outstanding PROVE f[id] \in Occupied /\ tasks[f[id]].id = id
  <2>1. Stage(id) # "none"
    BY DEF Board!Outstanding, Board!InStage, StageBoard
  <2>2. \E i \in Occupied : tasks[i].id = id
    BY <2>1 DEF StagesShown
  <2> QED
    BY Zenon, <2>2
<1>2. f \in [Board!Outstanding -> Occupied]
  BY <1>1
<1> HIDE DEF f, Occupied
<1>3. f \in Injection(Board!Outstanding, Occupied)
  BY <1>1, <1>2 DEF Injection, IsInjective
<1> QED
  BY <1>3, OccupiedFinite, FS_Injection DEF CreditMatchesSlots

\* Running submissions have workers of their own: a worker that is not running
\* leaves room for one more.
LEMMA RunningCounted ==
  ASSUME TypeOK, StagesShown, OneWorkerPerTask, NEW w \in Workers, workerPc[w] # "running"
  PROVE  /\ IsFiniteSet(Board!InStage({"RUNNING"}))
         /\ Cardinality(Board!InStage({"RUNNING"})) < ActiveLimit
<1> DEFINE running == Board!InStage({"RUNNING"})
           f == [id \in running |-> CHOOSE v \in Workers : workerPc[v] = "running" /\ workerId[v] = id]
<1>1. ASSUME NEW id \in running PROVE f[id] \in Workers \ {w} /\ workerId[f[id]] = id
  <2>1. Stage(id) = "RUNNING"
    BY DEF Board!InStage, StageBoard
  <2>2. \E i \in Occupied : tasks[i].id = id /\ tasks[i].status = "RUNNING"
    BY <2>1 DEF StagesShown
  <2>3. \E v \in Workers : workerPc[v] = "running" /\ workerId[v] = id
    BY <2>2 DEF OneWorkerPerTask
  <2> QED
    BY Zenon, <2>3
<1>2. f \in [running -> Workers \ {w}]
  BY Zenon, <1>1
<1>3. IsFiniteSet(Workers) /\ Cardinality(Workers) = ActiveLimit
  BY FS_Interval
<1> HIDE DEF f, Workers, running
<1>4. f \in Injection(running, Workers \ {w})
  BY <1>1, <1>2 DEF Injection, IsInjective
<1>5. IsFiniteSet(Workers \ {w}) /\ Cardinality(Workers \ {w}) = ActiveLimit - 1
  BY <1>3, FS_RemoveElement
<1>6. IsFiniteSet(running) /\ Cardinality(running) <= ActiveLimit - 1
  BY <1>4, <1>5, FS_Injection
<1>7. Cardinality(running) \in Nat
  BY <1>6, FS_CardinalityType
<1> QED
  BY <1>6, <1>7 DEF running

\* A step that leaves the table alone leaves the board alone.
LEMMA TableKept == UNCHANGED tasks => UNCHANGED StageBoard
  BY ZenonT(30) DEF StageBoard, Stage

\* Every critical section of the scheduler is one step of the board, or none.
LEMMA BoardStep ==
  ASSUME IInv, IInv', [Next]_vars
  PROVE  [Board!Next]_StageBoard
<1>1. StagesShown /\ StagesShown'
  <2>1. IInv' => StagesShown'
    BY InvStages, PTL
  <2> QED
    BY <2>1, InvStages
<1>2. /\ TypeOK /\ IdsDistinct /\ CreditMatchesSlots
      /\ RunningWorkerOwnsTask /\ OneWorkerPerTask
  BY DEF IInv
<1>3. ASSUME NEW w \in Workers, WorkerTake(w) PROVE [Board!Next]_StageBoard
  <2>1. PICK i \in Slots : FirstQueued(i) /\ tasks' = [tasks EXCEPT ![i].status = "RUNNING"]
    BY Zenon, <1>3 DEF WorkerTake
  <2>2. CASE tasks[i].id \notin Ids
    BY Zenon, <1>1, <1>2, <2>1, <2>2, StatusMoves DEF FirstQueued
  <2>3. CASE tasks[i].id \in Ids
    <3>1. Board!Move(tasks[i].id, "QUEUED", "RUNNING")
      BY Zenon, <1>1, <1>2, <2>1, <2>3, StatusMoves DEF FirstQueued
    <3>2. \A other \in Board!InStage({"QUEUED"}) : tasks[i].id <= other
      BY <1>1, <1>2, <2>1 DEF Board!InStage, StageBoard, StagesShown, FirstQueued
    <3>3. Cardinality(Board!InStage({"RUNNING"})) < ActiveLimit
      BY <1>1, <1>2, <1>3, RunningCounted DEF WorkerTake
    <3> QED
      BY Zenon, <2>3, <3>1, <3>2, <3>3 DEF Board!Next, Board!Start, Board!Cardinality, Cardinality
  <2> QED
    BY <2>2, <2>3
<1>4. ASSUME NEW w \in Workers, WorkerComplete(w) PROVE [Board!Next]_StageBoard
  <2>1. PICK i \in Slots : /\ Holds(i, workerId[w]) /\ tasks[i].status = "RUNNING"
                           /\ \A j \in Slots : Holds(j, workerId[w]) => j = i
    BY <1>2, <1>4 DEF WorkerComplete, RunningWorkerOwnsTask, IdsDistinct
  <2>2. tasks' = [tasks EXCEPT ![i].status = "COMPLETED"]
    BY Zenon, <1>2, <1>4, <2>1 DEF WorkerComplete
  <2>3. CASE tasks[i].id \notin Ids
    BY Zenon, <1>1, <1>2, <2>1, <2>2, <2>3, StatusMoves
  <2>4. CASE tasks[i].id \in Ids
    BY ZenonT(30), <1>1, <1>2, <2>1, <2>2, <2>4, StatusMoves DEF Board!Next, Board!Complete
  <2> QED
    BY <2>3, <2>4
<1>5. ASSUME NEW c \in Callers, NEW id \in Ids, Submit(c, id)
      PROVE  [Board!Next]_StageBoard
  <2>1. PICK i \in Slots : ~tasks[i].occupied /\ tasks' = [tasks EXCEPT ![i] =
                 [occupied |-> TRUE, id |-> id, status |-> "QUEUED"]]
    BY Zenon, <1>5 DEF Submit
  <2>2. Stage(id) = "none" /\ Stage(id)' = "QUEUED"
    BY <1>1, <1>2, <1>5, <2>1 DEF Submit, StagesShown
  <2>3. ASSUME NEW x \in Ids, x # id PROVE Stage(x)' = Stage(x)
    <3>1. CASE Found(x)
      BY <1>1, <1>2, <2>1, <2>3, <3>1 DEF StagesShown
    <3>2. CASE ~Found(x)
      BY <1>1, <1>2, <2>1, <2>3, <3>2 DEF StagesShown
    <3> QED
      BY <3>1, <3>2
  <2>4. Board!Move(id, "none", "QUEUED")
    BY Zenon, <2>2, <2>3 DEF Board!Move, StageBoard
  <2>5. Cardinality(Board!Outstanding) < OutstandingLimit
    <3>1. outstandingCount < OutstandingLimit
      BY <1>5 DEF Submit
    <3>2. Cardinality(Board!Outstanding) \in Nat
      BY <1>1, <1>2, OutstandingCounted, FS_CardinalityType
    <3> QED
      BY <1>1, <1>2, <3>1, <3>2, OutstandingCounted
  <2> QED
    BY Zenon, <2>4, <2>5 DEF Board!Next, Board!Submit, Board!Cardinality, Cardinality
<1>6. ASSUME NEW c \in Callers, NEW id \in Ids, Cancel(c, id)
      PROVE  [Board!Next]_StageBoard
  <2>1. PICK i \in Slots : /\ Holds(i, id) /\ tasks[i].status = "QUEUED"
                           /\ tasks' = [tasks EXCEPT ![i].status = "CANCELED"]
    BY Zenon, <1>6 DEF Cancel
  <2> QED
    BY ZenonT(30), <1>1, <1>2, <2>1, StatusMoves DEF Board!Next, Board!Cancel
<1>7. ASSUME NEW c \in Callers, NEW id \in Ids, Release(c, id)
      PROVE  [Board!Next]_StageBoard
  <2>1. PICK i \in Slots : /\ Holds(i, id) /\ tasks[i].status \in Terminal
                           /\ tasks' = [tasks EXCEPT ![i].occupied = FALSE]
    BY Zenon, <1>7 DEF Release
  <2>2. Stage(id) \in Terminal /\ Stage(id)' = "none"
    BY <1>1, <1>2, <2>1 DEF StagesShown, IdsDistinct
  <2>3. ASSUME NEW x \in Ids, x # id PROVE Stage(x)' = Stage(x)
    <3>1. CASE Found(x)
      <4>1. PICK j \in Slots : Holds(j, x)
        BY <3>1
      <4>2. tasks'[j] = tasks[j]
        BY <1>2, <2>1, <2>3, <4>1
      <4>3. tasks'[j].occupied /\ tasks'[j].id = x /\ tasks'[j].status = tasks[j].status
        BY <4>1, <4>2
      <4>4. Stage(x)' = tasks[j].status
        BY <1>1, <4>3 DEF StagesShown
      <4> QED
        BY <1>1, <4>1, <4>4 DEF StagesShown
    <3>2. CASE ~Found(x)
      BY <1>1, <1>2, <2>1, <2>3, <3>2 DEF StagesShown
    <3> QED
      BY <3>1, <3>2
  <2>4. Board!Move(id, "COMPLETED", "none") \/ Board!Move(id, "CANCELED", "none")
    BY Zenon, <2>2, <2>3 DEF Board!Move, StageBoard
  <2> QED
    BY <2>4 DEF Board!Next, Board!Release
<1>8. CASE UNCHANGED tasks
  BY <1>8, TableKept
<1> QED
  BY ZenonT(30), <1>3, <1>4, <1>5, <1>6, <1>7, <1>8
     DEF Next, vars, CreateStep, WorkerStep, AwaitStep, Call, JoinStep, Destroyed,
         StartWorker, StartWorkerFails, WorkerWait, WorkerExit, SpuriousWake,
         SubmitLimit, Await, AwaitWaits, AwaitReturns, CancelRefused,
         ReleaseRefused, Destroy, JoinWorker, Free

\* The pool of threads keeps every promise of the board: a submission is
\* admitted within the credit, started at most once and in submission order
\* by one of at most ActiveLimit workers, or canceled before it starts, and
\* gone only when its owner releases it.
THEOREM SchedulerImplementsBoard == Spec => ImplementsTaskBoard
<1>1. Init => Board!Init
  BY DEF Init, Board!Init, StageBoard, Stage
<1>2. IInv /\ IInv' /\ [Next]_vars => [Board!Next]_StageBoard
  BY BoardStep
<1> QED
  BY <1>1, <1>2, Invariance, PTL DEF Spec, ImplementsTaskBoard, Board!Spec
=============================================================================
