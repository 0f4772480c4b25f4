------------------------ MODULE WorkerRuntimeProofs ------------------------
(***************************************************************************)
(* Proofs about WorkerRuntime, on top of those about the scheduler: any    *)
(* number of workers, table entries, submissions and catalog entries.      *)
(***************************************************************************)
EXTENDS WorkerRuntime, WorkerSchedulerProofs

\* Prover time limits, in seconds.
USE SMTT(30), ZenonT(30)

InvocationStatus == {"PENDING", "COMPLETED", "TRANSPORT_ERROR", "FAILED"}

InvocationRecord ==
  [occupied : BOOLEAN, id : Ids \cup {NoId}, program : Catalog \cup {NoSlot},
   payload : Ids \cup {NoData}, data : Ids \cup {NoData}, status : InvocationStatus]

RuntimeTypeOK ==
  /\ invocations \in [Slots -> InvocationRecord]
  /\ context \in [Slots -> Slots \cup {NoSlot}]
  /\ workerSlot \in [Workers -> Slots \cup {NoSlot}]
  /\ ran \in [Workers -> BOOLEAN]
  /\ DOMAIN programs = Catalog

\* A program is loaded only after its capabilities were checked, and keeps
\* the syscall groups computed then.
ProgramsChecked ==
  \A p \in Catalog : Loaded(p) =>
    programs[p] = SyscallMask(RequiredCaps[p]) /\ programs[p] \subseteq ParentPolicy

\* Only the thread that owns the runtime calls the scheduler.
OnlyOwnerCalls == \A c \in Callers : c # owner => callerPc[c] = "idle"

\* The two tables point at each other.
EntriesLinked ==
  /\ \A i \in Occupied : context[i] \in Slots /\ Entry(context[i], tasks[i].id)
  /\ \A r \in Slots : invocations[r].occupied =>
       \E i \in Occupied : context[i] = r /\ tasks[i].id = invocations[r].id

\* An invocation no worker has run, and one that has been run.
Fresh(inv) == inv.status = "PENDING" /\ inv.data = NoData

Settled(inv) ==
  /\ inv.status # "PENDING"
  /\ inv.data = IF inv.status = "COMPLETED" THEN inv.payload ELSE NoData

\* Until the runtime is freed an entry holds its own payload and a loaded
\* program; it is fresh while its task is queued and settled once completed.
EntriesFilled ==
  phase # "destroyed" =>
    \A i \in Occupied :
      LET inv == invocations[context[i]]
      IN  /\ inv.payload = tasks[i].id
          /\ inv.program \in Catalog /\ Loaded(inv.program)
          /\ tasks[i].status = "QUEUED" => Fresh(inv)
          /\ tasks[i].status = "COMPLETED" => Settled(inv)

\* A running worker works on the entry of the task it took.
WorkersLinked ==
  \A w \in Workers : workerPc[w] = "running" =>
    \E i \in Occupied :
      /\ tasks[i].id = workerId[w]
      /\ context[i] = workerSlot[w]
      /\ IF ran[w] THEN Settled(invocations[context[i]])
                   ELSE Fresh(invocations[context[i]])

RuntimeInv ==
  /\ RuntimeTypeOK
  /\ ProgramsChecked
  /\ OnlyOwnerCalls
  /\ EntriesLinked
  /\ EntriesFilled
  /\ WorkersLinked

(***************************************************************************)
(* aivm_worker_invocation_clear keeps the entry's identity.                *)
(***************************************************************************)
LEMMA ClearedEntry ==
  ASSUME NEW inv \in InvocationRecord
  PROVE  /\ Cleared(inv) \in InvocationRecord
         /\ Cleared(inv).occupied = inv.occupied /\ Cleared(inv).id = inv.id
         /\ Fresh(Cleared(inv))
<1> DEFINE Kept(r) == r.occupied = inv.occupied /\ r.id = inv.id
<1>1. PICK O, I, P, D, T :
        /\ O = BOOLEAN /\ I = Ids \cup {NoId} /\ P = Catalog \cup {NoSlot}
        /\ D = Ids \cup {NoData} /\ T = InvocationStatus
  BY Zenon
<1>2. NoData \in D /\ "PENDING" \in T
  BY <1>1 DEF InvocationStatus
<1>3. InvocationRecord = [occupied : O, id : I, program : P, payload : D, data : D, status : T]
  BY Zenon, <1>1 DEF InvocationRecord
<1> HIDE <1>1
<1>4. [inv EXCEPT !.payload = NoData, !.data = NoData, !.status = "PENDING"] \in
        [occupied : O, id : I, program : P, payload : D, data : D, status : T]
  BY Zenon, <1>2, <1>3
<1>5. LET c == [inv EXCEPT !.payload = NoData, !.data = NoData, !.status = "PENDING"]
      IN  Kept(c) /\ c.data = NoData /\ c.status = "PENDING"
  BY <1>3
<1> QED
  BY <1>3, <1>4, <1>5 DEF Fresh, Cleared

(***************************************************************************)
(* What the runtime can see of the scheduler's steps.                      *)
(***************************************************************************)

LEMMA OwnerCalls == owner \in Callers
  BY OwnerAssumption DEF owner

\* Every step of the composed system is a step of the scheduler or leaves
\* its variables alone.
LEMMA RuntimeStepsSchedule == RuntimeNext => [Next]_vars
<1> HIDE DEF vars
<1> SUFFICES ASSUME RuntimeNext PROVE [Next]_vars
  OBVIOUS
<1>1. CASE OwnerStep
  <2>1. ASSUME NEW id \in Ids, NEW p \in Catalog, RuntimeSubmit(id, p) PROVE Next
    BY <2>1, OwnerCalls DEF RuntimeSubmit, Next, Call
  <2>2. ASSUME NEW id \in Ids,
               RuntimeAwait(id) \/ RuntimeCancel(id) \/ RuntimeRelease(id)
        PROVE  Next
    BY <2>2, OwnerCalls DEF RuntimeAwait, RuntimeCancel, RuntimeRelease, Next, Call
  <2>3. ASSUME NEW id \in Ids, RuntimeReleaseRefused(id) PROVE [Next]_vars
    BY <2>3, OwnerCalls DEF RuntimeReleaseRefused, Next, Call
  <2>4. ASSUME RuntimeAwaitReturns PROVE Next
    BY <2>4, OwnerCalls DEF RuntimeAwaitReturns, Next, AwaitStep
  <2> QED
    BY Zenon, <1>1, <2>1, <2>2, <2>3, <2>4
       DEF OwnerStep, SubmitRefused, SubmitTableFull, SubmitOutOfMemory, RuntimeAwaitUnknown
<1>2. CASE PoolStep
  BY <1>2, OwnerCalls DEF PoolStep, Next, WorkerStep, AwaitStep, Call, JoinStep
<1>3. ASSUME NEW w \in Workers, TakeInvocation(w) \/ InvocationRun(w) \/ FinishInvocation(w)
      PROVE  [Next]_vars
  BY <1>3 DEF TakeInvocation, InvocationRun, FinishInvocation, Next, WorkerStep
<1>4. CASE RuntimeFree
  BY <1>4 DEF RuntimeFree, Next, JoinStep
<1> QED
  BY <1>1, <1>2, <1>3, <1>4 DEF RuntimeNext

\* Distinct ids on one side are distinct ids on the other: an occupied entry
\* is the entry of one task.
LEMMA EntryOfTask ==
  ASSUME IInv, RuntimeTypeOK, EntriesLinked, NEW i \in Occupied, NEW r \in Slots,
         Entry(r, tasks[i].id)
  PROVE  context[i] = r
<1>1. PICK j \in Occupied : context[j] = r /\ tasks[j].id = invocations[r].id
  BY DEF EntriesLinked, Entry
<1> QED
  BY <1>1 DEF IInv, IdsDistinct, Entry

\* The task a running worker took is running, under that worker's id.
LEMMA RunningTask ==
  ASSUME IInv, NEW w \in Workers, workerPc[w] = "running", NEW i \in Occupied,
         tasks[i].id = workerId[w]
  PROVE  tasks[i].status = "RUNNING"
  BY DEF IInv, RunningWorkerOwnsTask, IdsDistinct, Holds, Occupied

\* Nothing the runtime's invariant mentions changes, except that workers may
\* stop running.
Quiet ==
  /\ UNCHANGED <<tasks, workerId, invocations, programs, context, workerSlot, ran>>
  /\ \A w \in Workers : workerPc'[w] = "running" => workerPc[w] = "running"
  /\ phase = "destroyed" => phase' = "destroyed"

LEMMA QuietStep ==
  ASSUME RuntimeInv, Quiet, OnlyOwnerCalls'
  PROVE  RuntimeInv'
<1> USE DEF RuntimeInv, Quiet
<1>1. RuntimeTypeOK' /\ ProgramsChecked'
  BY DEF RuntimeTypeOK, ProgramsChecked, Loaded
<1>2. EntriesLinked'
  BY DEF EntriesLinked, Entry, Occupied
<1>3. EntriesFilled'
  BY DEF EntriesFilled, Loaded, Occupied, Fresh, Settled
<1>4. WorkersLinked'
  BY DEF WorkersLinked, Occupied, Fresh, Settled
<1> QED
  BY <1>1, <1>2, <1>3, <1>4

\* prepare_program loads a program that passed the capability check, or finds
\* it loaded by an earlier submission; it unloads nothing.
LEMMA ProgramPrepared ==
  ASSUME RuntimeTypeOK, ProgramsChecked, NEW p \in Catalog, "OK" \in PrepareStatus(p),
         programs' = [programs EXCEPT ![p] = SyscallMask(RequiredCaps[p])]
  PROVE  /\ ProgramsChecked'
         /\ DOMAIN programs' = Catalog
         /\ Loaded(p)'
         /\ \A q \in Catalog : Loaded(q) => Loaded(q)'
<1> DEFINE mask == SyscallMask(RequiredCaps[p])
<1>1. mask \subseteq ParentPolicy
  <2>1. CASE Loaded(p)
    BY <2>1 DEF ProgramsChecked
  <2>2. CASE ~Loaded(p)
    BY <2>2 DEF PrepareStatus, CapabilityDenied
  <2> QED
    BY <2>1, <2>2
<1>2. mask # NotLoaded
  BY Zenon, <1>1, CatalogAssumption DEF NotLoaded, SyscallGroups
<1> HIDE DEF mask
<1>3. programs' = [programs EXCEPT ![p] = mask] /\ DOMAIN programs = Catalog
  BY DEF mask, RuntimeTypeOK
<1>4. Loaded(p)' /\ \A q \in Catalog : Loaded(q) => Loaded(q)'
  BY <1>2, <1>3 DEF Loaded
<1>5. ProgramsChecked'
  BY <1>1, <1>3 DEF ProgramsChecked, Loaded, mask
<1> QED
  BY <1>3, <1>4, <1>5

\* A step that leaves the scheduler alone, prepares a program and at most
\* rewrites an entry that is not occupied.
LEMMA PreparedStep ==
  ASSUME IInv, RuntimeInv, UNCHANGED <<vars, context, workerSlot, ran>>,
         NEW p \in Catalog, "OK" \in PrepareStatus(p),
         programs' = [programs EXCEPT ![p] = SyscallMask(RequiredCaps[p])],
         invocations' \in [Slots -> InvocationRecord],
         \A r \in Slots : /\ invocations'[r].occupied = invocations[r].occupied
                          /\ invocations[r].occupied => invocations'[r] = invocations[r]
  PROVE  RuntimeInv'
<1> USE DEF RuntimeInv, vars, table, workerVars, callerVars
<1>1. ProgramsChecked' /\ DOMAIN programs' = Catalog
      /\ \A q \in Catalog : Loaded(q) => Loaded(q)'
  BY Zenon, ProgramPrepared
<1>2. RuntimeTypeOK'
  BY <1>1 DEF RuntimeTypeOK
<1>3. OnlyOwnerCalls'
  BY Zenon DEF OnlyOwnerCalls
<1>4. \A i \in Occupied : context[i] \in Slots /\ invocations'[context[i]] = invocations[context[i]]
  BY DEF EntriesLinked, Entry
<1>5. Occupied' = Occupied
  BY DEF Occupied
<1>6. EntriesLinked'
  BY <1>4, <1>5 DEF EntriesLinked, Entry
<1>7. EntriesFilled'
  BY <1>1, <1>4, <1>5 DEF EntriesFilled, Fresh, Settled
<1>8. WorkersLinked'
  BY <1>4, <1>5 DEF WorkersLinked, Fresh, Settled
<1> QED
  BY Zenon, <1>1, <1>2, <1>3, <1>6, <1>7, <1>8

\* aivm_worker_runtime_submit that finds the table full or no memory.
LEMMA SubmitFailsStep ==
  ASSUME IInv, RuntimeInv, NEW id \in Ids, NEW p \in Catalog,
         SubmitTableFull(id, p) \/ SubmitOutOfMemory(id, p)
  PROVE  RuntimeInv'
<1>1. CASE SubmitTableFull(id, p)
  BY Zenon, <1>1, PreparedStep DEF SubmitTableFull, RuntimeInv, RuntimeTypeOK
<1>2. CASE SubmitOutOfMemory(id, p)
  <2>1. PICK r \in Slots :
          /\ ~invocations[r].occupied
          /\ invocations' = [invocations EXCEPT
               ![r] = [Cleared(@) EXCEPT !.id = id, !.program = p]]
    BY Zenon, <1>2 DEF SubmitOutOfMemory, FreeEntry
  <2>2. PICK inv \in InvocationRecord :
          inv = Cleared(invocations[r]) /\ inv.occupied = invocations[r].occupied
    BY ClearedEntry DEF RuntimeInv, RuntimeTypeOK
  <2> DEFINE new == [inv EXCEPT !.id = id, !.program = p]
  <2>3. new \in InvocationRecord /\ new.occupied = invocations[r].occupied
    BY Zenon, <2>2 DEF InvocationRecord
  <2>4. invocations' = [invocations EXCEPT ![r] = new]
    BY <2>1, <2>2
  <2> HIDE DEF new
  <2>5. /\ invocations' \in [Slots -> InvocationRecord]
        /\ \A q \in Slots : /\ invocations'[q].occupied = invocations[q].occupied
                            /\ invocations[q].occupied => invocations'[q] = invocations[q]
    BY <2>1, <2>2, <2>3, <2>4 DEF RuntimeInv, RuntimeTypeOK, new
  <2> QED
    BY Zenon, <1>2, <2>5, PreparedStep DEF SubmitOutOfMemory
<1> QED
  BY <1>1, <1>2

\* aivm_worker_runtime_submit: the entry and the task it is handed to are
\* taken together.
LEMMA SubmitStep ==
  ASSUME IInv, RuntimeInv, NEW id \in Ids, NEW p \in Catalog, RuntimeSubmit(id, p)
  PROVE  RuntimeInv'
<1> USE DEF RuntimeInv
<1>1. PICK r \in Slots :
        /\ ~invocations[r].occupied
        /\ invocations' = [invocations EXCEPT
             ![r] = [Cleared(@) EXCEPT !.occupied = TRUE, !.id = id,
                                       !.program = p, !.payload = id]]
        /\ Submit(owner, id)
        /\ context' = [i \in Slots |->
             IF tasks'[i].occupied /\ ~tasks[i].occupied THEN r ELSE context[i]]
  BY Zenon DEF RuntimeSubmit, FreeEntry
<1>2. PICK i \in Slots :
        /\ ~tasks[i].occupied
        /\ tasks' = [tasks EXCEPT ![i] = [occupied |-> TRUE, id |-> id, status |-> "QUEUED"]]
  BY Zenon, <1>1 DEF Submit
<1>3. /\ UNCHANGED <<phase, workerId, workerSlot, ran>>
      /\ \A w \in Workers : workerPc'[w] = "running" => workerPc[w] = "running"
      /\ \A c \in Callers : callerPc[c] = "idle" => callerPc'[c] = "idle"
  BY <1>1 DEF RuntimeSubmit, Submit, WakeWorkers, WakeCallers, Awoken
<1>0. PICK inv \in InvocationRecord : inv = Cleared(invocations[r]) /\ Fresh(inv)
  BY ClearedEntry DEF RuntimeTypeOK
<1> DEFINE new == [inv EXCEPT !.occupied = TRUE, !.id = id, !.program = p, !.payload = id]
<1>4. /\ new \in InvocationRecord
      /\ new.occupied /\ new.id = id /\ new.program = p /\ new.payload = id
      /\ Fresh(new)
  BY Zenon, <1>0 DEF InvocationRecord, Fresh
<1>5. invocations' = [invocations EXCEPT ![r] = new] /\ invocations \in [Slots -> InvocationRecord]
  BY <1>0, <1>1 DEF RuntimeTypeOK
<1> HIDE DEF new
<1>6. tasks \in [Slots -> TaskRecord]
  BY DEF IInv, TypeOK
<1>7. Occupied' = Occupied \cup {i} /\ i \notin Occupied
  BY <1>2, <1>6 DEF Occupied
<1>8. context' = [context EXCEPT ![i] = r]
  BY Zenon, <1>1, <1>2, <1>6 DEF RuntimeTypeOK
<1>9. \A j \in Occupied : /\ tasks'[j] = tasks[j]
                          /\ context'[j] = context[j]
                          /\ context[j] \in Slots /\ context[j] # r
                          /\ invocations'[context[j]] = invocations[context[j]]
  BY <1>1, <1>2, <1>5, <1>6, <1>7, <1>8 DEF EntriesLinked, Entry, RuntimeTypeOK, Occupied
<1>10. /\ tasks'[i].id = id /\ tasks'[i].status = "QUEUED"
       /\ context'[i] = r /\ invocations'[r] = new
  BY <1>2, <1>5, <1>6, <1>8 DEF RuntimeTypeOK
<1>11. /\ ProgramsChecked' /\ DOMAIN programs' = Catalog
       /\ Loaded(p)' /\ \A q \in Catalog : Loaded(q) => Loaded(q)'
  BY Zenon, ProgramPrepared DEF RuntimeSubmit
<1>12. RuntimeTypeOK'
  BY Zenon, <1>3, <1>4, <1>5, <1>8, <1>11 DEF RuntimeTypeOK
<1>13. OnlyOwnerCalls'
  BY Zenon, <1>3 DEF OnlyOwnerCalls
<1>14. EntriesLinked'
  <2>1. \A j \in Occupied' : context'[j] \in Slots /\ Entry(context[j], tasks[j].id)'
    BY <1>4, <1>7, <1>9, <1>10 DEF EntriesLinked, Entry
  <2>2. ASSUME NEW q \in Slots, invocations'[q].occupied
        PROVE  \E j \in Occupied' : context'[j] = q /\ tasks'[j].id = invocations'[q].id
    <3>1. CASE q = r
      BY Zenon, <1>4, <1>7, <1>10, <3>1
    <3>2. CASE q # r
      BY <1>5, <1>7, <1>9, <2>2, <3>2 DEF EntriesLinked
    <3> QED
      BY <3>1, <3>2
  <2> QED
    BY Zenon, <2>1, <2>2 DEF EntriesLinked
<1>15. EntriesFilled'
  <2> SUFFICES ASSUME phase # "destroyed", NEW j \in Occupied'
               PROVE  LET own == invocations'[context'[j]]
                      IN  /\ own.payload = tasks'[j].id
                          /\ own.program \in Catalog /\ programs'[own.program] # NotLoaded
                          /\ tasks'[j].status = "QUEUED" => Fresh(own)
                          /\ tasks'[j].status = "COMPLETED" => Settled(own)
    BY Zenon, <1>3 DEF EntriesFilled, Fresh, Settled, Loaded
  <2>1. CASE j = i
    BY ZenonT(30), <1>4, <1>10, <1>11, <2>1 DEF Loaded
  <2>2. CASE j \in Occupied
    BY <1>9, <1>11, <2>2 DEF EntriesFilled, Loaded
  <2> QED
    BY <1>7, <2>1, <2>2
<1>16. WorkersLinked'
  BY <1>3, <1>7, <1>9 DEF WorkersLinked, Fresh, Settled
<1> QED
  BY Zenon, <1>11, <1>12, <1>13, <1>14, <1>15, <1>16

\* A task that is taken, canceled or completed changes its status and nothing
\* else; a completed one must have a settled invocation.
LEMMA StatusStep ==
  ASSUME IInv, RuntimeInv, UNCHANGED <<phase, invocations, programs, context>>,
         NEW i \in Slots, NEW status \in {"RUNNING", "CANCELED", "COMPLETED"},
         tasks' = [tasks EXCEPT ![i].status = status],
         status = "COMPLETED" => Settled(invocations[context[i]])
  PROVE  /\ Occupied' = Occupied
         /\ \A j \in Slots : tasks'[j].id = tasks[j].id
         /\ ProgramsChecked'
         /\ EntriesLinked'
         /\ EntriesFilled'
<1> USE DEF RuntimeInv
<1>1. tasks \in [Slots -> TaskRecord]
  BY DEF IInv, TypeOK
<1>2. \A j \in Slots :
        /\ tasks'[j].id = tasks[j].id
        /\ tasks'[j].occupied = tasks[j].occupied
        /\ tasks'[j].status = IF j = i THEN status ELSE tasks[j].status
  BY <1>1 DEF TaskRecord
<1>3. Occupied' = Occupied /\ Occupied \subseteq Slots
  BY <1>2 DEF Occupied
<1>4. ProgramsChecked'
  BY DEF ProgramsChecked, Loaded
<1>5. EntriesLinked'
  BY <1>2, <1>3 DEF EntriesLinked, Entry
<1>6. EntriesFilled'
  BY <1>2, <1>3 DEF EntriesFilled, Loaded, Fresh, Settled
<1> QED
  BY Zenon, <1>2, <1>3, <1>4, <1>5, <1>6

LEMMA CancelStep ==
  ASSUME IInv, RuntimeInv, NEW id \in Ids, RuntimeCancel(id)
  PROVE  RuntimeInv'
<1> USE DEF RuntimeInv
<1>1. CASE Cancel(owner, id)
  <2>1. PICK i \in Slots : tasks' = [tasks EXCEPT ![i].status = "CANCELED"]
    BY Zenon, <1>1 DEF Cancel, SetStatus
  <2>2. /\ UNCHANGED <<phase, workerId, invocations, programs, context, workerSlot, ran>>
        /\ \A w \in Workers : workerPc'[w] = "running" => workerPc[w] = "running"
        /\ \A c \in Callers : callerPc[c] = "idle" => callerPc'[c] = "idle"
    BY <1>1 DEF RuntimeCancel, Cancel, WakeWorkers, WakeCallers, Awoken
  <2>3. /\ Occupied' = Occupied /\ \A j \in Slots : tasks'[j].id = tasks[j].id
        /\ ProgramsChecked' /\ EntriesLinked' /\ EntriesFilled'
    BY ZenonT(30), <2>1, <2>2, StatusStep
  <2>4. WorkersLinked'
    BY <2>2, <2>3 DEF WorkersLinked, Fresh, Settled, Occupied
  <2> QED
    BY <2>2, <2>3, <2>4 DEF RuntimeTypeOK, OnlyOwnerCalls
<1>2. CASE CancelRefused(owner, id)
  <2>1. Quiet /\ OnlyOwnerCalls'
    BY <1>2 DEF RuntimeCancel, CancelRefused, Quiet, OnlyOwnerCalls, table, workerVars
  <2> QED
    BY ZenonT(30), <2>1, QuietStep
<1> QED
  BY <1>1, <1>2 DEF RuntimeCancel

\* The worker that takes a task gets the entry the task points at.
LEMMA TakeStep ==
  ASSUME IInv, RuntimeInv, NEW w \in Workers, TakeInvocation(w)
  PROVE  RuntimeInv'
<1> USE DEF RuntimeInv
<1>1. PICK i \in Slots : /\ tasks[i].occupied /\ tasks[i].status = "QUEUED"
                         /\ tasks' = [tasks EXCEPT ![i].status = "RUNNING"]
                         /\ workerId' = [workerId EXCEPT ![w] = tasks[i].id]
  BY Zenon DEF TakeInvocation, WorkerTake, FirstQueued, Queued, SetStatus
<1>2. PICK j \in Slots : /\ Holds(j, workerId'[w])
                         /\ workerSlot' = [workerSlot EXCEPT ![w] = context[j]]
  BY Zenon DEF TakeInvocation
<1>3. /\ UNCHANGED <<phase, callerPc, invocations, programs, context>>
      /\ workerPc' = [workerPc EXCEPT ![w] = "running"]
      /\ ran' = [ran EXCEPT ![w] = FALSE]
  BY DEF TakeInvocation, WorkerTake, callerVars
<1>4. /\ Occupied' = Occupied /\ \A k \in Slots : tasks'[k].id = tasks[k].id
      /\ ProgramsChecked' /\ EntriesLinked' /\ EntriesFilled'
  BY Zenon, <1>1, <1>3, StatusStep
<1>5. workerPc \in [Workers -> WorkerPcs] /\ workerId \in [Workers -> Ids \cup {NoId}]
  BY DEF IInv, TypeOK
<1>6. j = i
  BY Zenon, <1>1, <1>2, <1>5 DEF IInv, IdsDistinct, Occupied, Holds
<1>7. RuntimeTypeOK'
  BY Zenon, <1>2, <1>3 DEF RuntimeTypeOK
<1>8. WorkersLinked'
  <2> SUFFICES ASSUME NEW v \in Workers, workerPc'[v] = "running"
               PROVE  \E k \in Occupied :
                        /\ tasks[k].id = workerId'[v]
                        /\ context[k] = workerSlot'[v]
                        /\ IF ran'[v] THEN Settled(invocations[context[k]])
                                      ELSE Fresh(invocations[context[k]])
    BY <1>3, <1>4 DEF WorkersLinked, Fresh, Settled, Occupied
  <2>1. CASE v = w
    <3>1. phase # "destroyed"
      BY DEF TakeInvocation, WorkerTake, IInv, Lifecycle
    <3>2. i \in Occupied /\ Fresh(invocations[context[i]])
      BY <1>1, <3>1 DEF EntriesFilled, Occupied
    <3> QED
      BY ZenonT(30), <1>1, <1>2, <1>3, <1>5, <1>6, <2>1, <3>2 DEF RuntimeTypeOK
  <2>2. CASE v # w
    BY <1>1, <1>2, <1>3, <1>5, <2>2 DEF WorkersLinked, RuntimeTypeOK
  <2> QED
    BY ZenonT(30), <2>1, <2>2
<1> QED
  BY <1>3, <1>4, <1>7, <1>8 DEF OnlyOwnerCalls

\* A worker writes the invocation it runs without a lock: its task is
\* running, so no queued or completed task and no other worker has the entry.
LEMMA RunStep ==
  ASSUME IInv, RuntimeInv, NEW w \in Workers, InvocationRun(w)
  PROVE  RuntimeInv'
<1> USE DEF RuntimeInv
<1> DEFINE r == workerSlot[w]
           inv == invocations[r]
<1>1. /\ workerPc[w] = "running" /\ ~ran[w]
      /\ ran' = [ran EXCEPT ![w] = TRUE]
      /\ UNCHANGED <<phase, tasks, workerPc, workerId, callerPc, programs, context, workerSlot>>
  BY DEF InvocationRun, vars, table, workerVars, callerVars
<1>2. PICK new \in RunOutcomes(inv) : invocations' = [invocations EXCEPT ![r] = new]
  BY Zenon DEF InvocationRun
<1>3. PICK i \in Occupied : /\ tasks[i].id = workerId[w] /\ context[i] = r
                            /\ Fresh(inv)
  BY Zenon, <1>1 DEF WorkersLinked
<1>4. i \in Slots /\ r \in Slots /\ inv \in InvocationRecord /\ Entry(r, workerId[w])
  BY <1>3 DEF EntriesLinked, RuntimeTypeOK, Occupied
<1>5. tasks[i].status = "RUNNING"
  BY Zenon, <1>1, <1>3, RunningTask
<1>6. phase # "destroyed"
  BY <1>1 DEF IInv, Lifecycle, Workers
<1>7. inv.payload = workerId[w] /\ inv.program \in Catalog /\ Loaded(inv.program)
  BY <1>3, <1>6 DEF EntriesFilled
<1>8. /\ new \in InvocationRecord
      /\ new.occupied = inv.occupied /\ new.id = inv.id
      /\ new.program = inv.program /\ new.payload = inv.payload
      /\ Settled(new)
  <2> HIDE DEF inv
  <2>1. \/ new = [inv EXCEPT !.status = "COMPLETED", !.data = inv.payload]
        \/ new = [inv EXCEPT !.status = "TRANSPORT_ERROR"]
        \/ new = [inv EXCEPT !.status = "FAILED"]
    BY <1>2, <1>7 DEF RunOutcomes
  <2> QED
    BY ZenonT(30), <1>3, <1>4, <2>1 DEF InvocationRecord, InvocationStatus, Fresh, Settled
<1>9. \A j \in Occupied : j # i => context[j] \in Slots /\ context[j] # r
  BY <1>3, <1>4, EntryOfTask DEF EntriesLinked, Entry, IInv, IdsDistinct
<1>10. /\ invocations'[r] = new
       /\ \A q \in Slots : q # r => invocations'[q] = invocations[q]
       /\ invocations' \in [Slots -> InvocationRecord]
  BY Zenon, <1>2, <1>4, <1>8 DEF RuntimeTypeOK
<1>11. Occupied' = Occupied
  BY <1>1 DEF Occupied
<1>12. RuntimeTypeOK' /\ ProgramsChecked' /\ OnlyOwnerCalls'
  BY ZenonT(30), <1>1, <1>10 DEF RuntimeTypeOK, ProgramsChecked, Loaded, OnlyOwnerCalls
<1>13. EntriesLinked'
  <2>1. \A q \in Slots : invocations'[q].occupied = invocations[q].occupied
                         /\ invocations'[q].id = invocations[q].id
    BY ZenonT(30), <1>4, <1>8, <1>10
  <2> HIDE DEF r
  <2> QED
    BY <1>1, <1>11, <2>1 DEF EntriesLinked, Entry
<1>14. EntriesFilled'
  <2> SUFFICES ASSUME NEW j \in Occupied
               PROVE  LET x == invocations'[context[j]]
                      IN  /\ x.payload = tasks[j].id
                          /\ x.program \in Catalog /\ Loaded(x.program)
                          /\ tasks[j].status = "QUEUED" => Fresh(x)
                          /\ tasks[j].status = "COMPLETED" => Settled(x)
    BY Zenon, <1>1, <1>11 DEF EntriesFilled, Fresh, Settled, Loaded
  <2>1. CASE j = i
    BY Zenon, <1>3, <1>5, <1>7, <1>8, <1>10, <2>1
  <2>2. CASE j # i
    BY Zenon, <1>6, <1>9, <1>10, <2>2 DEF EntriesFilled
  <2> QED
    BY <2>1, <2>2
<1>15. WorkersLinked'
  <2> SUFFICES ASSUME NEW v \in Workers, workerPc[v] = "running"
               PROVE  \E k \in Occupied :
                        /\ tasks[k].id = workerId[v]
                        /\ context[k] = workerSlot[v]
                        /\ IF ran'[v] THEN Settled(invocations'[context[k]])
                                      ELSE Fresh(invocations'[context[k]])
    BY <1>1, <1>11 DEF WorkersLinked, Fresh, Settled
  <2>1. CASE v = w
    BY Zenon, <1>1, <1>3, <1>8, <1>10, <2>1 DEF RuntimeTypeOK
  <2>2. CASE v # w
    <3>1. PICK k \in Occupied :
            /\ tasks[k].id = workerId[v]
            /\ context[k] = workerSlot[v]
            /\ IF ran[v] THEN Settled(invocations[context[k]])
                         ELSE Fresh(invocations[context[k]])
      BY Zenon DEF WorkersLinked
    <3>2. k # i
      BY ZenonT(30), <1>1, <1>3, <2>2, <3>1 DEF IInv, OneWorkerPerTask
    <3>3. invocations'[context[k]] = invocations[context[k]] /\ ran'[v] = ran[v]
      BY Zenon, <1>1, <1>9, <1>10, <2>2, <3>2 DEF RuntimeTypeOK
    <3> QED
      BY Zenon, <3>1, <3>3
  <2> QED
    BY ZenonT(30), <2>1, <2>2
<1> QED
  BY ZenonT(30), <1>12, <1>13, <1>14, <1>15

\* The worker hands its task back only after it has settled the invocation.
LEMMA FinishStep ==
  ASSUME IInv, RuntimeInv, NEW w \in Workers, FinishInvocation(w)
  PROVE  RuntimeInv'
<1> USE DEF RuntimeInv
<1>1. /\ ran[w] /\ workerPc[w] = "running"
      /\ UNCHANGED <<phase, invocations, programs, context>>
      /\ ran' = [ran EXCEPT ![w] = FALSE]
      /\ workerSlot' = [workerSlot EXCEPT ![w] = NoSlot]
      /\ workerId' = [workerId EXCEPT ![w] = NoId]
      /\ workerPc' = [v \in Workers |-> IF v = w THEN "ready" ELSE Awoken(v)]
      /\ \A c \in Callers : callerPc[c] = "idle" => callerPc'[c] = "idle"
  BY DEF FinishInvocation, WorkerComplete, WakeCallers
<1>2. PICK i \in Occupied : /\ tasks[i].id = workerId[w]
                            /\ Settled(invocations[context[i]])
  BY ZenonT(30), <1>1 DEF WorkersLinked
<1>3. i \in Slots /\ tasks[i].status = "RUNNING"
  BY <1>1, <1>2, RunningTask DEF Occupied
<1>4. tasks' = [tasks EXCEPT ![i].status = "COMPLETED"]
  <2>1. \A j \in Slots : Holds(j, workerId[w]) <=> j = i
    BY <1>2 DEF Holds, Occupied, IInv, IdsDistinct
  <2>2. tasks' = [j \in Slots |->
                   IF Holds(j, workerId[w]) /\ tasks[j].status = "RUNNING"
                     THEN [tasks[j] EXCEPT !.status = "COMPLETED"]
                     ELSE tasks[j]]
    BY DEF FinishInvocation, WorkerComplete
  <2> QED
    BY Zenon, <1>3, <2>1, <2>2 DEF IInv, TypeOK
<1>5. /\ Occupied' = Occupied /\ \A k \in Slots : tasks'[k].id = tasks[k].id
      /\ ProgramsChecked' /\ EntriesLinked' /\ EntriesFilled'
  BY Zenon, <1>1, <1>2, <1>3, <1>4, StatusStep
<1>6. RuntimeTypeOK'
  BY Zenon, <1>1 DEF RuntimeTypeOK
<1>7. WorkersLinked'
  <2>1. \A v \in Workers : workerPc'[v] = "running" =>
          /\ v # w /\ workerPc[v] = "running"
          /\ workerId'[v] = workerId[v] /\ workerSlot'[v] = workerSlot[v] /\ ran'[v] = ran[v]
    BY Zenon, <1>1 DEF Awoken, RuntimeTypeOK, IInv, TypeOK
  <2>2. \A k \in Occupied : tasks'[k].id = tasks[k].id
    BY ZenonT(30), <1>5 DEF Occupied
  <2> SUFFICES ASSUME NEW v \in Workers, workerPc'[v] = "running"
               PROVE  \E k \in Occupied :
                        /\ tasks'[k].id = workerId'[v]
                        /\ context[k] = workerSlot'[v]
                        /\ IF ran'[v] THEN Settled(invocations[context[k]])
                                      ELSE Fresh(invocations[context[k]])
    BY <1>1, <1>5 DEF WorkersLinked, Fresh, Settled
  <2> QED
    BY <2>1, <2>2 DEF WorkersLinked
<1> QED
  BY <1>1, <1>5, <1>6, <1>7 DEF OnlyOwnerCalls

\* aivm_worker_runtime_release: entry and task are given back together, and
\* only when the task is finished, so no worker is using the entry.
LEMMA ReleaseStep ==
  ASSUME IInv, RuntimeInv, NEW id \in Ids, RuntimeRelease(id)
  PROVE  RuntimeInv'
<1> USE DEF RuntimeInv
<1>1. PICK r \in Slots :
        /\ Entry(r, id)
        /\ Release(owner, id)
        /\ invocations' = [invocations EXCEPT ![r] = [Cleared(@) EXCEPT !.occupied = FALSE]]
  BY Zenon DEF RuntimeRelease
<1>2. PICK i \in Slots : /\ Holds(i, id) /\ tasks[i].status \in Terminal
                         /\ tasks' = [tasks EXCEPT ![i].occupied = FALSE]
  BY Zenon, <1>1 DEF Release
<1>3. UNCHANGED <<phase, workerPc, workerId, callerPc, programs, context, workerSlot, ran>>
  BY <1>1 DEF RuntimeRelease, Release, workerVars
<1>0. PICK inv \in InvocationRecord : inv = Cleared(invocations[r])
  BY ClearedEntry DEF RuntimeTypeOK
<1> DEFINE new == [inv EXCEPT !.occupied = FALSE]
<1>4. new \in InvocationRecord /\ ~new.occupied
  BY Zenon DEF InvocationRecord
<1>5. invocations' = [invocations EXCEPT ![r] = new] /\ invocations \in [Slots -> InvocationRecord]
  BY Zenon, <1>0, <1>1 DEF RuntimeTypeOK
<1> HIDE DEF new
<1>6. tasks \in [Slots -> TaskRecord]
  BY DEF IInv, TypeOK
<1>7. /\ i \in Occupied /\ tasks[i].id = id
      /\ Occupied' = Occupied \ {i}
      /\ \A j \in Occupied' : tasks'[j] = tasks[j]
  BY <1>2, <1>6 DEF Occupied, Holds, TaskRecord
<1>8. context[i] = r
  BY Zenon, <1>1, <1>7, EntryOfTask
<1>9. \A j \in Occupied' : /\ context[j] \in Slots /\ context[j] # r
                           /\ invocations'[context[j]] = invocations[context[j]]
  BY <1>1, <1>5, <1>7 DEF EntriesLinked, Entry, IInv, IdsDistinct
<1>10. RuntimeTypeOK' /\ ProgramsChecked' /\ OnlyOwnerCalls'
  BY Zenon, <1>3, <1>4, <1>5 DEF RuntimeTypeOK, ProgramsChecked, Loaded, OnlyOwnerCalls
<1>11. EntriesLinked'
  <2>1. \A j \in Occupied' : context'[j] \in Slots /\ Entry(context[j], tasks[j].id)'
    BY ZenonT(30), <1>3, <1>7, <1>9 DEF EntriesLinked, Entry
  <2>2. ASSUME NEW q \in Slots, invocations'[q].occupied
        PROVE  \E j \in Occupied' : context'[j] = q /\ tasks'[j].id = invocations'[q].id
    <3>1. q # r /\ invocations'[q] = invocations[q]
      BY Zenon, <1>4, <1>5, <2>2
    <3>2. PICK j \in Occupied : context[j] = q /\ tasks[j].id = invocations[q].id
      BY Zenon, <2>2, <3>1 DEF EntriesLinked
    <3> QED
      BY Zenon, <1>3, <1>7, <1>8, <3>1, <3>2
  <2> QED
    BY Zenon, <2>1, <2>2 DEF EntriesLinked
<1>12. EntriesFilled'
  BY <1>3, <1>7, <1>9 DEF EntriesFilled, Loaded, Fresh, Settled
<1>13. WorkersLinked'
  <2>1. \A v \in Workers : workerPc[v] = "running" => workerId[v] # id
    BY Zenon, <1>2, <1>7, RunningTask DEF Terminal
  <2> QED
    <3> SUFFICES ASSUME NEW v \in Workers, workerPc'[v] = "running"
                 PROVE  \E j \in Occupied' :
                          /\ tasks'[j].id = workerId'[v] /\ context'[j] = workerSlot'[v]
                          /\ IF ran'[v] THEN Settled(invocations'[context'[j]])
                                        ELSE Fresh(invocations'[context'[j]])
      BY Zenon DEF WorkersLinked, Settled, Fresh
    <3>1. PICK j \in Occupied :
            /\ tasks[j].id = workerId[v] /\ context[j] = workerSlot[v]
            /\ IF ran[v] THEN Settled(invocations[context[j]]) ELSE Fresh(invocations[context[j]])
      BY Zenon, <1>3 DEF WorkersLinked
    <3>2. j \in Occupied' /\ tasks'[j] = tasks[j]
      BY Zenon, <1>3, <1>7, <2>1, <3>1
    <3>3. context'[j] = context[j] /\ invocations'[context[j]] = invocations[context[j]]
      BY Zenon, <1>3, <1>9, <3>2
    <3> QED
      BY Zenon, <1>3, <3>1, <3>2, <3>3
<1> QED
  BY <1>10, <1>11, <1>12, <1>13

\* aivm_worker_runtime_destroy frees payloads and programs when no thread is
\* left.
LEMMA FreeStep ==
  ASSUME IInv, RuntimeInv, RuntimeFree
  PROVE  RuntimeInv'
<1> USE DEF RuntimeInv
<1>1. /\ phase' = "destroyed" /\ workerCount = 0
      /\ UNCHANGED <<tasks, workerPc, callerPc, context, workerSlot, ran>>
      /\ invocations' = [r \in Slots |->
           IF invocations[r].occupied THEN Cleared(invocations[r]) ELSE invocations[r]]
      /\ programs' = [p \in Catalog |-> NotLoaded]
  BY DEF RuntimeFree, Free, table, workerVars, callerVars
<1>2. \A r \in Slots : /\ Cleared(invocations[r]) \in InvocationRecord
                       /\ Cleared(invocations[r]).occupied = invocations[r].occupied
                       /\ Cleared(invocations[r]).id = invocations[r].id
  BY Zenon, ClearedEntry DEF RuntimeTypeOK
<1>3. \A r \in Slots : /\ invocations'[r] \in InvocationRecord
                       /\ invocations'[r].occupied = invocations[r].occupied
                       /\ invocations'[r].id = invocations[r].id
  BY Zenon, <1>1, <1>2 DEF RuntimeTypeOK
<1>4. RuntimeTypeOK' /\ ProgramsChecked' /\ OnlyOwnerCalls'
  BY ZenonT(30), <1>1, <1>3 DEF RuntimeTypeOK, ProgramsChecked, Loaded, OnlyOwnerCalls
<1>5. EntriesLinked'
  BY <1>1, <1>3 DEF EntriesLinked, Entry, Occupied
<1>6. EntriesFilled'
  BY ZenonT(30), <1>1 DEF EntriesFilled
<1>7. WorkersLinked'
  BY <1>1 DEF WorkersLinked, IInv, Lifecycle, Workers
<1> QED
  BY Zenon, <1>4, <1>5, <1>6, <1>7

LEMMA RuntimeInductiveStep == IInv /\ RuntimeInv /\ [RuntimeNext]_rvars => RuntimeInv'
<1> SUFFICES ASSUME IInv, RuntimeInv, [RuntimeNext]_rvars PROVE RuntimeInv'
  OBVIOUS
<1>1. CASE PoolStep
  <2>1. OnlyOwnerCalls'
    BY Zenon, <1>1 DEF PoolStep, RuntimeInv, OnlyOwnerCalls, CreateStep, StartWorker, StartWorkerFails,
         WorkerWait, WorkerExit, AwaitWaits, SpuriousWake, Destroy, JoinWorker, Destroyed,
         vars, table, workerVars, callerVars, IInv, TypeOK
  <2>2. UNCHANGED <<tasks, workerId>>
    BY Zenon, <1>1 DEF PoolStep, CreateStep, StartWorker, StartWorkerFails,
         WorkerWait, WorkerExit, AwaitWaits, SpuriousWake, Destroy, JoinWorker, Destroyed,
         vars, table, workerVars, callerVars
  <2>3. \A w \in Workers : workerPc'[w] = "running" => workerPc[w] = "running"
    BY Zenon, <1>1 DEF PoolStep, CreateStep, StartWorker, StartWorkerFails, WakeWorkers, Awoken,
         WorkerWait, WorkerExit, AwaitWaits, SpuriousWake, Destroy, JoinWorker, Destroyed,
         vars, table, workerVars, callerVars, IInv, TypeOK
  <2>4. phase = "destroyed" => phase' = "destroyed"
    BY Zenon, <1>1 DEF PoolStep, CreateStep, StartWorker, StartWorkerFails,
         WorkerWait, WorkerExit, AwaitWaits, SpuriousWake, Destroy, JoinWorker, Destroyed,
         vars, CanCall
  <2>5. Quiet
    BY Zenon, <1>1, <2>2, <2>3, <2>4 DEF PoolStep, Quiet, runtimeVars
  <2> QED
    BY <2>1, <2>5, QuietStep
<1>2. ASSUME NEW id \in Ids, NEW p \in Catalog, NEW oversized \in BOOLEAN,
             SubmitRefused(id, p, oversized)
      PROVE  RuntimeInv'
  <2>1. Quiet /\ OnlyOwnerCalls'
    BY <1>2 DEF SubmitRefused, Quiet, vars, table, workerVars, callerVars, RuntimeInv, OnlyOwnerCalls
  <2> QED
    BY Zenon, <2>1, QuietStep
<1>3. ASSUME NEW id \in Ids,
             RuntimeAwait(id) \/ RuntimeAwaitUnknown(id) \/ RuntimeReleaseRefused(id)
      PROVE  RuntimeInv'
  <2>1. OnlyOwnerCalls'
    BY Zenon, <1>3 DEF RuntimeAwait, RuntimeAwaitUnknown, RuntimeReleaseRefused, Await, ReleaseRefused,
         vars, callerVars, RuntimeInv, OnlyOwnerCalls, IInv, TypeOK
  <2>2. Quiet
    BY <1>3 DEF RuntimeAwait, RuntimeAwaitUnknown, RuntimeReleaseRefused, Await, ReleaseRefused,
         Quiet, vars, table, workerVars, callerVars, runtimeVars
  <2> QED
    BY <2>1, <2>2, QuietStep
<1>4. CASE RuntimeAwaitReturns
  <2>1. OnlyOwnerCalls'
    BY <1>4 DEF RuntimeAwaitReturns, AwaitReturns, RuntimeInv, OnlyOwnerCalls, IInv, TypeOK
  <2>2. Quiet
    BY Zenon, <1>4 DEF RuntimeAwaitReturns, AwaitReturns, Quiet, table, workerVars
  <2> QED
    BY Zenon, <2>1, <2>2, QuietStep
<1>5. CASE UNCHANGED rvars
  <2>1. Quiet /\ OnlyOwnerCalls'
    BY <1>5 DEF rvars, runtimeVars, Quiet, vars, table, workerVars, callerVars,
                RuntimeInv, OnlyOwnerCalls
  <2> QED
    BY Zenon, <2>1, QuietStep
<1> QED
  BY ZenonT(30), <1>1, <1>2, <1>3, <1>4, <1>5, SubmitFailsStep, SubmitStep, CancelStep, ReleaseStep,
     TakeStep, RunStep, FinishStep, FreeStep
     DEF RuntimeNext, OwnerStep

LEMMA RuntimeInvariance == RuntimeSpec => [](IInv /\ RuntimeInv)
<1>1. RuntimeInit => IInv
  BY ZenonT(30), InitInv DEF RuntimeInit
<1>2. RuntimeInit => RuntimeInv
  BY DEF RuntimeInit, Init, RuntimeInv, RuntimeTypeOK, InvocationRecord, InvocationStatus,
         ProgramsChecked, Loaded, OnlyOwnerCalls, EntriesLinked, EntriesFilled, WorkersLinked,
         Occupied, NoSlot, NoData
<1>3. IInv /\ [RuntimeNext]_rvars => IInv'
  <2>1. [RuntimeNext]_rvars => [Next]_vars
    BY RuntimeStepsSchedule DEF rvars
  <2> QED
    BY <2>1, InductiveStep
<1> QED
  BY <1>1, <1>2, <1>3, RuntimeInductiveStep, PTL DEF RuntimeSpec

(***************************************************************************)
(* The properties.                                                         *)
(***************************************************************************)

\* The owner's unlocked table and the scheduler's locked one list the same
\* submissions, and a task reported as completed has a settled invocation with
\* the result of its own payload.
THEOREM TablesAlwaysAgree == RuntimeSpec => []TablesAgree
<1>1. IInv /\ RuntimeInv => TablesAgree
  <2> SUFFICES ASSUME IInv, RuntimeInv PROVE TablesAgree
    BY Zenon
  <2> USE DEF RuntimeInv
  <2>1. \A i \in Occupied : Entry(context[i], tasks[i].id)
    BY ZenonT(30) DEF EntriesLinked
  <2>2. \A r \in Slots : phase # "destroyed" /\ invocations[r].occupied =>
          \E i \in Occupied : context[i] = r /\ tasks[i].id = invocations[r].id
    BY Zenon DEF EntriesLinked
  <2>3. ASSUME NEW i \in Occupied, tasks[i].status = "COMPLETED", phase # "destroyed"
        PROVE  LET inv == invocations[context[i]]
               IN  /\ inv.status # "PENDING"
                   /\ inv.data = IF inv.status = "COMPLETED" THEN tasks[i].id ELSE NoData
    BY <2>3 DEF EntriesFilled, Settled
  <2> QED
    BY ZenonT(30), <2>1, <2>2, <2>3 DEF TablesAgree
<1> QED
  BY <1>1, RuntimeInvariance, PTL

\* What a worker uses without a lock stays its own while it runs: the entry,
\* the program and the syscall groups.
THEOREM InvocationsPinned == RuntimeSpec => []RunningInvocationPinned
<1>1. IInv /\ RuntimeInv => RunningInvocationPinned
  <2> SUFFICES ASSUME IInv, RuntimeInv, NEW w \in Workers, workerPc[w] = "running"
               PROVE  /\ Entry(workerSlot[w], workerId[w])
                      /\ Loaded(invocations[workerSlot[w]].program)
                      /\ programs[invocations[workerSlot[w]].program] \subseteq ParentPolicy
                      /\ \A v \in Workers \ {w} :
                           workerPc[v] = "running" => workerSlot[v] # workerSlot[w]
    BY Zenon DEF RunningInvocationPinned
  <2> USE DEF RuntimeInv
  <2>1. PICK i \in Occupied : tasks[i].id = workerId[w] /\ context[i] = workerSlot[w]
    BY DEF WorkersLinked
  <2>2. phase # "destroyed"
    BY DEF IInv, Lifecycle, Workers
  <2>3. Entry(workerSlot[w], workerId[w])
    BY Zenon, <2>1 DEF EntriesLinked
  <2>4. /\ Loaded(invocations[workerSlot[w]].program)
        /\ invocations[workerSlot[w]].program \in Catalog
    BY Zenon, <2>1, <2>2 DEF EntriesFilled
  <2>5. programs[invocations[workerSlot[w]].program] \subseteq ParentPolicy
    BY Zenon, <2>4 DEF ProgramsChecked
  <2>6. ASSUME NEW v \in Workers \ {w}, workerPc[v] = "running"
        PROVE  workerSlot[v] # workerSlot[w]
    <3>1. PICK j \in Occupied : tasks[j].id = workerId[v] /\ context[j] = workerSlot[v]
      BY Zenon, <2>6 DEF WorkersLinked
    <3>2. Entry(workerSlot[v], workerId[v]) /\ workerId[v] # workerId[w]
      BY <2>6, <3>1 DEF EntriesLinked, IInv, OneWorkerPerTask
    <3> QED
      BY Zenon, <2>3, <3>2 DEF Entry
  <2> QED
    BY Zenon, <2>3, <2>4, <2>5, <2>6
<1> QED
  BY <1>1, RuntimeInvariance, PTL

\* aivm_worker_runtime_await returns the data of the submission it was called
\* with, or none.
THEOREM OwnDataAwaited == RuntimeSpec => AwaitGetsOwnData
<1> DEFINE Own ==
      \A c \in Callers :
        callerPc[c] = "awaiting" /\ callerPc'[c] = "idle" =>
          /\ result'.status \in {"OK", "CANCELED", "TRANSPORT", "EXECUTION"}
          /\ result'.status = "OK" => result'.data = callerId[c]
<1>1. IInv /\ RuntimeInv /\ [RuntimeNext]_rvars => [Own]_rvars
  <2> SUFFICES ASSUME IInv, RuntimeInv, RuntimeNext, NEW c \in Callers,
                      callerPc[c] = "awaiting", callerPc'[c] = "idle"
               PROVE  /\ result'.status \in {"OK", "CANCELED", "TRANSPORT", "EXECUTION"}
                      /\ result'.status = "OK" => result'.data = callerId[c]
    OBVIOUS
  <2>1. c = owner /\ phase # "destroyed"
    BY Zenon DEF RuntimeInv, OnlyOwnerCalls, IInv, Lifecycle
  <2>2. CASE RuntimeAwaitReturns
    <3>1. CASE ret' = "CANCELED" /\ Report("CANCELED", NoData)
      BY Zenon, <3>1 DEF Report
    <3>2. ASSUME ret' = "COMPLETED", NEW r \in Slots, Entry(r, callerId[owner]),
                 Report(AwaitOutcome(invocations[r]), invocations[r].data)
          PROVE  /\ result'.status \in {"OK", "CANCELED", "TRANSPORT", "EXECUTION"}
                 /\ result'.status = "OK" => result'.data = callerId[c]
      <4>1. PICK i \in Slots : Holds(i, callerId[owner]) /\ tasks[i].status = "COMPLETED"
        BY Zenon, <2>2, <3>2 DEF RuntimeAwaitReturns, AwaitReturns, Return
      <4>2. context[i] = r
        BY Zenon, <3>2, <4>1, EntryOfTask DEF Holds, Occupied, RuntimeInv
      <4>3. Settled(invocations[r]) /\ invocations[r].payload = callerId[owner]
        BY Zenon, <2>1, <4>1, <4>2 DEF RuntimeInv, EntriesFilled, Occupied, Holds
      <4> QED
        BY <2>1, <3>2, <4>3 DEF Report, AwaitOutcome, Settled
    <3> QED
      BY <2>2, <3>1, <3>2 DEF RuntimeAwaitReturns
  <2>3. CASE ~RuntimeAwaitReturns
    <3> HIDE DEF Own
    <3> DEFINE Stays ==
          \A d \in Callers : callerPc[d] = "awaiting" => callerPc'[d] \in {"awaiting", "waiting"}
    <3>0. callerPc \in [Callers -> CallerPcs]
      BY Zenon DEF IInv, TypeOK
    <3>1. ASSUME NEW id \in Ids, NEW p \in Catalog,
                 \/ \E oversized \in BOOLEAN : SubmitRefused(id, p, oversized)
                 \/ SubmitTableFull(id, p) \/ SubmitOutOfMemory(id, p)
          PROVE  Stays
      BY Zenon, <3>1 DEF SubmitRefused, SubmitTableFull, SubmitOutOfMemory, vars, callerVars
    <3>2. ASSUME NEW id \in Ids,
                 \/ \E p \in Catalog : RuntimeSubmit(id, p)
                 \/ RuntimeAwait(id) \/ RuntimeAwaitUnknown(id) \/ RuntimeCancel(id)
                 \/ RuntimeRelease(id) \/ RuntimeReleaseRefused(id)
          PROVE  CanCall(owner) /\ Stays
      <4>1. CanCall(owner)
        BY Zenon, <3>2
           DEF RuntimeSubmit, RuntimeAwait, RuntimeAwaitUnknown, RuntimeCancel, RuntimeRelease,
           RuntimeReleaseRefused, Await, Cancel, CancelRefused, Release, ReleaseRefused
      <4> QED
        BY <2>1, <4>1 DEF CanCall
    <3>3. ASSUME PoolStep PROVE Stays
      BY Zenon, <3>0, <3>3
         DEF PoolStep, CreateStep, StartWorker, StartWorkerFails, WorkerWait, WorkerExit, AwaitWaits,
         SpuriousWake, Destroy, JoinWorker, Destroyed, WakeCallers, Awoken, vars, callerVars
    <3>4. ASSUME NEW w \in Workers, TakeInvocation(w) \/ InvocationRun(w) \/ FinishInvocation(w)
          PROVE  Stays
      BY <3>0, <3>4
         DEF TakeInvocation, InvocationRun, FinishInvocation, WorkerTake, WorkerComplete,
         WakeCallers, Awoken, vars, callerVars
    <3>5. ASSUME RuntimeFree PROVE Stays
      BY Zenon, <3>5 DEF RuntimeFree, Free, callerVars
    <3> HIDE DEF Stays
    <3>6. Stays
      BY Zenon, <2>3, <3>1, <3>2, <3>3, <3>4, <3>5 DEF RuntimeNext, OwnerStep
    <3> QED
      BY <3>6 DEF Stays
  <2> QED
    BY Zenon, <2>2, <2>3
<1> QED
  BY <1>1, RuntimeInvariance, PTL DEF RuntimeSpec, AwaitGetsOwnData

\* A submission the runtime has found a free entry for is one the scheduler
\* has credit and a slot for.
SchedulerAccepts ==
  \A id \in Ids, r \in Slots : ~KnownId(id) /\ ~invocations[r].occupied =>
    /\ outstandingCount < OutstandingLimit
    /\ ~Found(id)
    /\ \E i \in Slots : ~tasks[i].occupied

\* The branch of aivm_worker_runtime_submit that takes the entry back when the
\* scheduler refuses the task is never reached: the runtime's own table is full
\* before the scheduler's is.
THEOREM SubmitNeverUndone == RuntimeSpec => []SchedulerAccepts
<1>1. IInv /\ RuntimeInv => SchedulerAccepts
  <2> SUFFICES ASSUME IInv, RuntimeInv, NEW id \in Ids, NEW r \in Slots,
                      ~KnownId(id), ~invocations[r].occupied
               PROVE  /\ outstandingCount < OutstandingLimit
                      /\ ~Found(id)
                      /\ \E i \in Slots : ~tasks[i].occupied
    BY Zenon DEF SchedulerAccepts
  <2> USE DEF RuntimeInv
  <2>1. ~Found(id)
    BY DEF Found, Holds, EntriesLinked, Occupied, KnownId
  <2> DEFINE f == [i \in Occupied |-> context[i]]
  <2>2. \A i \in Occupied : f[i] \in Slots \ {r} /\ Entry(f[i], tasks[i].id)
    BY DEF EntriesLinked, Entry
  <2>3. f \in [Occupied -> Slots \ {r}]
    BY <2>2
  <2>4. IsFiniteSet(Slots) /\ Cardinality(Slots) = OutstandingLimit
    BY FS_Interval, LimitsAssumption DEF Slots
  <2>5. IsFiniteSet(Slots \ {r}) /\ Cardinality(Slots \ {r}) = OutstandingLimit - 1
    BY Zenon, <2>4, FS_RemoveElement
  <2> HIDE DEF f
  <2>6. \A i, j \in Occupied : f[i] = f[j] => i = j
    BY <2>2 DEF Entry, IInv, IdsDistinct
  <2>7. f \in Injection(Occupied, Slots \ {r})
    BY Zenon, <2>3, <2>6 DEF Injection, IsInjective
  <2>8. IsFiniteSet(Occupied) /\ Cardinality(Occupied) <= OutstandingLimit - 1
    BY <2>5, <2>7, FS_Injection
  <2>9. Cardinality(Occupied) \in Nat
    BY <2>8, FS_CardinalityType
  <2>10. outstandingCount < OutstandingLimit
    BY <2>8, <2>9, LimitsAssumption DEF IInv, CreditMatchesSlots
  <2>11. \E i \in Slots : ~tasks[i].occupied
    <3>1. Occupied # Slots
      BY <2>4, <2>8, LimitsAssumption
    <3> QED
      BY <3>1 DEF Occupied
  <2> QED
    BY Zenon, <2>1, <2>10, <2>11
<1> QED
  BY <1>1, RuntimeInvariance, PTL

=============================================================================
