--------------------------- MODULE WorkerRuntime ---------------------------
(***************************************************************************)
(* src/src/aivm_worker_runtime.c with aivm_worker_invocation.c,            *)
(* aivm_worker_program.c and aivm_worker_capabilities.c, composed with the *)
(* scheduler: the owner VM's table of invocations, each handed to the pool *)
(* as a raw pointer, and the worker programs they run.                     *)
(*                                                                         *)
(* The table belongs to the owner thread and has no lock; the invocation a *)
(* worker runs is written by that worker without a lock either.  Only the  *)
(* scheduler's task status separates the two.  A payload is named by the   *)
(* submission id it was submitted with, and a worker that succeeds returns *)
(* its payload.                                                            *)
(***************************************************************************)
EXTENDS WorkerScheduler

CONSTANTS
  Catalog,       \* indexes of owner_program->worker_catalog
  RequiredCaps,  \* required_capabilities of each catalog entry
  Artifact,      \* "good", "bad" bytes or bad "signature", of each entry
  ParentPolicy   \* syscall groups the owner VM may use

WorkerCaps == {"FILESYSTEM", "PROCESS", "NETWORK", "ENVIRONMENT", "CLOCK",
               "RANDOM", "UI", "DEBUG", "REMOTE", "STREAMS"}

SyscallGroups == {"PROCESS", "NETWORK", "TIME", "CRYPTO", "UI", "DEBUG",
                  "REMOTE", "CONSOLE", "FILESYSTEM"}

ASSUME CatalogAssumption ==
  /\ RequiredCaps \in [Catalog -> SUBSET WorkerCaps]
  /\ Artifact \in [Catalog -> {"good", "bad", "signature"}]
  /\ ParentPolicy \subseteq SyscallGroups

\* A runtime is created by the VM that owns it.
ASSUME OwnerAssumption == Callers # {}

VARIABLES
  invocations,  \* runtime->tasks: [occupied, id, program, payload, data,
                \*   status]; data is named by the submission it belongs to
  programs,     \* runtime->programs: the syscall groups of a loaded program
  context,      \* scheduler->tasks[i].context: an index of invocations
  workerSlot,   \* the invocation each worker runs
  ran,          \* whether the worker's run(context) has returned
  result        \* what the owner's last runtime call returned

runtimeVars == <<invocations, programs, context, workerSlot, ran, result>>
rvars == <<vars, runtimeVars>>

NoSlot == 0
NotLoaded == {"not loaded"}
NoData == 0

\* aivm_worker_invocation_clear; release frees payload and data first.
Cleared(inv) ==
  [inv EXCEPT !.payload = NoData, !.data = NoData, !.status = "PENDING"]

Entry(r, id) == invocations[r].occupied /\ invocations[r].id = id

KnownId(id) == \E r \in Slots : Entry(r, id)

Loaded(p) == programs[p] # NotLoaded

(***************************************************************************)
(* aivm_worker_capability_syscall_mask, _supported and                     *)
(* aivm_worker_program_prepare.                                            *)
(***************************************************************************)
SyscallGroupOf ==
  [PROCESS |-> "PROCESS", NETWORK |-> "NETWORK", ENVIRONMENT |-> "PROCESS",
   CLOCK |-> "TIME", RANDOM |-> "CRYPTO", UI |-> "UI", DEBUG |-> "DEBUG",
   REMOTE |-> "REMOTE", STREAMS |-> "CONSOLE"]

SyscallMask(caps) == {SyscallGroupOf[c] : c \in caps \cap DOMAIN SyscallGroupOf}

CapabilityDenied(p) ==
  \/ ~(RequiredCaps[p] \subseteq DOMAIN SyscallGroupOf)
  \/ ~(SyscallMask(RequiredCaps[p]) \subseteq ParentPolicy)

\* Outcomes of prepare_program; only an allocation failure varies.
PrepareStatus(p) ==
  IF Loaded(p) THEN {"OK"}
  ELSE IF CapabilityDenied(p) THEN {"CAPABILITY"}
  ELSE {"MEMORY", IF Artifact[p] = "good" THEN "OK" ELSE "PROGRAM"}

Report(status, data) == result' = [status |-> status, data |-> data]

\* The single thread that owns the VM and its worker runtime.
owner == CHOOSE c \in Callers : TRUE

(***************************************************************************)
(* aivm_worker_runtime_submit.                                             *)
(***************************************************************************)
\* An oversized payload or a known id is refused before the program is
\* looked at.
SubmitRefused(id, p, oversized) ==
  /\ CanCall(owner)
  /\ \/ (oversized \/ KnownId(id)) /\ Report("LIMIT", NoData)
     \/ /\ ~oversized
        /\ ~KnownId(id)
        /\ \E status \in PrepareStatus(p) \ {"OK"} : Report(status, NoData)
  /\ UNCHANGED <<vars, invocations, programs, context, workerSlot, ran>>

\* The program is prepared before the table is searched for a free entry.
SubmitTableFull(id, p) ==
  /\ CanCall(owner)
  /\ ~KnownId(id)
  /\ "OK" \in PrepareStatus(p)
  /\ \A r \in Slots : invocations[r].occupied
  /\ programs' = [programs EXCEPT ![p] = SyscallMask(RequiredCaps[p])]
  /\ Report("LIMIT", NoData)
  /\ UNCHANGED <<vars, invocations, context, workerSlot, ran>>

FreeEntry(r) ==
  /\ ~invocations[r].occupied
  /\ \A q \in 1..(r - 1) : invocations[q].occupied

\* The program stays loaded when the payload cannot be allocated.
SubmitOutOfMemory(id, p) ==
  /\ CanCall(owner)
  /\ ~KnownId(id)
  /\ "OK" \in PrepareStatus(p)
  /\ \E r \in Slots :
       /\ FreeEntry(r)
       /\ invocations' = [invocations EXCEPT
            ![r] = [Cleared(@) EXCEPT !.id = id, !.program = p]]
  /\ programs' = [programs EXCEPT ![p] = SyscallMask(RequiredCaps[p])]
  /\ Report("MEMORY", NoData)
  /\ UNCHANGED <<vars, context, workerSlot, ran>>

RuntimeSubmit(id, p) ==
  /\ CanCall(owner)
  /\ ~KnownId(id)
  /\ "OK" \in PrepareStatus(p)
  /\ \E r \in Slots :
       /\ FreeEntry(r)
       /\ invocations' = [invocations EXCEPT
            ![r] = [Cleared(@) EXCEPT !.occupied = TRUE, !.id = id,
                                      !.program = p, !.payload = id]]
       /\ Submit(owner, id)
       /\ context' = [i \in Slots |->
            IF tasks'[i].occupied /\ ~tasks[i].occupied THEN r ELSE context[i]]
  /\ programs' = [programs EXCEPT ![p] = SyscallMask(RequiredCaps[p])]
  /\ Report("OK", NoData)
  /\ UNCHANGED <<workerSlot, ran>>

(***************************************************************************)
(* aivm_worker_runtime_await, cancel, release.                             *)
(***************************************************************************)
RuntimeAwait(id) ==
  /\ KnownId(id)
  /\ Await(owner, id)
  /\ UNCHANGED runtimeVars

RuntimeAwaitUnknown(id) ==
  /\ CanCall(owner)
  /\ ~KnownId(id)
  /\ Report("ARGUMENT", NoData)
  /\ UNCHANGED <<vars, invocations, programs, context, workerSlot, ran>>

\* Faulty variant: the invocation's status is not consulted.
AwaitOutcomeOk(inv) == IF inv.status = "PENDING" THEN "EXECUTION" ELSE "OK"

\* The owner reads the invocation after the scheduler's await returned.
AwaitOutcome(inv) ==
  CASE inv.status = "COMPLETED"       -> "OK"
    [] inv.status = "TRANSPORT_ERROR" -> "TRANSPORT"
    [] OTHER                          -> "EXECUTION"

RuntimeAwaitReturns ==
  /\ AwaitReturns(owner)
  /\ \/ ret' = "CANCELED" /\ Report("CANCELED", NoData)
     \/ /\ ret' = "COMPLETED"
        /\ \E r \in Slots :
             /\ Entry(r, callerId[owner])
             /\ Report(AwaitOutcome(invocations[r]), invocations[r].data)
  /\ UNCHANGED <<invocations, programs, context, workerSlot, ran>>

RuntimeCancel(id) ==
  /\ \/ Cancel(owner, id) /\ Report("OK", NoData)
     \/ /\ CancelRefused(owner, id)
        /\ Report(IF ret' = "argument" THEN "ARGUMENT" ELSE "OK", NoData)
  /\ UNCHANGED <<invocations, programs, context, workerSlot, ran>>

\* Faulty variant: the entry stays occupied after the scheduler released it.
RuntimeReleaseKeepsEntry(id) ==
  /\ \E r \in Slots :
       /\ Entry(r, id)
       /\ Release(owner, id)
       /\ invocations' = [invocations EXCEPT ![r] = Cleared(@)]
  /\ Report("OK", NoData)
  /\ UNCHANGED <<programs, context, workerSlot, ran>>

RuntimeRelease(id) ==
  /\ \E r \in Slots :
       /\ Entry(r, id)
       /\ Release(owner, id)
       /\ invocations' = [invocations EXCEPT ![r] = [Cleared(@) EXCEPT !.occupied = FALSE]]
  /\ Report("OK", NoData)
  /\ UNCHANGED <<programs, context, workerSlot, ran>>

RuntimeReleaseRefused(id) ==
  /\ \/ KnownId(id) /\ ReleaseRefused(owner, id)
     \/ ~KnownId(id) /\ CanCall(owner) /\ UNCHANGED vars
  /\ Report("ARGUMENT", NoData)
  /\ UNCHANGED <<invocations, programs, context, workerSlot, ran>>

(***************************************************************************)
(* The worker threads.                                                     *)
(***************************************************************************)
TakeInvocation(w) ==
  /\ WorkerTake(w)
  /\ \E i \in Slots :
       /\ Holds(i, workerId'[w])
       /\ workerSlot' = [workerSlot EXCEPT ![w] = context[i]]
  /\ ran' = [ran EXCEPT ![w] = FALSE]
  /\ UNCHANGED <<invocations, programs, context, result>>

\* Ends of aivm_worker_invocation_run: it returns at once when the program is
\* not loaded; otherwise the function returns bytes, returns another value,
\* or fails (no memory for the VM or the result included).
RunOutcomes(inv) ==
  IF Loaded(inv.program)
    THEN {[inv EXCEPT !.status = "COMPLETED", !.data = inv.payload],
          [inv EXCEPT !.status = "TRANSPORT_ERROR"],
          [inv EXCEPT !.status = "FAILED"]}
    ELSE {inv}

InvocationRun(w) ==
  /\ workerPc[w] = "running"
  /\ ~ran[w]
  /\ \E inv \in RunOutcomes(invocations[workerSlot[w]]) :
       invocations' = [invocations EXCEPT ![workerSlot[w]] = inv]
  /\ ran' = [ran EXCEPT ![w] = TRUE]
  /\ UNCHANGED <<vars, programs, context, workerSlot, result>>

FinishInvocation(w) ==
  /\ ran[w]
  /\ WorkerComplete(w)
  /\ ran' = [ran EXCEPT ![w] = FALSE]
  /\ workerSlot' = [workerSlot EXCEPT ![w] = NoSlot]
  /\ UNCHANGED <<invocations, programs, context, result>>

(***************************************************************************)
(* aivm_worker_runtime_destroy: first the scheduler, then what is left in  *)
(* the table, then the programs.                                           *)
(***************************************************************************)
\* Faulty variant: the programs are destroyed before the threads are joined.
RuntimeFreeEarly ==
  /\ phase = "joining"
  /\ programs' = [p \in Catalog |-> NotLoaded]
  /\ UNCHANGED <<vars, invocations, context, workerSlot, ran, result>>

RuntimeFree ==
  /\ Free
  /\ invocations' = [r \in Slots |->
       IF invocations[r].occupied THEN Cleared(invocations[r]) ELSE invocations[r]]
  /\ programs' = [p \in Catalog |-> NotLoaded]
  /\ UNCHANGED <<context, workerSlot, ran, result>>

(***************************************************************************)
(* The composed system.                                                    *)
(***************************************************************************)
RuntimeInit ==
  /\ Init
  /\ invocations = [r \in Slots |->
       [occupied |-> FALSE, id |-> NoId, program |-> NoSlot,
        payload |-> NoData, data |-> NoData, status |-> "PENDING"]]
  /\ programs = [p \in Catalog |-> NotLoaded]
  /\ context = [i \in Slots |-> NoSlot]
  /\ workerSlot = [w \in Workers |-> NoSlot]
  /\ ran = [w \in Workers |-> FALSE]
  /\ result = [status |-> "none", data |-> NoData]

OwnerStep ==
  \/ \E id \in Ids, p \in Catalog :
       \/ \E oversized \in BOOLEAN : SubmitRefused(id, p, oversized)
       \/ SubmitTableFull(id, p)
       \/ SubmitOutOfMemory(id, p)
       \/ RuntimeSubmit(id, p)
  \/ \E id \in Ids :
       \/ RuntimeAwait(id) \/ RuntimeAwaitUnknown(id)
       \/ RuntimeCancel(id)
       \/ RuntimeRelease(id) \/ RuntimeReleaseRefused(id)
  \/ RuntimeAwaitReturns

\* Steps of the scheduler that do not touch the invocations.
PoolStep ==
  /\ \/ CreateStep
     \/ \E w \in Workers : WorkerWait(w) \/ WorkerExit(w)
     \/ AwaitWaits(owner)
     \/ SpuriousWake
     \/ Destroy(owner)
     \/ JoinWorker
     \/ Destroyed
  /\ UNCHANGED runtimeVars

RuntimeNext ==
  \/ OwnerStep
  \/ PoolStep
  \/ \E w \in Workers :
       TakeInvocation(w) \/ InvocationRun(w) \/ FinishInvocation(w)
  \/ RuntimeFree

RuntimeSpec == RuntimeInit /\ [][RuntimeNext]_rvars

(***************************************************************************)
(* Invariants.                                                             *)
(***************************************************************************)

\* The owner's table and the scheduler's table list the same submissions and
\* every scheduler task points at its own entry.  So the scheduler never
\* refuses what the runtime accepted, and the undo path of submit is dead.  A
\* task the scheduler reports as completed has a settled invocation, with the
\* result computed from its own payload: the owner reads nothing half-written.
TablesAgree ==
  /\ \A i \in Occupied : Entry(context[i], tasks[i].id)
  /\ \A r \in Slots : phase # "destroyed" /\ invocations[r].occupied =>
       \E i \in Occupied : context[i] = r /\ tasks[i].id = invocations[r].id
  /\ \A i \in Occupied : tasks[i].status = "COMPLETED" /\ phase # "destroyed" =>
       LET inv == invocations[context[i]]
       IN  /\ inv.status # "PENDING"
           /\ inv.data = IF inv.status = "COMPLETED" THEN tasks[i].id ELSE NoData

\* The invocation and the program a worker uses without a lock are not freed
\* or given to another submission while it runs, destruction included, and
\* no two workers write the same invocation.  The program has no syscall
\* group that its owner lacks.
RunningInvocationPinned ==
  \A w \in Workers : workerPc[w] = "running" =>
    /\ Entry(workerSlot[w], workerId[w])
    /\ Loaded(invocations[workerSlot[w]].program)
    /\ programs[invocations[workerSlot[w]].program] \subseteq ParentPolicy
    /\ \A v \in Workers \ {w} :
         workerPc[v] = "running" => workerSlot[v] # workerSlot[w]

\* The owner that awaits a submission it made gets that submission's own
\* data or an error, never another submission's data.
AwaitGetsOwnData ==
  [][\A c \in Callers :
       callerPc[c] = "awaiting" /\ callerPc'[c] = "idle" =>
         /\ result'.status \in {"OK", "CANCELED", "TRANSPORT", "EXECUTION"}
         /\ result'.status = "OK" => result'.data = callerId[c]]_rvars
=============================================================================
