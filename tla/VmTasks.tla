------------------------------ MODULE VmTasks ------------------------------
(***************************************************************************)
(* The Task values of one AiVM: the table of tasks of the VM, the opcodes  *)
(* that create, alias, await, join and cancel tasks, the workloads of      *)
(* WORKER_RUN_ALL that materialise into the table as slots free up, and    *)
(* the two kinds of threads that run behind the owner's back               *)
(* (src/src/aivm_vm.c, aivm_vm_worker_tasks.c, aivm_vm_worker_batches.c).  *)
(*                                                                         *)
(* The owner runs an arbitrary sequence of opcodes.  Of the values on its  *)
(* stack, in its locals and in its Par branches only those that can lead   *)
(* to a Task are kept: a Task, a scratch pair that holds one, a workload.  *)
(* An opcode that blocks until a thread has finished is enabled when the   *)
(* thread has.  The worker runtime is the board of module TaskBoard, with  *)
(* the outcome of an execution added.                                      *)
(***************************************************************************)
EXTENDS Integers, Sequences, FiniteSets, FiniteSetsExt, Functions

CONSTANTS
  TaskCapacity,        \* AIVM_VM_TASK_CAPACITY: slots, tombstones, workloads
  LogicalLimit,        \* vm->worker_logical_task_limit
  ParContextCapacity,  \* AIVM_VM_PAR_CONTEXT_CAPACITY
  ParValueCapacity,    \* AIVM_VM_PAR_VALUE_CAPACITY
  ActiveLimit,         \* threads of the worker runtime
  Locals,              \* local slots of the running frame
  Programs,            \* programs: the opcodes each one uses and, a bound, how
                       \* many handles it draws
  BatchSizes,          \* payload counts of the program's workloads
  MaxHandle,           \* bound: handles of one run of the VM
  StackBound           \* bound: Task-carrying values on the stack

ASSUME VmTasksAssumption ==
  /\ TaskCapacity \in Nat \ {0}
  /\ {LogicalLimit, ParContextCapacity, ParValueCapacity} \subseteq Nat
  /\ ActiveLimit \in Nat \ {0}
  /\ BatchSizes \subseteq Nat \ {0}
  /\ {MaxHandle, StackBound} \subseteq Nat \ {0}
  /\ \A p \in Programs : p.handles \in 1..MaxHandle

VARIABLES
  status,        \* "RUNNING", or the error that stopped the VM
  stack,         \* vm->stack
  locals,        \* vm->locals
  parContexts,   \* vm->par_contexts
  parValues,     \* vm->par_values
  tasks,         \* vm->completed_tasks, by handle
  nextHandle,    \* vm->next_task_handle
  tombstones,    \* vm->consumed_task_handles
  groups,        \* task_handles of vm->worker_task_groups
  logicalCount,  \* vm->worker_logical_task_count
  board,         \* what the worker runtime knows of each submission: "none",
                 \*   "queued", "running" or a settled stage
  thread,        \* the thread of each ASYNC_CALL task: "none", "running",
                 \*   "returned" or "failed"
  consumptions,  \* history: instructions that consumed each task's result
  program        \* the program that runs

data == <<stack, locals, parContexts, parValues>>
table == <<tasks, nextHandle, tombstones>>
workloads == <<groups, logicalCount>>
threads == <<board, thread>>
vars == <<status, data, table, workloads, threads, consumptions, program>>

Handles == 1..MaxHandle
NoHandle == 0

Task(h) == <<"task", h>>
PairOf(h) == <<"pair", h>>
Workload(g) == <<"workload", g>>
Plain == <<"plain", 0>>
IsTask(v) == v[1] = "task"

Settled == {"completed", "failed", "canceled"}
Can(opcode) == status = "RUNNING" /\ opcode \in program.uses

Top == stack[Len(stack)]
Popped == SubSeq(stack, 1, Len(stack) - 1)
Push(v) == Len(stack) < StackBound /\ stack' = Append(stack, v)

(***************************************************************************)
(* The table.  The array grows at its end, by ever greater handles, and    *)
(* closes up when an entry is removed: it is in the order of its handles,  *)
(* and its oldest entry has the least one.                                 *)
(***************************************************************************)
Entry(kind, state) == [kind |-> kind, state |-> state]

InTable(h) == h \in DOMAIN tasks

Pending(kind) == {h \in DOMAIN tasks : tasks[h] = Entry(kind, "PENDING")}

With(t, hs, e) == [h \in DOMAIN t \cup hs |-> IF h \in hs THEN e ELSE t[h]]

Without(t, hs) == Restrict(t, DOMAIN t \ hs)

\* is_task_handle_pinned over given stack and Par values.  A task's result
\* is never itself a Task: a worker returns bytes, and the copy across the
\* boundary of a bytecode worker refuses Task values.
PinnedIn(h, stk, par) ==
  Task(h) \in Range(stk) \cup Range(par) \cup Range(locals)

Pinned(h) == PinnedIn(h, stack, parValues)

\* Faulty variant: the scan for a victim forgets the aliases.
ReclaimableIgnoringPins == {h \in DOMAIN tasks : tasks[h].state # "PENDING"}

\* The entries reclaim_oldest_completed_task_slot does not skip.
Reclaimable ==
  {h \in DOMAIN tasks : tasks[h].state # "PENDING" /\ ~Pinned(h)}

Full == Cardinality(DOMAIN tasks) >= TaskCapacity

\* What push_completed_task, aivm_vm_allocate_worker_task and
\* start_call_subroutine_worker do first; NoRoom is their failure.
NoRoom == Full /\ Reclaimable = {}

Reclaimed == IF Full THEN Without(tasks, {Min(Reclaimable)}) ELSE tasks

(***************************************************************************)
(* Workloads.  A logical task <<g, i>> is open until it is materialised:   *)
(* until group g's task_handles[i] is not 0.                               *)
(***************************************************************************)
LogicalTasks(gs) == UNION {{g} \X DOMAIN gs[g] : g \in DOMAIN gs}

OpenSlots(gs) == {s \in LogicalTasks(gs) : gs[s[1]][s[2]] = NoHandle}

Before(s, t) == s[1] < t[1] \/ (s[1] = t[1] /\ s[2] < t[2])

\* Faulty variant: the youngest workload is served first.
RankYoungestFirst(gs, s) ==
  Cardinality({t \in OpenSlots(gs) :
                 t[1] > s[1] \/ (t[1] = s[1] /\ t[2] < s[2])})

\* Open slots that aivm_vm_refill_worker_task_groups fills before s.
Rank(gs, s) == Cardinality({t \in OpenSlots(gs) : Before(t, s)})

\* How many slots it fills into table t: until the groups or the room end.
Wanted(t, gs) == Min({Cardinality(OpenSlots(gs)), TaskCapacity - Cardinality(DOMAIN t)})

\* aivm_vm_refill_worker_task_groups on table t, groups gs and board b.
\* materialize_worker_task succeeds k times; when that is not as often as
\* wanted the next submission was refused and its handle is spent.
Materialize(t, gs, b, k) ==
  LET new == nextHandle..(nextHandle + k - 1) IN
  /\ tasks' = With(t, new, Entry("worker", "PENDING"))
  /\ groups' = [g \in DOMAIN gs |-> [i \in DOMAIN gs[g] |->
                  IF gs[g][i] = NoHandle /\ Rank(gs, <<g, i>>) < k
                  THEN nextHandle + Rank(gs, <<g, i>>)
                  ELSE gs[g][i]]]
  /\ board' = [h \in Handles |-> IF h \in new THEN "queued" ELSE b[h]]
  /\ nextHandle' = nextHandle + k + (IF k < Wanted(t, gs) THEN 1 ELSE 0)

\* Bound: every accepted logical task will find a handle.
Fits(n) == nextHandle + Cardinality(OpenSlots(groups)) + n <= program.handles + 1

(***************************************************************************)
(* Opcodes that create tasks.                                              *)
(***************************************************************************)
NoTaskSlot ==
  /\ \E op \in {"ASYNC_CALL", "ASYNC_CALL_SYS", "WORKER_RUN"} : Can(op)
  /\ NoRoom
  /\ status' = "TABLE_FULL"
  /\ UNCHANGED <<data, table, workloads, threads, consumptions, program>>

AsyncCallSys ==
  /\ Can("ASYNC_CALL_SYS")
  /\ ~NoRoom
  /\ Fits(1)
  /\ tasks' = With(Reclaimed, {nextHandle}, Entry("syscall", "COMPLETED"))
  /\ nextHandle' = nextHandle + 1
  /\ Push(Task(nextHandle))
  /\ UNCHANGED <<status, locals, parContexts, parValues, tombstones, workloads,
                 threads, consumptions, program>>

AsyncCall ==
  /\ Can("ASYNC_CALL")
  /\ ~NoRoom
  /\ Fits(1)
  /\ tasks' = With(Reclaimed, {nextHandle}, Entry("bytecode", "PENDING"))
  /\ nextHandle' = nextHandle + 1
  /\ thread' = [thread EXCEPT ![nextHandle] = "running"]
  /\ Push(Task(nextHandle))
  /\ UNCHANGED <<status, locals, parContexts, parValues, tombstones, workloads,
                 board, consumptions, program>>

\* The context cannot be allocated, an argument is not a value that may
\* cross into the worker, or its thread cannot be started.
AsyncCallFails(error) ==
  /\ Can("ASYNC_CALL")
  /\ ~NoRoom
  /\ error = "BOUNDARY" => stack # <<>>
  /\ tasks' = Reclaimed
  /\ status' = error
  /\ UNCHANGED <<data, nextHandle, tombstones, workloads, threads, consumptions, program>>

WorkerRun ==
  /\ Can("WORKER_RUN")
  /\ ~NoRoom
  /\ Fits(1)
  /\ tasks' = With(Reclaimed, {nextHandle}, Entry("worker", "PENDING"))
  /\ nextHandle' = nextHandle + 1
  /\ board' = [board EXCEPT ![nextHandle] = "queued"]
  /\ Push(Task(nextHandle))
  /\ UNCHANGED <<status, locals, parContexts, parValues, tombstones, workloads,
                 thread, consumptions, program>>

\* The runtime refuses the submission: its slot is discarded again.
WorkerRunFails ==
  /\ Can("WORKER_RUN")
  /\ ~NoRoom
  /\ Fits(1)
  /\ tasks' = Reclaimed
  /\ nextHandle' = nextHandle + 1
  /\ status' = "ADMISSION"
  /\ UNCHANGED <<data, tombstones, workloads, threads, consumptions, program>>

WorkerRunAllRefused(n) ==
  /\ Can("WORKER_RUN_ALL")
  /\ status' = IF logicalCount + n > LogicalLimit THEN "LOGICAL_BOUND"
               ELSE IF Len(groups) >= TaskCapacity THEN "GROUP_BOUND"
               ELSE "MEMORY"
  /\ UNCHANGED <<data, table, workloads, threads, consumptions, program>>

WorkerRunAll(n, k) ==
  LET gs == Append(groups, [i \in 1..n |-> NoHandle])
  IN
  /\ Can("WORKER_RUN_ALL")
  /\ logicalCount + n <= LogicalLimit
  /\ Len(groups) < TaskCapacity
  /\ Fits(n)
  /\ k <= Wanted(tasks, gs)
  /\ logicalCount' = logicalCount + n
  /\ Materialize(tasks, gs, board, k)
  /\ IF k = Wanted(tasks, gs)
     THEN Push(Workload(Len(gs))) /\ UNCHANGED status
     ELSE status' = "MATERIALIZE" /\ UNCHANGED stack
  /\ UNCHANGED <<locals, parContexts, parValues, tombstones, thread, consumptions, program>>

(***************************************************************************)
(* Opcodes that move Task values.                                          *)
(***************************************************************************)
LoadLocal(l) ==
  /\ Can("LOAD_LOCAL")
  /\ locals[l] # Plain
  /\ Push(locals[l])
  /\ UNCHANGED <<status, locals, parContexts, parValues, table, workloads,
                 threads, consumptions, program>>

StoreLocal(l) ==
  /\ Can("STORE_LOCAL")
  /\ stack # <<>>
  /\ locals' = [locals EXCEPT ![l] = Top]
  /\ stack' = Popped
  /\ UNCHANGED <<status, parContexts, parValues, table, workloads, threads,
                 consumptions, program>>

\* STORE_LOCAL of a value that leads to no Task.
OverwriteLocal(l) ==
  /\ Can("STORE_LOCAL")
  /\ locals[l] # Plain
  /\ locals' = [locals EXCEPT ![l] = Plain]
  /\ UNCHANGED <<status, stack, parContexts, parValues, table, workloads,
                 threads, consumptions, program>>

PopValue ==
  /\ Can("POP")
  /\ stack # <<>>
  /\ stack' = Popped
  /\ UNCHANGED <<status, locals, parContexts, parValues, table, workloads,
                 threads, consumptions, program>>

MakePair ==
  /\ Can("MAKE_PAIR")
  /\ stack # <<>>
  /\ IsTask(Top)
  /\ stack' = Append(Popped, PairOf(Top[2]))
  /\ UNCHANGED <<status, locals, parContexts, parValues, table, workloads,
                 threads, consumptions, program>>

PairFirst ==
  /\ Can("PAIR_FIRST")
  /\ stack # <<>>
  /\ Top[1] = "pair"
  /\ stack' = Append(Popped, Task(Top[2]))
  /\ UNCHANGED <<status, locals, parContexts, parValues, table, workloads,
                 threads, consumptions, program>>

WorkerTaskAt(i) ==
  /\ Can("WORKER_TASK_AT")
  /\ stack # <<>>
  /\ Top[1] = "workload"
  /\ LET handles == groups[Top[2]]
         found == i \in DOMAIN handles /\ handles[i] # NoHandle
     IN /\ stack' = IF found THEN Append(Popped, Task(handles[i])) ELSE Popped
        /\ status' = IF found THEN status ELSE "OUTSIDE_WINDOW"
  /\ UNCHANGED <<locals, parContexts, parValues, table, workloads, threads,
                 consumptions, program>>

(***************************************************************************)
(* Completing a pending task on the owner (complete_pending_bytecode_task, *)
(* aivm_vm_complete_worker_task).  oom: the result cannot be copied.       *)
(***************************************************************************)
PendingWorker(h) == h \in Pending("worker")
PendingBytecode(h) == h \in Pending("bytecode")

\* The blocking wait, in the runtime's await or in the thread's join, ends.
Ready(h) ==
  /\ PendingWorker(h) => board[h] \in Settled
  /\ PendingBytecode(h) => thread[h] # "running"

Delivers(h, oom) ==
  /\ PendingWorker(h) => board[h] # "failed" /\ ~oom
  /\ PendingBytecode(h) => thread[h] # "failed" /\ ~oom

CompletedTable(hs, oom) ==
  [h \in DOMAIN tasks |->
     IF h \in hs /\ tasks[h].state = "PENDING" /\ Delivers(h, oom)
     THEN Entry(tasks[h].kind,
                IF board[h] = "canceled" THEN "CANCELED" ELSE "COMPLETED")
     ELSE tasks[h]]

\* Faulty variant: only a canceled submission is released.
CompletedBoardKeepsResults(hs, oom) ==
  [h \in Handles |-> IF h \in hs /\ ~oom /\ board[h] = "canceled"
                     THEN "none" ELSE board[h]]

\* Every outcome releases the submission, except when the Err node of a
\* canceled one cannot be created.
CompletedBoard(hs, oom) ==
  [h \in Handles |-> IF h \in hs /\ ~(oom /\ board[h] = "canceled")
                     THEN "none" ELSE board[h]]

\* The context, its thread joined, is freed once its result is copied.
CompletedThread(hs, oom) ==
  [h \in Handles |-> IF h \in hs /\ PendingBytecode(h) /\ Delivers(h, oom)
                     THEN "none" ELSE thread[h]]

CompletionError(h) ==
  IF board[h] = "failed" \/ thread[h] = "failed" THEN "EXECUTION" ELSE "MEMORY"

Count(hs) ==
  [h \in Handles |-> IF h \in hs THEN Min({consumptions[h] + 1, 2})
                     ELSE consumptions[h]]

(***************************************************************************)
(* release_consumed_task_result for the handles hs in turn (NoHandle for a *)
(* Par branch that is no known Task), over the table t and board b, with   *)
(* the stack and Par values that are left.  A pinned handle leaves a       *)
(* tombstone, unless they are used up; every release is followed by a      *)
(* refill.  The releases stop at the first failure: r of them happened and *)
(* k tasks were materialised.                                              *)
(***************************************************************************)
ReleasedAfter(hs, r) == {hs[j] : j \in 1..r} \ {NoHandle}

TombstonesAfter(hs, r, stk, par) ==
  tombstones \cup {h \in ReleasedAfter(hs, r) : PinnedIn(h, stk, par)}

Releasable(hs, stk, par) ==
  Max({r \in 0..Len(hs) :
         Cardinality(TombstonesAfter(hs, r, stk, par)) <= TaskCapacity})

\* Faulty variant: a pinned handle keeps its slot.
RemainingAfterPinned(hs, r, t, stk, par) ==
  Without(t, {h \in ReleasedAfter(hs, r) : ~PinnedIn(h, stk, par)})

RemainingAfter(hs, r, t, stk, par) == Without(t, ReleasedAfter(hs, r))

\* Faulty variant: nothing is materialised into the slots set free.
RefilledAfterNever(hs, r, t, stk, par) == 0

RefilledAfter(hs, r, t, stk, par) ==
  IF ReleasedAfter(hs, r) = {} THEN 0
  ELSE Wanted(RemainingAfter(hs, r, t, stk, par), groups)

Release(hs, t, b, stk, par) ==
  \E r \in 0..Releasable(hs, stk, par) : \E k \in 0..RefilledAfter(hs, r, t, stk, par) :
    LET last == Releasable(hs, stk, par)
        refused == k < RefilledAfter(hs, r, t, stk, par)
    IN
    /\ r > 0 => k >= RefilledAfter(hs, r - 1, t, stk, par)
    /\ refused \/ r = last
    /\ tombstones' = TombstonesAfter(hs, r, stk, par)
    /\ Materialize(RemainingAfter(hs, r, t, stk, par), groups, b, k)
    /\ status' = IF refused THEN "MATERIALIZE"
                 ELSE IF last < Len(hs) THEN "TOMBSTONES" ELSE "RUNNING"

(***************************************************************************)
(* AWAIT.                                                                  *)
(***************************************************************************)
AwaitDelivers ==
  /\ Can("AWAIT")
  /\ stack # <<>>
  /\ IsTask(Top)
  /\ LET h == Top[2] IN
     /\ InTable(h)
     /\ Ready(h)
     /\ Delivers(h, FALSE)
     /\ Release(<<h>>, CompletedTable({h}, FALSE), CompletedBoard({h}, FALSE),
                Popped, parValues)
     /\ thread' = CompletedThread({h}, FALSE)
     /\ consumptions' = Count({h})
  /\ stack' = Popped
  /\ UNCHANGED <<locals, parContexts, parValues, logicalCount, program>>

AwaitFails(oom) ==
  /\ Can("AWAIT")
  /\ stack # <<>>
  /\ IsTask(Top)
  /\ LET h == Top[2] IN
     /\ InTable(h)
     /\ Ready(h)
     /\ ~Delivers(h, oom)
     /\ status' = CompletionError(h)
     /\ board' = CompletedBoard({h}, oom)
  /\ stack' = Popped
  /\ UNCHANGED <<locals, parContexts, parValues, table, workloads, thread,
                 consumptions, program>>

AwaitUnknown ==
  /\ Can("AWAIT")
  /\ stack # <<>>
  /\ IsTask(Top)
  /\ ~InTable(Top[2])
  /\ status' = IF Top[2] \in tombstones THEN "TASK_CONSUMED" ELSE "INVALID_HANDLE"
  /\ stack' = Popped
  /\ UNCHANGED <<locals, parContexts, parValues, table, workloads, threads,
                 consumptions, program>>

TaskCancel ==
  /\ Can("TASK_CANCEL")
  /\ stack # <<>>
  /\ IsTask(Top)
  /\ stack' = Popped
  /\ LET h == Top[2] IN
     /\ status' = IF InTable(h) THEN status ELSE "CANCEL_INVALID"
     /\ board' = IF PendingWorker(h) /\ board[h] = "queued"
                 THEN [board EXCEPT ![h] = "canceled"] ELSE board
  /\ UNCHANGED <<locals, parContexts, parValues, table, workloads, thread,
                 consumptions, program>>

(***************************************************************************)
(* PAR_BEGIN, PAR_FORK, PAR_JOIN.  A branch that is not a known Task       *)
(* becomes a child node of its own; a consumed one stops the VM after the  *)
(* other branches were completed.                                          *)
(***************************************************************************)
ParBegin(n) ==
  /\ Can("PAR_BEGIN")
  /\ IF Len(parContexts) < ParContextCapacity
     THEN /\ parContexts' = Append(parContexts,
                                   [expected |-> n, start |-> Len(parValues)])
          /\ UNCHANGED status
     ELSE status' = "PAR_BEGIN" /\ UNCHANGED parContexts
  /\ UNCHANGED <<stack, locals, parValues, table, workloads, threads, consumptions, program>>

ParFork ==
  /\ Can("PAR_FORK")
  /\ stack # <<>>
  /\ IF parContexts # <<>> /\ Len(parValues) < ParValueCapacity
     THEN /\ parValues' = Append(parValues, Top)
          /\ stack' = Popped
          /\ UNCHANGED status
     ELSE status' = "PAR_FORK" /\ UNCHANGED <<stack, parValues>>
  /\ UNCHANGED <<locals, parContexts, table, workloads, threads, consumptions, program>>

Innermost == parContexts[Len(parContexts)]
Branches == SubSeq(parValues, Innermost.start + 1, Len(parValues))

BranchTasks == {v[2] : v \in {w \in Range(Branches) : IsTask(w)}}

JoinMatches(n) ==
  /\ parContexts # <<>>
  /\ Innermost.expected = n
  /\ Len(Branches) = n

ParJoinMismatch(n) ==
  /\ Can("PAR_JOIN")
  /\ ~JoinMatches(n)
  /\ status' = "PAR_JOIN"
  /\ UNCHANGED <<data, table, workloads, threads, consumptions, program>>

ParJoin(n, oom) ==
  /\ Can("PAR_JOIN")
  /\ JoinMatches(n)
  /\ LET known == BranchTasks \cap DOMAIN tasks
         failed == {h \in known : ~Delivers(h, oom)}
         gone == (BranchTasks \ known) \cap tombstones
         left == SubSeq(parValues, 1, Innermost.start)
         hs == [j \in 1..n |-> IF IsTask(Branches[j]) /\ Branches[j][2] \in known
                               THEN Branches[j][2] ELSE NoHandle]
     IN
     /\ \A h \in known : Ready(h)
     /\ thread' = CompletedThread(known, oom)
     /\ IF failed \cup gone = {}
        THEN /\ parContexts' = SubSeq(parContexts, 1, Len(parContexts) - 1)
             /\ parValues' = left
             /\ Release(hs, CompletedTable(known, oom), CompletedBoard(known, oom),
                        stack, left)
             /\ consumptions' = Count(known)
        ELSE /\ status' \in (IF gone = {} THEN {} ELSE {"TASK_CONSUMED"})
                            \cup {CompletionError(h) : h \in failed}
             /\ tasks' = CompletedTable(known, oom)
             /\ board' = CompletedBoard(known, oom)
             /\ UNCHANGED <<parContexts, parValues, nextHandle, tombstones, groups,
                            consumptions>>
  /\ UNCHANGED <<stack, locals, logicalCount, program>>

(***************************************************************************)
(* The threads behind the owner, and the host that resets the VM.          *)
(***************************************************************************)
WorkerStart(h) ==
  /\ board[h] = "queued"
  /\ \A other \in Handles : board[other] = "queued" => h <= other
  /\ Cardinality({other \in Handles : board[other] = "running"}) < ActiveLimit
  /\ board' = [board EXCEPT ![h] = "running"]
  /\ UNCHANGED <<status, data, table, workloads, thread, consumptions, program>>

WorkerFinish(h, outcome) ==
  /\ board[h] = "running"
  /\ board' = [board EXCEPT ![h] = outcome]
  /\ UNCHANGED <<status, data, table, workloads, thread, consumptions, program>>

ThreadFinish(h, outcome) ==
  /\ thread[h] = "running"
  /\ thread' = [thread EXCEPT ![h] = outcome]
  /\ UNCHANGED <<status, data, table, workloads, board, consumptions, program>>

\* aivm_reset_state: the threads are joined, so they have finished; the
\* worker runtime drops what it has not started.  Tombstones stay.
Reset ==
  /\ "RESET" \in program.uses
  /\ "running" \notin Range(thread) \cup Range(board)
  /\ status' = "RUNNING"
  /\ stack' = <<>>
  /\ locals' = [l \in Locals |-> Plain]
  /\ parContexts' = <<>>
  /\ parValues' = <<>>
  /\ tasks' = [h \in {} |-> <<>>]
  /\ nextHandle' = 1
  /\ groups' = <<>>
  /\ logicalCount' = 0
  /\ board' = [h \in Handles |-> "none"]
  /\ thread' = [h \in Handles |-> "none"]
  /\ consumptions' = [h \in Handles |-> 0]
  /\ UNCHANGED <<tombstones, program>>

Init ==
  /\ status = "RUNNING"
  /\ stack = <<>>
  /\ locals = [l \in Locals |-> Plain]
  /\ parContexts = <<>>
  /\ parValues = <<>>
  /\ tasks = [h \in {} |-> <<>>]
  /\ nextHandle = 1
  /\ tombstones = {}
  /\ groups = <<>>
  /\ logicalCount = 0
  /\ board = [h \in Handles |-> "none"]
  /\ thread = [h \in Handles |-> "none"]
  /\ consumptions = [h \in Handles |-> 0]
  /\ program \in Programs

Creates ==
  \/ NoTaskSlot
  \/ AsyncCallSys
  \/ AsyncCall
  \/ \E error \in {"MEMORY", "BOUNDARY", "THREAD_START"} : AsyncCallFails(error)
  \/ WorkerRun
  \/ WorkerRunFails
  \/ \E n \in BatchSizes : WorkerRunAllRefused(n)
  \/ \E n \in BatchSizes : \E k \in 0..n : WorkerRunAll(n, k)

Moves ==
  \/ \E l \in Locals : LoadLocal(l) \/ StoreLocal(l) \/ OverwriteLocal(l)
  \/ PopValue
  \/ MakePair
  \/ PairFirst
  \/ \E i \in 1..(Max(BatchSizes) + 1) : WorkerTaskAt(i)

Consumes ==
  \/ AwaitDelivers
  \/ \E oom \in BOOLEAN : AwaitFails(oom)
  \/ AwaitUnknown
  \/ TaskCancel
  \/ \E n \in 1..ParValueCapacity :
       ParBegin(n) \/ ParJoinMismatch(n) \/ \E oom \in BOOLEAN : ParJoin(n, oom)
  \/ ParFork

Threads ==
  \E h \in Handles :
    \/ WorkerStart(h)
    \/ \E outcome \in {"completed", "failed"} : WorkerFinish(h, outcome)
    \/ \E outcome \in {"returned", "failed"} : ThreadFinish(h, outcome)

Next == Creates \/ Moves \/ Consumes \/ Threads \/ Reset

Spec == Init /\ [][Next]_vars

(***************************************************************************)
(* Properties.                                                             *)
(***************************************************************************)

\* The work behind the owner's back and the table agree.  While the VM runs,
\* the runtime holds a submission exactly for the worker tasks that are
\* pending in the table, and at all times a thread of an ASYNC_CALL has a
\* pending entry that owns its context: complete, cancel, reclaim, release
\* and refill neither leak an admission credit nor orphan a thread.
WorkFollowsTable ==
  /\ status = "RUNNING" =>
       {h \in Handles : board[h] # "none"} = Pending("worker")
  /\ {h \in Handles : thread[h] # "none"} \subseteq Pending("bytecode")

\* AWAIT and PAR_JOIN consume a result at most once, through whichever
\* alias ("First Await consumes a terminal result exactly once").
ConsumedOnce == \A h \in Handles : consumptions[h] <= 1

\* The tasks of a workload are materialised in canonical order: earlier
\* workloads and lower indices first, with growing handles, no gaps.
CanonicalWindow ==
  \A s, t \in LogicalTasks(groups) :
    Before(s, t) =>
      \/ groups[t[1]][t[2]] = NoHandle
      \/ groups[s[1]][s[2]] # NoHandle /\ groups[s[1]][s[2]] < groups[t[1]][t[2]]

\* Work that was accepted is never stranded: between two instructions a
\* logical task waits only when the table has no room for it.
NoStrandedWork == status = "RUNNING" => OpenSlots(groups) = {} \/ Full

\* An entry leaves the table only because its result was consumed, because
\* it is finished and nothing on the stack, in a local or in a Par branch
\* names it, or by a reset.
DroppedOnlyWhenUnneeded ==
  [][\A h \in DOMAIN tasks \ DOMAIN tasks' :
       \/ consumptions'[h] > consumptions[h]
       \/ tasks[h].state # "PENDING" /\ ~Pinned(h)
       \/ nextHandle' = 1]_vars
=============================================================================
