----------------------------- MODULE MCVmTasks -----------------------------
(***************************************************************************)
(* Small programs for VmTasks: the opcodes that meet in one question.      *)
(***************************************************************************)
EXTENDS VmTasks

MCLocals == {1}
MCBatchSizes == {1, 2, 3}

\* Tasks that are finished at once, run on a thread or on a worker.
TaskProgram ==
  [uses |-> {"ASYNC_CALL", "ASYNC_CALL_SYS", "WORKER_RUN", "AWAIT", "TASK_CANCEL",
             "LOAD_LOCAL", "STORE_LOCAL", "RESET"},
   handles |-> 3]

\* A Task that the program keeps in a scratch pair only.
PairProgram ==
  [uses |-> {"ASYNC_CALL_SYS", "AWAIT", "LOAD_LOCAL", "STORE_LOCAL", "MAKE_PAIR",
             "PAIR_FIRST", "RESET"},
   handles |-> 3]

\* Workloads and tasks that compete for the slots of the table.
WorkloadProgram ==
  [uses |-> {"WORKER_RUN_ALL", "WORKER_TASK_AT", "WORKER_RUN", "AWAIT", "LOAD_LOCAL",
             "STORE_LOCAL"},
   handles |-> 3]

\* Par branches over tasks of their own, and over tasks of a workload.
ParProgram ==
  [uses |-> {"WORKER_RUN", "POP", "PAR_BEGIN", "PAR_FORK", "PAR_JOIN", "LOAD_LOCAL",
             "STORE_LOCAL"},
   handles |-> 3]
ParWorkloadProgram ==
  [uses |-> {"WORKER_RUN_ALL", "WORKER_TASK_AT", "PAR_BEGIN", "PAR_FORK", "PAR_JOIN"},
   handles |-> 3]

\* Two workloads that wait for room at the same time.
WindowProgram ==
  [uses |-> {"WORKER_RUN_ALL", "WORKER_TASK_AT", "AWAIT", "POP"},
   handles |-> 4]

MCPrograms == {TaskProgram, PairProgram, WorkloadProgram, WindowProgram, ParProgram,
               ParWorkloadProgram}
=============================================================================
