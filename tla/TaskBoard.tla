----------------------------- MODULE TaskBoard -----------------------------
(***************************************************************************)
(* What the worker scheduler promises its owner, without threads, locks,   *)
(* condition variables or slots: a board of submissions, each with one     *)
(* life.  A submission is accepted while there is admission credit, is     *)
(* started once in submission order by one of at most ActiveLimit          *)
(* executors, or is canceled before it starts, and returns its credit only *)
(* when its owner releases it (include/aivm_worker_scheduler.h, the        *)
(* comment above aivm_worker_scheduler_create).                            *)
(***************************************************************************)
EXTENDS Naturals, FiniteSets

CONSTANTS
  Ids,              \* submission ids, ordered as numbers
  ActiveLimit,      \* the most submissions running at once
  OutstandingLimit  \* admission credit

VARIABLE board      \* the life stage of every submission id

Stage == {"none", "QUEUED", "RUNNING", "COMPLETED", "CANCELED"}

InStage(stages) == {id \in Ids : board[id] \in stages}

Outstanding == InStage(Stage \ {"none"})

Move(id, from, to) ==
  /\ board[id] = from
  /\ board' = [board EXCEPT ![id] = to]

Init == board = [id \in Ids |-> "none"]

Submit(id) ==
  /\ Move(id, "none", "QUEUED")
  /\ Cardinality(Outstanding) < OutstandingLimit

\* Work starts in submission order, whatever finished before.
Start(id) ==
  /\ Move(id, "QUEUED", "RUNNING")
  /\ \A other \in InStage({"QUEUED"}) : id <= other
  /\ Cardinality(InStage({"RUNNING"})) < ActiveLimit

Complete(id) == Move(id, "RUNNING", "COMPLETED")

Cancel(id) == Move(id, "QUEUED", "CANCELED")

Release(id) ==
  \/ Move(id, "COMPLETED", "none")
  \/ Move(id, "CANCELED", "none")

Next ==
  \E id \in Ids :
    Submit(id) \/ Start(id) \/ Complete(id) \/ Cancel(id) \/ Release(id)

Spec == Init /\ [][Next]_board
=============================================================================
