------------------------- MODULE MCWorkerScheduler -------------------------
(***************************************************************************)
(* Small instances of WorkerScheduler.  Two workers and two slots make two *)
(* threads race for a task and fill the table; three ids let a submission  *)
(* meet a full table and an id be reused after its release.                *)
(***************************************************************************)
EXTENDS WorkerScheduler

CONSTANTS c1, c2

TwoCallers == {c1, c2}
ThreeIds == {1, 2, 3}
=============================================================================
