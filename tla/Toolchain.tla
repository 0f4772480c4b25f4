----------------------------- MODULE Toolchain ------------------------------
(***************************************************************************)
(* The ailang command line at work on one project: the package manager, the *)
(* build with its cache, and the tools of packages, as separate processes   *)
(* over the same files.  A build notices nothing of a restore that moves a  *)
(* package while it reads; the model records it as a disturbed build.       *)
(***************************************************************************)
EXTENDS ToolRunner, BuildCache

vars == <<pmVars, tool, buildVars>>

\* A step of the package manager, beside a build that may be reading the files.
PmBesideBuild ==
    /\ PmNext
    /\ UNCHANGED <<tool, entry, outs, cache>>
    /\ build' = IF <<lock, tree>>' = <<lock, tree>> \/ SourceGraph' = SourceGraph THEN build
                ELSE [build EXCEPT !.disturbed = TRUE]

Init == PmInit /\ ToolInit /\ BuildInit

Next ==
    \/ PmBesideBuild
    \/ ToolNext /\ UNCHANGED buildVars
    \/ BuildNext /\ UNCHANGED tool

\* The waiting loop of a running tool goes on as long as its process lives.
Fairness == WF_vars(ToolStep /\ UNCHANGED buildVars)

Spec == Init /\ [][Next]_vars /\ Fairness
=============================================================================
