----------------------------- MODULE ToolRunner -----------------------------
(***************************************************************************)
(* Running a tool by name (pm_try_run_tool_mode): which file is run, and    *)
(* the loop of pm_run_bounded_command that waits for the child process, one *)
(* second at a time, and kills its group when the time is up.  The child is *)
(* a process of its own: it exits when it likes, or never.                  *)
(***************************************************************************)
EXTENDS PackageManager

CONSTANTS
    ToolFiles,     \* [Packages -> [Versions -> SUBSET tool names]]: the files in
                   \*   tools, bin, scripts or the root of the package
    ToolTimeout    \* pm_tool_timeout_seconds

VARIABLES
    tool           \* [pc, name, from, child, seconds, exit]

NoTool == [pc |-> "none", name |-> "", from |-> "", child |-> "none",
           seconds |-> 0, exit |-> "none"]

\* The directory a lock entry leads to: the override as it was restored, or
\* whatever version the package directory holds now.
ContentAt(e) == IF e.local THEN e.content ELSE tree[e.name]

\* pm_find_tool_in_package_root.
HasTool(name, content, toolName) ==
    content \in Versions /\ toolName \in ToolFiles[name][content]

\* pm_find_local_tool: the first package of the lock that has the file.
LocalTool(toolName) ==
    SelectInSeq(lock.entries, LAMBDA e : HasTool(e.name, ContentAt(e), toolName))

\* pm_try_run_tool_mode: the override of the package with the tool's name, the
\* global tools, then the packages of the lock; "" when none has the tool.
ResolveTool(toolName) ==
    IF HasTool(toolName, PackagePath(toolName), toolName) THEN "override"
    ELSE IF toolName \in globalTools THEN "global"
    ELSE IF LocalTool(toolName) # 0 THEN lock.entries[LocalTool(toolName)].name
    ELSE ""

StartTool(toolName) ==
    /\ tool.pc \in {"none", "done"} /\ cmd = Idle
    /\ budget.commands < MaxCommands
    /\ ResolveTool(toolName) # ""
    /\ tool' = [NoTool EXCEPT !.pc = "wait", !.name = toolName,
                    !.from = ResolveTool(toolName), !.child = "running"]
    /\ Spend("commands")
    /\ UNCHANGED <<manifest, lock, tree, registry, config, globalTools, cmd, result>>

\* The child's exit: external to the command line.
ChildExits ==
    /\ tool.child = "running"
    /\ tool' = [tool EXCEPT !.child = "exited"]
    /\ UNCHANGED pmVars

\* Faulty variant: the child is asked for its status, and nothing looks at the
\* clock.
PollChildForever ==
    /\ tool.pc = "wait"
    /\ tool' = IF tool.child = "exited"
               THEN [tool EXCEPT !.pc = "done", !.child = "none", !.exit = "own"]
               ELSE [tool EXCEPT !.pc = "sleep"]
    /\ UNCHANGED pmVars

\* One round of the loop: waitpid with WNOHANG, then the time.  A child whose
\* time is up is killed with its group and waited for, and the exit code is 124
\* even when it has exited in between.
PollChild ==
    /\ tool.pc = "wait"
    /\ tool' = IF tool.child = "exited"
               THEN [tool EXCEPT !.pc = "done", !.child = "none", !.exit = "own"]
               ELSE IF tool.seconds >= ToolTimeout
               THEN [tool EXCEPT !.pc = "done", !.child = "none", !.exit = "124"]
               ELSE [tool EXCEPT !.pc = "sleep"]
    /\ UNCHANGED pmVars

SleepOneSecond ==
    /\ tool.pc = "sleep"
    /\ tool' = [tool EXCEPT !.pc = "wait",
                    !.seconds = IF @ < ToolTimeout THEN @ + 1 ELSE @]
    /\ UNCHANGED pmVars

ToolInit == tool = NoTool

ToolStep == PollChild \/ SleepOneSecond
ToolNext == (\E p \in Packages : StartTool(p)) \/ ChildExits \/ ToolStep

-----------------------------------------------------------------------------
(* Properties *)

\* A tool that is run ends within its time, whether or not it exits by itself,
\* and leaves no child behind (pm_run_bounded_command).
ToolRunEnds == tool.pc = "wait" ~> tool.pc = "done" /\ tool.child = "none"
=============================================================================
