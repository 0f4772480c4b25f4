------------------------------ MODULE Debugger ------------------------------
(***************************************************************************)
(* The debugger (aivm_debugger.c) driving the interpreter of CallStack,    *)
(* and the session that reads its commands (aivm_cli.c).  A command that   *)
(* runs the program is one action to begin it and one per instruction it   *)
(* executes; breakpoints are program counters, set directly or through a   *)
(* name.                                                                   *)
(***************************************************************************)
EXTENDS CallStack

CONSTANTS
    Debugged,        \* programs that run under the debugger; the others run free
    Names,           \* <<table, name>>: functions and nodes
    Places,          \* program counters commands name
    MaxBreakpoints,  \* AIVM_DEBUGGER_MAX_BREAKPOINTS
    MaxMappings,     \* AIVM_DEBUGGER_MAX_SOURCE_MAPPINGS
    Budgets,         \* values of max_steps
    CommandBound     \* bound: commands of a session

ASSUME DebuggerAssumption ==
    /\ Debugged \subseteq Programs
    /\ MaxBreakpoints \in Nat /\ MaxMappings \in Nat /\ CommandBound \in Nat
    /\ Budgets \subseteq Nat /\ Places \subseteq Nat

VARIABLES
    breakpoints,  \* the breakpoint_count program counters in use
    mappings,     \* function_mappings and node_mappings: name to program counter
    view,         \* debugger->state: "ready", "paused", "running", "halted", "error"
    command,      \* the command being carried out: its kind, the frames there were when it
                  \* began, the steps it may still make and has made, and, as history,
                  \* what it should find when it ends
    reply,        \* status of the last command, None before the first
    commands      \* how many there were

debugVars == <<breakpoints, mappings, view, command, reply, commands>>
None == "none"
Idle == [kind |-> None, depth |-> 0, left |-> 0, made |-> 0, lands |-> << >>]

Attached == program \in Debugged
Stopped(s) == s \in {"halted", "error"}

DebugInit ==
    /\ Init
    /\ breakpoints = {} /\ mappings = << >>
    /\ view = "ready" /\ command = Idle /\ reply = None /\ commands = 0

\* sync_state with what the VM's status is now.
Synced(v, s) == IF Stopped(s) THEN s ELSE v

\* The status a command that ran the program ends with in state v.
StatusOf(v, otherwise) == IF v = "halted" THEN "halted" ELSE IF v = "error" THEN "vm_error" ELSE otherwise

\* The session ends at the first command that fails; a halted program is no failure.
Asks ==
    /\ Attached /\ command = Idle /\ commands < CommandBound
    /\ reply \in {None, "ok", "halted"}
    /\ commands' = commands + 1

Answers(status_) == reply' = status_ /\ command' = Idle
-----------------------------------------------------------------------------
(***************************************************************************)
(* Breakpoints.                                                            *)
(***************************************************************************)
SetBreakpoint(pc) ==
    IF pc >= Count THEN Answers("invalid") /\ UNCHANGED breakpoints
    ELSE IF pc \in breakpoints THEN Answers("ok") /\ UNCHANGED breakpoints
    ELSE IF Cardinality(breakpoints) >= MaxBreakpoints
         THEN Answers("breakpoint_limit") /\ UNCHANGED breakpoints
    ELSE Answers("ok") /\ breakpoints' = breakpoints \union {pc}

ClearBreakpoints ==
    /\ Asks /\ Answers("ok") /\ breakpoints' = {}
    /\ UNCHANGED <<vars, view, mappings>>

\* The session inspects after every command, which synchronises the state.
Inspected == view' = Synced(view, status) /\ UNCHANGED vars

BreakPc(pc) == Asks /\ SetBreakpoint(pc) /\ Inspected /\ UNCHANGED mappings

BreakName(name) ==
    /\ Asks
    /\ IF name \in DOMAIN mappings THEN SetBreakpoint(mappings[name])
       ELSE Answers("invalid") /\ UNCHANGED breakpoints
    /\ Inspected /\ UNCHANGED mappings

\* register_mapping: a name that is known is mapped anew, also when all are taken.
Register(name, pc) ==
    /\ Asks
    /\ IF pc >= Count THEN Answers("invalid") /\ UNCHANGED mappings
       ELSE IF name \notin DOMAIN mappings /\ Cardinality({n \in DOMAIN mappings : n[1] = name[1]}) >= MaxMappings
            THEN Answers("breakpoint_limit") /\ UNCHANGED mappings
       ELSE /\ Answers("ok")
            /\ mappings' = [n \in DOMAIN mappings \union {name} |-> IF n = name THEN pc ELSE mappings[n]]
    /\ Inspected /\ UNCHANGED breakpoints

Inspect ==
    /\ Asks /\ Answers(IF Synced(view, status) = "error" THEN "vm_error" ELSE "ok")
    /\ Inspected /\ UNCHANGED <<breakpoints, mappings>>

Pause ==
    /\ Asks
    /\ view' = IF Stopped(Synced(view, status)) THEN Synced(view, status) ELSE "paused"
    /\ Answers(StatusOf(view', "ok"))
    /\ UNCHANGED <<vars, breakpoints, mappings>>
-----------------------------------------------------------------------------
(***************************************************************************)
(* Running.                                                                *)
(***************************************************************************)
\* Where the caller of the current frame, or of the function called here, goes
\* on, with the locals and operands it has: << >> when neither applies.
Landing(kind) ==
    IF kind = "out" /\ frames # << >>
    THEN << Frame.ret, Len(frames) - 1, SubSeq(stack, 1, Frame.base), [i \in 0..(Frame.localsBase - 1) |-> locals[i]] >>
    ELSE IF kind # "step" /\ kind # "continue" /\ ip < Count /\ Instr.op = "CALL" /\ Instr.arg \in 0..(Count - 1) /\ ~InTailPosition
    THEN << ip + 1, Len(frames), SubSeq(stack, 1, Len(stack) - ArgCount(Instr.arg)), [i \in 0..(localsCount - 1) |-> locals[i]] >>
    ELSE << >>

\* The beginning of step, step over, step out and continue.  Step out of the
\* outermost frame is step over; continue at a breakpoint does not move.
Begin(kind, budget) ==
    /\ Asks
    /\ UNCHANGED <<vars, breakpoints, mappings>>
    /\ IF budget = 0 /\ kind # "step" THEN Answers("invalid") /\ UNCHANGED view
       ELSE IF Stopped(Synced(view, status))
       THEN view' = Synced(view, status) /\ Answers(StatusOf(view', "ok"))
       ELSE IF kind = "continue" /\ ip \in breakpoints THEN view' = "paused" /\ Answers("ok")
       ELSE /\ view' = "running"
            /\ command' = [kind |-> IF kind = "out" /\ frames = << >> THEN "over" ELSE kind,
                           depth |-> Len(frames), left |-> budget, made |-> 0, lands |-> Landing(kind)]
            /\ UNCHANGED reply

\* Faulty variant: step over ends with the return of a function called later.
StopsAtEarly(kind, made, depth, depthNow, pc) ==
    \/ kind = "step"
    \/ kind = "over" /\ (depthNow <= depth \/ (made > 0 /\ depthNow <= depth + 1))
    \/ kind = "out" /\ depthNow < depth
    \/ kind = "over" /\ made > 0 /\ pc \in breakpoints
    \/ kind \in {"continue", "out"} /\ pc \in breakpoints

\* Faulty variant: step out runs past breakpoints.
StopsAtDeaf(kind, made, depth, depthNow, pc) ==
    \/ kind = "step"
    \/ kind = "over" /\ depthNow <= depth
    \/ kind = "out" /\ depthNow < depth
    \/ kind = "over" /\ made > 0 /\ pc \in breakpoints
    \/ kind = "continue" /\ pc \in breakpoints

\* Whether the command ends after the instruction just executed, the program
\* being at pc with depthNow frames: the first instruction of step over does
\* not look at breakpoints.
StopsAt(kind, made, depth, depthNow, pc) ==
    \/ kind = "step"
    \/ kind = "over" /\ depthNow <= depth
    \/ kind = "out" /\ depthNow < depth
    \/ kind = "over" /\ made > 0 /\ pc \in breakpoints
    \/ kind \in {"continue", "out"} /\ pc \in breakpoints

\* The first instruction of step over is not counted.
LeftAfter(kind, made, left) == IF kind = "over" /\ made = 0 THEN left ELSE left - 1

\* One aivm_step of the command, and what its loop does after it.
Execute ==
    /\ Attached /\ command # Idle /\ ~Stopped(status)
    /\ Next
    /\ LET left == LeftAfter(command.kind, command.made, command.left)
       IN  IF Stopped(status') THEN view' = status' /\ Answers(StatusOf(status', "ok"))
           ELSE IF StopsAt(command.kind, command.made, command.depth, Len(frames'), ip')
           THEN view' = "paused" /\ Answers("ok")
           ELSE IF left = 0 THEN view' = "paused" /\ Answers("step_limit")
           ELSE /\ command' = [command EXCEPT !.left = left, !.made = @ + 1]
                /\ UNCHANGED <<view, reply>>
    /\ UNCHANGED <<breakpoints, mappings, commands>>

Free == ~Attached /\ Next /\ UNCHANGED debugVars

DebugNext ==
    \/ Free \/ Execute \/ Inspect \/ Pause \/ ClearBreakpoints
    \/ \E pc \in Places : BreakPc(pc) \/ \E name \in Names : Register(name, pc)
    \/ \E name \in Names : BreakName(name)
    \/ \E budget \in Budgets : \E kind \in {"step", "over", "out", "continue"} : Begin(kind, budget)

DebugSpec == DebugInit /\ [][DebugNext]_<<vars, debugVars>>
-----------------------------------------------------------------------------
(***************************************************************************)
(* Properties.                                                             *)
(***************************************************************************)
\* No command executes an instruction that has a breakpoint, unless it began
\* there or step over has just called the function that starts with it.
BreakpointsStop ==
    command # Idle /\ ip \in breakpoints =>
        \/ command.made = 0
        \/ command.kind = "over" /\ command.made = 1

\* Step over a call and step out, when they end without an error and not at a
\* breakpoint, leave the program where the caller goes on, in the caller's own
\* frame with its locals and operands, whatever calls, tail calls, recursion
\* and returns came between; the function may have left one result.
StepsLand ==
    [][ command # Idle /\ command' = Idle /\ reply' = "ok" /\ command.lands # << >>
        /\ ip' \notin breakpoints /\ ~wild' =>
          /\ ip' = command.lands[1] /\ Len(frames') = command.lands[2]
          /\ Len(stack') - Len(command.lands[3]) \in {0, 1}
          /\ SubSeq(stack', 1, Len(command.lands[3])) = command.lands[3]
          /\ [i \in 0..(localsCount' - 1) |-> locals'[i]] = command.lands[4] ]_<<vars, debugVars>>
=============================================================================
