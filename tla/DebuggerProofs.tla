--------------------------- MODULE DebuggerProofs ---------------------------
(***************************************************************************)
(* Proofs about Debugger, for every program and every session: commands    *)
(* stop at breakpoints, and step over and step out end in the caller's     *)
(* frame.  The invariant of CallStackProofs says how frames lie on the     *)
(* stack; what is added here is what a command under way is owed.          *)
(***************************************************************************)
EXTENDS Debugger, ActivationsProofs

\* Prover time limits, in seconds.
USE SMTT(30), ZenonT(30)

\* A command under way is one of the four that run the program, of a program
\* that is attached and has not stopped.
CommandOK ==
    command # Idle =>
        /\ command = [kind |-> command.kind, depth |-> command.depth, left |-> command.left,
                      made |-> command.made, lands |-> command.lands]
        /\ command.kind \in {"step", "over", "out", "continue"} /\ command.made \in Nat
        /\ Attached /\ ~Stopped(status)

\* The frame that will return to landing l is on the stack of frames, and
\* below its bases are the operands and the locals the landing remembers.
Owed(l) ==
    /\ l[2] \in Nat /\ l[2] + 1 \in 1..Len(frames)
    /\ LET f == frames[l[2] + 1]
       IN  /\ f.ret = l[1] /\ l[3] \in Seq(Values) /\ f.base = Len(l[3]) /\ f.base <= Len(stack)
           /\ \A i \in 1..f.base : stack[i] = l[3][i]
           /\ l[4] = [i \in 0..(f.localsBase - 1) |-> locals[i]]

\* The instruction at hand is the call whose return l is.
AboutToCall(l) ==
    /\ ip < Count /\ Instr.op = "CALL" /\ Instr.arg \in 0..(Count - 1) /\ ~InTailPosition
    /\ l = << ip + 1, Len(frames), SubSeq(stack, 1, Len(stack) - ArgCount(Instr.arg)),
              [i \in 0..(localsCount - 1) |-> locals[i]] >>

\* A command that has a landing still has to make the call, or the frame it
\* waits for is there; the depth it compares with is the caller's.
LandingKept ==
    command # Idle /\ command.lands # << >> /\ ~wild =>
        \/ command.kind = "over" /\ command.made = 0 /\ command.depth = Len(frames) /\ AboutToCall(command.lands)
        \/ command.kind = "over" /\ command.depth = command.lands[2] /\ Owed(command.lands)
        \/ command.kind = "out" /\ command.depth = command.lands[2] + 1 /\ Owed(command.lands)

DebugInv == Inv /\ CommandOK /\ BreakpointsStop /\ LandingKept
-----------------------------------------------------------------------------
(***************************************************************************)
(* What a command is owed survives the instructions it executes.           *)
(***************************************************************************)
\* An instruction within the current frame.
LEMMA OwedWithin ==
    ASSUME Inv, Inv', Within, NEW l, Owed(l)
    PROVE  Owed(l)'
<1> DEFINE k == l[2] + 1
           f == frames[k]
<1>1. /\ l[2] \in Nat /\ k \in 1..Len(frames) /\ f.ret = l[1] /\ l[3] \in Seq(Values) /\ f.base = Len(l[3])
      /\ \A i \in 1..f.base : stack[i] = l[3][i]
      /\ l[4] = [i \in 0..(f.localsBase - 1) |-> locals[i]]
  BY DEF Owed
<1>2. /\ frames' = frames /\ FrameBase <= Len(stack') /\ FrameBase \in Nat /\ LocalsBase \in Nat
      /\ Len(stack') \in Nat /\ Len(frames) \in 1..Len(frames)
      /\ \A i \in 1..FrameBase : stack'[i] = stack[i]
      /\ \A i \in 0..(LocalsBase - 1) : locals'[i] = locals[i]
  <2>1. FrameBase \in Nat /\ LocalsBase \in Nat /\ Len(frames) \in Nat
    BY BaseFacts DEF Inv, FramesOK
  <2>2. Len(stack') \in Nat
    BY DEF Inv, StackOK
  <2>. QED
    BY <1>1, <2>1, <2>2 DEF Within
<1>3. f.base \in Nat /\ f.localsBase \in Nat
  BY Zenon, <1>1, FrameElements DEF Inv
<1>4. f.base <= FrameBase /\ f.localsBase <= LocalsBase
  <2>1. frames # << >> /\ FrameBase = Frame.base /\ LocalsBase = Frame.localsBase
    BY <1>1, <1>2, BaseFacts DEF Inv
  <2>2. k \in 1..Len(frames) /\ Len(frames) \in 1..Len(frames) /\ k <= Len(frames)
    BY <1>1, <1>2
  <2> HIDE DEF k
  <2>3. frames[k].base <= frames[Len(frames)].base /\ frames[k].localsBase <= frames[Len(frames)].localsBase
    BY Zenon, <2>2 DEF Inv, FramesNested
  <2>. QED
    BY Zenon, <2>1, <2>3 DEF Frame
<1> HIDE DEF k, f
<1>5. f.base <= Len(stack') /\ \A i \in 1..f.base : stack'[i] = l[3][i]
  BY <1>1, <1>2, <1>3, <1>4
<1>6. l[4] = [i \in 0..(f.localsBase - 1) |-> locals'[i]]
  <2>1. \A i \in 0..(f.localsBase - 1) : locals[i] = locals'[i]
    BY <1>2, <1>3, <1>4
  <2>. QED
    BY <1>1, <2>1
<1>. QED
  BY Zenon, <1>1, <1>2, <1>5, <1>6 DEF Owed, k, f

\* A call on top of the frame.
LEMMA OwedCalls ==
    ASSUME Inv, Calls, NEW l, Owed(l)
    PROVE  Owed(l)'
<1> DEFINE k == l[2] + 1
           new == [ret |-> ip + 1, base |-> Len(stack) - ArgCount(Instr.arg), localsBase |-> localsCount]
<1>1. frames \in Seq(Frames) /\ frames' = Append(frames, new) /\ stack' = stack /\ locals' = locals
  BY DEF Calls, Inv, FramesOK
<1> HIDE DEF new
<1>2. k \in 1..Len(frames') /\ frames'[k] = frames[k]
  BY <1>1 DEF Owed
<1>. QED
  BY Zenon, <1>1, <1>2 DEF Owed

\* A return to above the frame.
LEMMA OwedReturns ==
    ASSUME Inv, Returns, NEW l, Owed(l), l[2] + 1 # Len(frames)
    PROVE  Owed(l)'
<1> DEFINE k == l[2] + 1
           f == frames[k]
<1>1. /\ l[2] \in Nat /\ k \in 1..Len(frames) /\ f.ret = l[1] /\ l[3] \in Seq(Values) /\ f.base = Len(l[3])
      /\ \A i \in 1..f.base : stack[i] = l[3][i]
      /\ l[4] = [i \in 0..(f.localsBase - 1) |-> locals[i]]
  BY DEF Owed
<1>2. /\ frames \in Seq(Frames) /\ frames # << >> /\ Len(frames) \in 1..Len(frames) /\ Len(frames) \in Nat
      /\ frames' = SubSeq(frames, 1, Len(frames) - 1) /\ locals' = locals
      /\ Len(stack') \in {Frame.base, Frame.base + 1}
      /\ \A i \in 1..Frame.base : stack'[i] = stack[i]
  BY DEF Returns, Inv, FramesOK
<1>3. /\ Len(frames') = Len(frames) - 1 /\ \A i \in 1..(Len(frames) - 1) : frames'[i] = frames[i]
  BY <1>2, FrontFacts
<1>4. k \in 1..Len(frames') /\ frames'[k] = f
  BY <1>1, <1>2, <1>3
<1>5. f.base \in Nat /\ Frame.base \in Nat /\ f.base <= Frame.base
  <2>1. k <= Len(frames)
    BY <1>1, <1>2
  <2>2. f.base \in Nat /\ frames[Len(frames)].base \in Nat
    BY Zenon, <1>1, <1>2, FrameElements DEF Inv
  <2>3. f.base <= frames[Len(frames)].base
    BY Zenon, <1>1, <1>2, <2>1 DEF Inv, FramesNested
  <2> QED
    BY Zenon, <2>2, <2>3 DEF Frame
<1> HIDE DEF k, f
<1>6. f.base <= Len(stack')
  BY <1>2, <1>5
<1>7. \A i \in 1..f.base : stack'[i] = l[3][i]
  <2>1. \A i \in 1..f.base : i \in 1..Frame.base
    BY <1>5
  <2>. QED
    BY Zenon, <1>1, <1>2, <2>1
<1>. QED
  BY Zenon, <1>1, <1>2, <1>4, <1>6, <1>7 DEF Owed, k

\* The call itself: its frame is the one the landing waits for.
LEMMA OwedByCall ==
    ASSUME Inv, Calls, NEW l, AboutToCall(l)
    PROVE  Owed(l)'
<1> DEFINE argc == ArgCount(Instr.arg)
           new == [ret |-> ip + 1, base |-> Len(stack) - argc, localsBase |-> localsCount]
<1>1. /\ frames \in Seq(Frames) /\ Len(frames) \in Nat /\ stack \in Seq(Values) /\ Len(stack) \in Nat
      /\ localsCount \in Nat
      /\ frames' = Append(frames, new) /\ stack' = stack /\ locals' = locals /\ argc \in 0..Len(stack)
  BY DEF Calls, Inv, FramesOK, StackOK, LocalsOK
<1>2. /\ l[1] = ip + 1 /\ l[2] = Len(frames) /\ l[3] = SubSeq(stack, 1, Len(stack) - argc)
      /\ l[4] = [i \in 0..(localsCount - 1) |-> locals[i]]
  BY Zenon DEF AboutToCall
<1>3. new.ret = ip + 1 /\ new.base = Len(stack) - argc /\ new.localsBase = localsCount
  OBVIOUS
<1> HIDE DEF new, argc
<1>4. l[2] + 1 \in 1..Len(frames') /\ frames'[l[2] + 1] = new
  BY <1>1, <1>2
<1>5. /\ l[3] \in Seq(Values) /\ Len(l[3]) = Len(stack) - argc /\ Len(stack) - argc <= Len(stack)
      /\ \A i \in 1..(Len(stack) - argc) : stack[i] = l[3][i]
  BY <1>1, <1>2
<1>. QED
  BY Zenon, <1>1, <1>2, <1>3, <1>4, <1>5 DEF Owed


\* The return the landing waits for: the caller goes on, with what it had.
LEMMA Landed ==
    ASSUME Inv, Returns, NEW l, Owed(l), l[2] + 1 = Len(frames)
    PROVE  /\ ip' = l[1] /\ Len(frames') = l[2]
           /\ Len(stack') - Len(l[3]) \in {0, 1}
           /\ SubSeq(stack', 1, Len(l[3])) = l[3]
           /\ [i \in 0..(localsCount' - 1) |-> locals'[i]] = l[4]
<1>1. /\ l[2] \in Nat /\ Frame.ret = l[1] /\ l[3] \in Seq(Values) /\ Frame.base = Len(l[3])
      /\ \A i \in 1..Frame.base : stack[i] = l[3][i]
      /\ l[4] = [i \in 0..(Frame.localsBase - 1) |-> locals[i]]
  BY DEF Owed, Frame
<1>2. /\ frames \in Seq(Frames) /\ frames # << >> /\ frames' = SubSeq(frames, 1, Len(frames) - 1)
      /\ ip' = Frame.ret /\ locals' = locals /\ localsCount' = Frame.localsBase
      /\ Len(stack') \in {Frame.base, Frame.base + 1}
      /\ \A i \in 1..Frame.base : stack'[i] = stack[i]
  BY DEF Returns, Inv, FramesOK
<1>3. Len(frames') = l[2]
  BY <1>1, <1>2, FrontFacts
<1>4. Len(stack') - Len(l[3]) \in {0, 1} /\ Len(l[3]) \in Nat
  BY <1>1, <1>2
<1>5. SubSeq(stack', 1, Len(l[3])) = l[3]
  <2> DEFINE n == Len(l[3])
  <2>1. \A i \in 1..n : stack'[i] = l[3][i]
    BY <1>1, <1>2
  <2>2. SubSeq(stack', 1, n) = [i \in 1..n |-> stack'[i]]
    BY <1>4
  <2>3. l[3] = [i \in 1..n |-> l[3][i]]
    BY <1>1
  <2> HIDE DEF n
  <2>. QED
    BY <2>1, <2>2, <2>3 DEF n
<1>. QED
  BY <1>1, <1>2, <1>3, <1>4, <1>5
-----------------------------------------------------------------------------
(***************************************************************************)
(* The actions of the debugger.                                            *)
(***************************************************************************)
\* Between commands there is nothing to keep but the VM's own invariant.
LEMMA Rests ==
    ASSUME Inv', command' = Idle
    PROVE  DebugInv'
BY DEF DebugInv, CommandOK, BreakpointsStop, LandingKept

\* The VM moves by its own instructions or not at all.
LEMMA DrivesVm ==
    ASSUME [DebugNext]_<<vars, debugVars>>
    PROVE  [Next]_vars
BY Zenon DEF DebugNext, Free, Execute, Inspect, Pause, ClearBreakpoints, BreakPc, Register, BreakName, Begin, Inspected

\* The landing of a command that begins.
LEMMA BeginStep ==
    ASSUME DebugInv, Inv', NEW kind \in {"step", "over", "out", "continue"}, NEW budget \in Budgets, Begin(kind, budget)
    PROVE  DebugInv'
<1> DEFINE k == IF kind = "out" /\ frames = << >> THEN "over" ELSE kind
           new == [kind |-> k, depth |-> Len(frames), left |-> budget, made |-> 0, lands |-> Landing(kind)]
<1>1. CASE command' = Idle
  BY <1>1, Rests
<1>2. CASE command' # Idle
  <2>1. /\ UNCHANGED vars /\ Attached /\ command' = new /\ ~Stopped(Synced(view, status))
    BY <1>2 DEF Begin, Asks, Answers
  <2>2. ~Stopped(status) /\ status # "error"
    BY <2>1 DEF Synced, Stopped
  <2>3. /\ program' = program /\ status' = status /\ ip' = ip /\ stack' = stack /\ frames' = frames
        /\ locals' = locals /\ localsCount' = localsCount /\ wild' = wild
    BY <2>1 DEF vars, memory, stackVars, frameVars, localVars
  <2>4. CommandOK' /\ BreakpointsStop'
    BY <2>1, <2>2, <2>3 DEF CommandOK, BreakpointsStop, Attached
  <2>5. LandingKept'
    <3> SUFFICES ASSUME Landing(kind) # << >>, ~wild
                 PROVE  \/ k = "over" /\ AboutToCall(Landing(kind))
                        \/ k = "out" /\ Len(frames) = Landing(kind)[2] + 1 /\ Owed(Landing(kind))
      BY Zenon, <2>1, <2>3 DEF LandingKept, AboutToCall, Owed, Count, Instr, InTailPosition, ArgCount
    <3>1. CASE kind = "out" /\ frames # << >>
      <4> DEFINE l == Landing(kind)
      <4>1. /\ l[1] = Frame.ret /\ l[2] = Len(frames) - 1 /\ l[3] = SubSeq(stack, 1, Frame.base)
            /\ l[4] = [i \in 0..(Frame.localsBase - 1) |-> locals[i]]
        BY Zenon, <3>1 DEF Landing
      <4>2. /\ Frame.base \in Nat /\ Len(frames) \in Nat \ {0} /\ FrameBase = Frame.base
            /\ stack \in Seq(Values) /\ Len(stack) \in Nat
        BY <3>1, BaseFacts DEF DebugInv, Inv, StackOK, Frames
      <4>3. Frame.base <= Len(stack)
        BY <2>2, <4>2 DEF DebugInv, Inv, FramesOnStack
      <4> HIDE DEF l
      <4>4. l[3] \in Seq(Values) /\ Len(l[3]) = Frame.base /\ \A i \in 1..Frame.base : stack[i] = l[3][i]
        BY <4>1, <4>2, <4>3
      <4>5. l[2] \in Nat /\ l[2] + 1 \in 1..Len(frames) /\ frames[l[2] + 1] = Frame /\ Len(frames) = l[2] + 1
        BY <4>1, <4>2 DEF Frame
      <4>6. Owed(l)
        BY Zenon, <4>1, <4>3, <4>4, <4>5 DEF Owed
      <4>. QED
        BY <3>1, <4>5, <4>6 DEF l
    <3>2. CASE ~(kind = "out" /\ frames # << >>)
      <4>1. /\ kind # "step" /\ kind # "continue"
            /\ AboutToCall(Landing(kind))
        BY Zenon, <3>2 DEF Landing, AboutToCall
      <4>. QED
        BY <3>2, <4>1
    <3>. QED
      BY <3>1, <3>2
  <2>. QED
    BY <2>4, <2>5 DEF DebugInv
<1>. QED
  BY <1>1, <1>2


\* One instruction of a command: it goes on with what it is owed, or ends.
LEMMA ExecuteStep ==
    ASSUME DebugInv, Inv', Execute
    PROVE  DebugInv'
<1>0. Attached /\ command # Idle /\ ~Stopped(status) /\ Next /\ UNCHANGED breakpoints
  BY DEF Execute
<1>1. CASE command' = Idle
  BY <1>1, Rests
<1>2. CASE command' # Idle
  <2>1. /\ ~Stopped(status')
        /\ ~StopsAt(command.kind, command.made, command.depth, Len(frames'), ip')
        /\ \E left : command' = [command EXCEPT !.left = left, !.made = @ + 1]
    BY Zenon, <1>2 DEF Execute, Answers
  <2>2. /\ command'.kind = command.kind /\ command'.made = command.made + 1 /\ command'.depth = command.depth
        /\ command'.lands = command.lands
        /\ command' = [kind |-> command'.kind, depth |-> command'.depth, left |-> command'.left,
                       made |-> command'.made, lands |-> command'.lands]
    <3>1. PICK left : command' = [command EXCEPT !.left = left, !.made = @ + 1]
      BY Zenon, <2>1
    <3>2. PICK k, d, e, m, l : command = [kind |-> k, depth |-> d, left |-> e, made |-> m, lands |-> l]
      BY <1>0 DEF DebugInv, CommandOK
    <3>. QED
      BY ZenonT(30), <3>1, <3>2
  <2>3. command.kind \in {"over", "out", "continue"} /\ command.made \in Nat
    BY <1>0, <2>1 DEF DebugInv, CommandOK, StopsAt
  <2>4. CommandOK'
    <3>1. program' = program
      BY Zenon, <1>0 DEF Next, Reset, StepAtEnd, Nop, Halt, Stub, Unknown, PushConstant, Pop, Arithmetic, Jump, JumpIfFalse,
                  StoreLocal, LoadLocal, Call, Return, Runs
    <3>2. command'.kind \in {"step", "over", "out", "continue"} /\ command'.made \in Nat
      BY <2>2, <2>3
    <3>3. Attached' /\ ~Stopped(status')
      BY Zenon, <1>0, <2>1, <3>1 DEF Attached
    <3>. QED
      BY ZenonT(30), <2>2, <3>2, <3>3 DEF CommandOK
  <2>5. BreakpointsStop'
    BY <1>0, <2>1, <2>2, <2>3 DEF BreakpointsStop, StopsAt
  <2>6. LandingKept'
    <3>0. PICK l : l = command.lands
      BY ZenonT(30)
    <3> SUFFICES ASSUME l # << >>, ~wild'
                 PROVE  \/ command.kind = "over" /\ command.depth = l[2] /\ Owed(l)'
                        \/ command.kind = "out" /\ command.depth = l[2] + 1 /\ Owed(l)'
      BY <2>2, <3>0 DEF LandingKept, Owed
    <3>1. ~wild /\ (Within \/ Calls \/ Returns)
      BY <1>0, <2>1, Shapes DEF DebugInv, Stopped
    <3>2. CASE command.made = 0 /\ command.kind = "over" /\ command.depth = Len(frames) /\ AboutToCall(l)
      <4>1. Calls
        BY <3>1, <3>2 DEF AboutToCall, Within, Returns
      <4>2. Owed(l)' /\ l[2] = Len(frames)
        BY Zenon, <3>2, <4>1, OwedByCall DEF DebugInv, AboutToCall
      <4>. QED
        BY Zenon, <3>2, <4>2
    <3>3. CASE /\ Owed(l)
               /\ \/ command.kind = "over" /\ command.depth = l[2]
                  \/ command.kind = "out" /\ command.depth = l[2] + 1
      <4>1. CASE Within
        BY <3>3, <4>1, OwedWithin DEF DebugInv
      <4>2. CASE Calls
        BY <3>3, <4>2, OwedCalls DEF DebugInv
      <4>3. CASE Returns
        <5>1. l[2] + 1 # Len(frames)
          <6> SUFFICES ASSUME l[2] + 1 = Len(frames) PROVE FALSE
            OBVIOUS
          <6>1. Len(frames') = l[2] /\ l[2] \in Nat
            BY Zenon, <3>3, <4>3, Landed DEF DebugInv, Owed
          <6>. QED
            BY <2>1, <3>3, <6>1 DEF StopsAt
        <5>. QED
          BY Zenon, <3>3, <4>3, <5>1, OwedReturns DEF DebugInv
      <4>. QED
        BY Zenon, <3>1, <4>1, <4>2, <4>3
    <3>. QED
      BY Zenon, <1>0, <3>0, <3>1, <3>2, <3>3 DEF DebugInv, LandingKept
  <2>. QED
    BY <2>4, <2>5, <2>6 DEF DebugInv
<1>. QED
  BY <1>1, <1>2

\* The initial state of a session.
LEMMA DebugInitInv == DebugInit => DebugInv
BY InitInv DEF DebugInit, DebugInv, CommandOK, BreakpointsStop, LandingKept

\* Every step keeps the invariant.
LEMMA DebugNextInv == DebugInv /\ [DebugNext]_<<vars, debugVars>> => DebugInv'
<1> SUFFICES ASSUME DebugInv, [DebugNext]_<<vars, debugVars>> PROVE DebugInv'
  OBVIOUS
<1>0. Inv'
  BY DrivesVm, NextInv DEF DebugInv
<1>1. CASE Execute
  BY <1>0, <1>1, ExecuteStep
<1>2. CASE \E budget \in Budgets : \E kind \in {"step", "over", "out", "continue"} : Begin(kind, budget)
  BY <1>0, <1>2, BeginStep
<1>3. CASE Free
  <2>1. command' = Idle
    BY <1>3 DEF Free, debugVars, DebugInv, CommandOK
  <2>. QED
    BY Zenon, <1>0, <2>1, Rests
<1>4. CASE \/ Inspect \/ Pause \/ ClearBreakpoints
           \/ \E pc \in Places : BreakPc(pc) \/ \E name \in Names : Register(name, pc)
           \/ \E name \in Names : BreakName(name)
  <2>1. command' = Idle
    BY Zenon, <1>4 DEF Inspect, Pause, ClearBreakpoints, BreakPc, Register, BreakName, SetBreakpoint, Answers
  <2>. QED
    BY <1>0, <2>1, Rests
<1>5. CASE UNCHANGED <<vars, debugVars>>
  <2>1. /\ program' = program /\ status' = status /\ ip' = ip /\ stack' = stack /\ frames' = frames
        /\ locals' = locals /\ localsCount' = localsCount /\ wild' = wild
    BY <1>5 DEF vars, memory, stackVars, frameVars, localVars
  <2>2. command' = command /\ breakpoints' = breakpoints
    BY <1>5 DEF debugVars
  <2>3. CommandOK' /\ BreakpointsStop' /\ LandingKept'
    BY Zenon, <2>1, <2>2 DEF DebugInv, CommandOK, BreakpointsStop, LandingKept, Attached, AboutToCall, Owed, Count, Instr,
                      InTailPosition, ArgCount
  <2>. QED
    BY <1>0, <2>3 DEF DebugInv
<1>. QED
  BY Zenon, <1>1, <1>2, <1>3, <1>4, <1>5 DEF DebugNext

LEMMA DebugInvariance == DebugSpec => []DebugInv
BY DebugInitInv, DebugNextInv, PTL DEF DebugSpec
-----------------------------------------------------------------------------
\* aivm_debugger_continue, step over and step out never run an instruction at
\* a breakpoint after their first one, whatever the program does in between.
THEOREM BreakpointsAlwaysStop == DebugSpec => []BreakpointsStop
<1>1. DebugInv => BreakpointsStop
  BY DEF DebugInv
<1>. QED
  BY <1>1, DebugInvariance, PTL


\* An instruction that ends a command well, not at a breakpoint, is the return
\* the command's landing waits for.
LEMMA EndsByReturn ==
    ASSUME DebugInv, Execute, command' = Idle, reply' = "ok", ip' \notin breakpoints, ~wild',
           NEW l, l = command.lands, l # << >>
    PROVE  Returns /\ Owed(l) /\ l[2] + 1 = Len(frames)
<1>0. command # Idle /\ ~Stopped(status) /\ Next
  BY DEF Execute
<1>1. ~Stopped(status') /\ StopsAt(command.kind, command.made, command.depth, Len(frames'), ip')
  <2>1. ~Stopped(status')
    BY DEF Execute, Answers, StatusOf, Stopped
  <2>2. command' # [command EXCEPT !.left = LeftAfter(command.kind, command.made, command.left), !.made = @ + 1]
    <3>1. PICK k, d, e, m, n : /\ command = [kind |-> k, depth |-> d, left |-> e, made |-> m, lands |-> n]
                               /\ k \in {"step", "over", "out", "continue"}
      BY <1>0 DEF DebugInv, CommandOK
    <3>. QED
      BY Zenon, <3>1 DEF Idle, None
  <2>. QED
    BY <2>1, <2>2 DEF Execute, Answers
<1>2. ~wild /\ (Within \/ Calls \/ Returns)
  BY Zenon, <1>0, <1>1, Shapes DEF DebugInv, Stopped
<1>3. frames \in Seq(Frames) /\ Len(frames) \in Nat
  BY DEF DebugInv, Inv, FramesOK
<1>4. Calls => Len(frames') = Len(frames) + 1
  <2> SUFFICES ASSUME Calls PROVE Len(frames') = Len(frames) + 1
    OBVIOUS
  <2>1. PICK f : frames' = Append(frames, f)
    BY DEF Calls
  <2>. QED
    BY <1>3, <2>1
<1>5. CASE command.made = 0 /\ command.kind = "over" /\ command.depth = Len(frames) /\ AboutToCall(l)
  <2>1. Calls
    BY <1>2, <1>5 DEF AboutToCall, Within, Returns
  <2>2. Len(frames') = command.depth + 1 /\ command.depth \in Nat
    BY Zenon, <1>3, <1>4, <1>5, <2>1
  <2>. QED
    BY <1>1, <1>5, <2>2 DEF StopsAt
<1>6. CASE /\ Owed(l)
           /\ \/ command.kind = "over" /\ command.depth = l[2]
              \/ command.kind = "out" /\ command.depth = l[2] + 1
  <2>1. l[2] \in Nat /\ l[2] + 1 <= Len(frames)
    BY <1>3, <1>6 DEF Owed
  <2>2. Within => Len(frames') = Len(frames)
    BY DEF Within
  <2>3. Returns => Len(frames') = Len(frames) - 1
    BY Zenon, <1>3, FrontFacts DEF Returns
  <2>4. \/ command.kind = "over" /\ Len(frames') <= command.depth
        \/ command.kind = "out" /\ Len(frames') < command.depth
    BY Zenon, <1>1, <1>6 DEF StopsAt
  <2>5. Returns
    BY <1>2, <1>3, <1>4, <1>6, <2>1, <2>2, <2>4
  <2>. QED
    BY <1>3, <1>6, <2>1, <2>3, <2>4, <2>5
<1>. QED
  BY Zenon, <1>0, <1>2, <1>5, <1>6 DEF DebugInv, LandingKept

\* Step over a call and step out, when they end well and not at a breakpoint,
\* leave the program at the caller's next instruction, in the caller's frame,
\* with the caller's operands and locals and at most one result, whatever
\* calls, tail calls and recursion came between.
THEOREM StepsAlwaysLand == DebugSpec => StepsLand
<1> DEFINE Lands ==
        command # Idle /\ command' = Idle /\ reply' = "ok" /\ command.lands # << >>
        /\ ip' \notin breakpoints /\ ~wild' =>
          /\ ip' = command.lands[1] /\ Len(frames') = command.lands[2]
          /\ Len(stack') - Len(command.lands[3]) \in {0, 1}
          /\ SubSeq(stack', 1, Len(command.lands[3])) = command.lands[3]
          /\ [i \in 0..(localsCount' - 1) |-> locals'[i]] = command.lands[4]
<1>1. DebugInv /\ [DebugNext]_<<vars, debugVars>> => [Lands]_<<vars, debugVars>>
  <2> SUFFICES ASSUME DebugInv, DebugNext, command # Idle, command' = Idle, reply' = "ok",
                      command.lands # << >>, ip' \notin breakpoints, ~wild'
               PROVE  /\ ip' = command.lands[1] /\ Len(frames') = command.lands[2]
                      /\ Len(stack') - Len(command.lands[3]) \in {0, 1}
                      /\ SubSeq(stack', 1, Len(command.lands[3])) = command.lands[3]
                      /\ [i \in 0..(localsCount' - 1) |-> locals'[i]] = command.lands[4]
    OBVIOUS
  <2>1. Execute
    BY Zenon DEF DebugNext, Free, debugVars, Inspect, Pause, ClearBreakpoints, BreakPc, Register, BreakName, Begin, Asks
  <2>2. PICK l : l = command.lands
    OBVIOUS
  <2>3. Returns /\ Owed(l) /\ l[2] + 1 = Len(frames)
    BY <2>1, <2>2, EndsByReturn
  <2>. QED
    BY Zenon, <2>2, <2>3, Landed DEF DebugInv
<1>. QED
  BY <1>1, DebugInvariance, PTL DEF DebugSpec, StepsLand

\* A debugged program is a program: the commands only choose when aivm_step is
\* called, so that activations own their operands and locals as without them.
THEOREM DebuggedActivations == DebugSpec => ImplementsActivations
<1>1. DebugInit => Init
  BY DEF DebugInit
<1>2. [DebugNext]_<<vars, debugVars>> => [Next]_vars
  BY DrivesVm
<1>. QED
  BY <1>1, <1>2, ActivationsImplemented, PTL DEF DebugSpec, Spec

=============================================================================
