----------------------------- MODULE CallStack -----------------------------
(***************************************************************************)
(* The interpreter's control state (aivm_step, aivm_vm_stack.c,            *)
(* aivm_vm_lifecycle.c): instruction pointer, operand stack, call frames   *)
(* and locals, all of them windows into three flat arrays that every       *)
(* activation shares, with limits that grow up to a capacity.              *)
(*                                                                         *)
(* The program is any member of Programs.  Of the opcodes, those that      *)
(* move control or touch frames and locals are modelled one by one; of     *)
(* the others, the ones that show how operands are taken and left.         *)
(* Indices into the arrays start at 0 in the code, at 1 in sequences.      *)
(***************************************************************************)
EXTENDS Integers, Sequences, FiniteSets

CONSTANTS
    Programs,                                   \* instruction sequences
    Ints,                                       \* integer values
    StackInitial, StackStep, StackCapacity,     \* AIVM_VM_STACK_*
    FrameInitial, FrameStep, FrameCapacity,     \* AIVM_VM_CALLFRAME_*
    LocalsInitial, LocalsStep, LocalsCapacity,  \* AIVM_VM_LOCALS_*
    MaxArgs                                     \* size of seen[] in validate_call_target_layout

Opcodes == {"NOP", "HALT", "STUB", "UNKNOWN", "PUSH_INT", "PUSH_BOOL", "POP", "STORE_LOCAL", "LOAD_LOCAL",
            "ADD_INT", "LT_NUM", "JUMP", "JUMP_IF_FALSE", "CALL", "RET"}
Instructions == [op : Opcodes, arg : Int]

ASSUME CallStackAssumption ==
    /\ Programs \subseteq Seq(Instructions)
    /\ Ints \subseteq Int
    /\ StackInitial \in Nat /\ StackCapacity \in Nat /\ StackStep \in Nat \ {0}
    /\ FrameInitial \in Nat /\ FrameCapacity \in Nat /\ FrameStep \in Nat \ {0}
    /\ LocalsInitial \in Nat /\ LocalsCapacity \in Nat /\ LocalsStep \in Nat \ {0}
    /\ StackInitial <= StackCapacity
    /\ FrameInitial <= FrameCapacity
    /\ LocalsInitial <= LocalsCapacity
    /\ MaxArgs \in Nat

VARIABLES
    program,      \* vm->program
    ip,           \* instruction_pointer
    status,       \* "ready", "running", "halted", "error"
    error,        \* which check stopped the program, "none" for none
    stack,        \* the stack_count values in use
    stackLimit,
    frames,       \* call_frames: [ret, base, localsBase]
    frameLimit,
    locals,       \* the whole locals array: slots keep what was stored last
    localsCount,
    localsLimit,
    own,          \* history: per activation, the slots it stored
    wild          \* history: the program used an operand of its caller or an unset local

stackVars == <<stack, stackLimit>>
frameVars == <<frames, frameLimit>>
localVars == <<locals, localsCount, localsLimit>>
memory == <<stackVars, frameVars, localVars, own, wild>>
vars == <<program, ip, status, error, memory>>

Values == [type : {"void", "int", "bool"}, v : Int]
Void == [type |-> "void", v |-> 0]
IntValue(n) == [type |-> "int", v |-> n]
BoolValue(b) == [type |-> "bool", v |-> IF b THEN 1 ELSE 0]
Slots == 0..(LocalsCapacity - 1)

Count == Len(program)
Instr == program[ip + 1]
Frame == frames[Len(frames)]
FrameBase == IF frames = << >> THEN 0 ELSE Frame.base
LocalsBase == IF frames = << >> THEN 0 ELSE Frame.localsBase
-----------------------------------------------------------------------------
\* The limits at reset.
Fresh ==
    /\ ip = 0 /\ status = "ready" /\ error = "none"
    /\ stack = << >> /\ stackLimit = StackInitial
    /\ frames = << >> /\ frameLimit = FrameInitial
    /\ localsCount = 0 /\ localsLimit = LocalsInitial
    /\ own = << {} >> /\ wild = FALSE

Init ==
    /\ program \in Programs
    /\ locals = [i \in Slots |-> Void]
    /\ Fresh

\* aivm_reset_state: counts and limits start again; the locals array is not cleared.
Reset ==
    /\ status \in {"halted", "error"}
    /\ ip' = 0 /\ status' = "ready" /\ error' = "none"
    /\ stack' = << >> /\ stackLimit' = StackInitial
    /\ frames' = << >> /\ frameLimit' = FrameInitial
    /\ localsCount' = 0 /\ localsLimit' = LocalsInitial
    /\ own' = << {} >> /\ wild' = FALSE
    /\ UNCHANGED <<program, locals>>

\* aivm_step runs the instruction at ip, which is op.
Runs(op) == status \in {"ready", "running"} /\ ip < Count /\ Instr.op = op /\ UNCHANGED program

\* The end of aivm_step: running past the last instruction halts.
Goto(target) ==
    /\ ip' = target
    /\ status' = IF target >= Count THEN "halted" ELSE "running"
    /\ UNCHANGED error

Fail(why) == ip' = Count /\ status' = "error" /\ error' = why

\* The steps of the ensure_*_capacity loops, which stop at the capacity.
GrownLimit(limit, needed, step, capacity) ==
    IF needed <= limit THEN limit
    ELSE LET grown == limit + step * ((needed - limit + step - 1) \div step)
         IN  IF grown > capacity THEN capacity ELSE grown

\* aivm_stack_push of v when s is left of the stack, and the step after it.
Push(s, v) ==
    /\ stackLimit' = GrownLimit(stackLimit, Len(s) + 1, StackStep, StackCapacity)
    /\ IF Len(s) + 1 <= stackLimit' THEN stack' = Append(s, v) /\ Goto(ip + 1)
       ELSE stack' = s /\ Fail("stack_overflow")

\* n operands are taken; below the frame's base they are the caller's.
Rest(n) == SubSeq(stack, 1, Len(stack) - n)
Operand(n) == stack[Len(stack) - n]
Takes(n) == wild' = (wild \/ Len(stack) - n < FrameBase)

Refuse(why) == Fail(why) /\ UNCHANGED memory
-----------------------------------------------------------------------------
StepAtEnd ==
    /\ status \in {"ready", "running"} /\ ip >= Count
    /\ status' = "halted"
    /\ UNCHANGED <<program, ip, error, memory>>

Nop == Runs("NOP") /\ Goto(ip + 1) /\ UNCHANGED memory

Halted == ip' = Count /\ status' = "halted" /\ UNCHANGED <<error, memory>>

Halt == Runs("HALT") /\ Halted

\* STUB is the one failure that leaves the instruction pointer.
Stub ==
    /\ Runs("STUB")
    /\ status' = "error" /\ error' = "opcode"
    /\ UNCHANGED <<ip, memory>>

Unknown == Runs("UNKNOWN") /\ Refuse("opcode")

PushConstant ==
    /\ \/ Runs("PUSH_INT") /\ Push(stack, IntValue(Instr.arg))
       \/ Runs("PUSH_BOOL") /\ Push(stack, BoolValue(Instr.arg # 0))
    /\ UNCHANGED <<frameVars, localVars, own, wild>>

Pop ==
    /\ Runs("POP")
    /\ IF stack = << >> THEN Refuse("stack_underflow")
       ELSE /\ stack' = Rest(1) /\ Takes(1) /\ Goto(ip + 1)
            /\ UNCHANGED <<stackLimit, frameVars, localVars, own>>

\* ADD_INT and the other numeric operations, whose result is some number, and
\* LT_NUM.  Each operand is taken before the next is looked for.
Arithmetic ==
    /\ Runs("ADD_INT") \/ Runs("LT_NUM")
    /\ IF Len(stack) < 2
       THEN /\ stack' = << >> /\ wild' = (wild \/ (Len(stack) = 1 /\ FrameBase > 0)) /\ Fail("stack_underflow")
            /\ UNCHANGED stackLimit
       ELSE /\ Takes(2)
            /\ IF {Operand(0).type, Operand(1).type} # {"int"}
               THEN stack' = Rest(2) /\ Fail("type") /\ UNCHANGED stackLimit
               ELSE IF Instr.op = "ADD_INT" THEN \E n \in Ints : Push(Rest(2), IntValue(n))
                    ELSE Push(Rest(2), BoolValue(Operand(1).v < Operand(0).v))
    /\ UNCHANGED <<frameVars, localVars, own>>

Jump ==
    /\ Runs("JUMP")
    /\ IF Instr.arg \in 0..Count THEN Goto(Instr.arg) /\ UNCHANGED memory
       ELSE Refuse("target")

\* The target is compared with the program's length only when it is taken.
JumpIfFalse ==
    /\ Runs("JUMP_IF_FALSE")
    /\ IF Instr.arg < 0 THEN Refuse("target")
       ELSE IF stack = << >> THEN Refuse("stack_underflow")
       ELSE /\ stack' = Rest(1) /\ Takes(1)
            /\ IF Operand(0).type # "bool" THEN Fail("type")
               ELSE IF Operand(0).v = 1 THEN Goto(ip + 1)
               ELSE IF Instr.arg > Count THEN Fail("target") ELSE Goto(Instr.arg)
            /\ UNCHANGED <<stackLimit, frameVars, localVars, own>>

\* Faulty variant: a stack that is exactly full is taken for an overrun.
StateErrorWhenFull(s) ==
    IF Len(s) >= stackLimit \/ Len(frames) > frameLimit \/ localsCount > localsLimit THEN "state"
    ELSE IF FrameBase > Len(s) THEN "frame"
    ELSE IF LocalsBase > localsCount THEN "locals" ELSE "none"

\* aivm_vm_validate_call_local_state when s is left of the stack: the check
\* that fails, "none" for none.
StateError(s) ==
    IF Len(s) > stackLimit \/ Len(frames) > frameLimit \/ localsCount > localsLimit THEN "state"
    ELSE IF FrameBase > Len(s) THEN "frame"
    ELSE IF LocalsBase > localsCount THEN "locals" ELSE "none"

\* STORE_LOCAL and aivm_local_set, which looks at the state after the pop.
StoreLocal ==
    /\ Runs("STORE_LOCAL")
    /\ IF Instr.arg < 0 THEN Refuse("operand")
       ELSE IF stack = << >> THEN Refuse("stack_underflow")
       ELSE /\ stack' = Rest(1) /\ Takes(1)
            /\ LET slot == LocalsBase + Instr.arg
               IN  IF StateError(Rest(1)) # "none"
                   THEN Fail(StateError(Rest(1))) /\ UNCHANGED <<localVars, own>>
                   ELSE IF slot >= LocalsCapacity
                   THEN Fail("local_range") /\ UNCHANGED <<localVars, own>>
                   ELSE /\ localsLimit' = GrownLimit(localsLimit, slot + 1, LocalsStep, LocalsCapacity)
                        /\ locals' = [locals EXCEPT ![slot] = Operand(0)]
                        /\ localsCount' = IF slot >= localsCount THEN slot + 1 ELSE localsCount
                        /\ own' = [own EXCEPT ![Len(own)] = @ \union {Instr.arg}]
                        /\ Goto(ip + 1)
            /\ UNCHANGED <<stackLimit, frameVars>>

\* LOAD_LOCAL and aivm_local_get: any slot below the count can be read.
LoadLocal ==
    /\ Runs("LOAD_LOCAL")
    /\ IF Instr.arg < 0 THEN Refuse("operand")
       ELSE IF StateError(stack) # "none" \/ LocalsBase + Instr.arg >= localsCount THEN Refuse("local_range")
       ELSE /\ Push(stack, locals[LocalsBase + Instr.arg])
            /\ wild' = (wild \/ Instr.arg \notin own[Len(own)])
            /\ UNCHANGED <<frameVars, localVars, own>>
-----------------------------------------------------------------------------
(***************************************************************************)
(* CALL and RET.                                                           *)
(***************************************************************************)
\* infer_call_arg_count: the STORE_LOCALs the callee begins with.
ArgCount(target) ==
    Cardinality({n \in 0..(Count - target - 1) :
                   \A k \in 0..n : program[target + k + 1].op = "STORE_LOCAL"})

\* validate_call_target_layout: distinct slots, no more than can be compared.
LayoutValid(target, argc) ==
    /\ argc <= MaxArgs
    /\ \A i \in 1..argc : program[target + i].arg >= 0
    /\ \A i, j \in 1..argc : program[target + i].arg = program[target + j].arg => i = j

\* A CALL directly in front of a RET, inside a function.
InTailPosition == frames # << >> /\ ip + 1 < Count /\ program[ip + 2].op = "RET"

\* The checks of CALL and of aivm_frame_push in their order, the limit excepted.
CallError(target, argc) ==
    IF argc \notin 0..Len(stack) THEN "arguments"
    ELSE IF ~LayoutValid(target, argc) THEN "layout"
    ELSE IF Len(stack) - argc < FrameBase THEN "crosses"
    ELSE IF InTailPosition THEN IF FrameBase > Len(stack) - argc THEN "tail_base" ELSE "none"
    ELSE StateError(stack)

\* Faulty variant: the stack is cut without moving the arguments down.
ReplaceFrameNotMoving(argc) ==
    /\ stack' = SubSeq(stack, 1, FrameBase + argc)
    /\ localsCount' = LocalsBase
    /\ own' = [own EXCEPT ![Len(own)] = {}]
    /\ Goto(Instr.arg)
    /\ UNCHANGED <<stackLimit, frameVars, locals, localsLimit, wild>>

\* A tail call: the arguments move down to the frame's base, its locals go.
ReplaceFrame(argc) ==
    /\ stack' = SubSeq(stack, 1, FrameBase) \o SubSeq(stack, Len(stack) - argc + 1, Len(stack))
    /\ localsCount' = LocalsBase
    /\ own' = [own EXCEPT ![Len(own)] = {}]
    /\ Goto(Instr.arg)
    /\ UNCHANGED <<stackLimit, frameVars, locals, localsLimit, wild>>

\* The rest of aivm_frame_push: the arguments become the callee's operands.
PushFrame(argc) ==
    /\ frameLimit' = GrownLimit(frameLimit, Len(frames) + 1, FrameStep, FrameCapacity)
    /\ IF Len(frames) + 1 <= frameLimit'
       THEN /\ frames' = Append(frames, [ret |-> ip + 1, base |-> Len(stack) - argc,
                                         localsBase |-> localsCount])
            /\ own' = Append(own, {})
            /\ Goto(Instr.arg)
       ELSE Fail("frame_overflow") /\ UNCHANGED <<frames, own>>
    /\ UNCHANGED <<stackVars, localVars, wild>>

Call ==
    /\ Runs("CALL")
    /\ IF Instr.arg \notin 0..(Count - 1) THEN Refuse("target")
       ELSE LET argc == ArgCount(Instr.arg)
                why  == CallError(Instr.arg, argc)
            IN  IF why # "none" THEN Refuse(why)
                ELSE IF InTailPosition THEN ReplaceFrame(argc) ELSE PushFrame(argc)

\* The checks after the frame was popped, up to validate_vm_return_restore.
ReturnError ==
    IF Frame.base > Len(stack) \/ Frame.localsBase > localsCount THEN "frame_record"
    ELSE IF Frame.ret > Count THEN "return_target"
    ELSE IF Len(stack) < Frame.base THEN "return_base"
    ELSE IF Len(stack) > Frame.base + 1 THEN "extra_values"
    ELSE "none"

\* What the frame left above its base, at most one value, is the result.
RestoreCaller ==
    /\ IF Len(stack) > Frame.base
       THEN /\ stack' = Append(SubSeq(stack, 1, Frame.base), stack[Len(stack)])
            /\ stackLimit' = GrownLimit(stackLimit, Frame.base + 1, StackStep, StackCapacity)
       ELSE UNCHANGED stackVars
    /\ localsCount' = Frame.localsBase
    /\ Goto(Frame.ret)
    /\ UNCHANGED <<locals, localsLimit>>

\* RET and RETURN.  A failure after the pop leaves the frame popped.
Return ==
    /\ Runs("RET")
    /\ IF frames = << >> THEN Halted
       ELSE IF StateError(stack) # "none" THEN Refuse(StateError(stack))
       ELSE /\ frames' = SubSeq(frames, 1, Len(frames) - 1)
            /\ own' = SubSeq(own, 1, Len(own) - 1)
            /\ IF ReturnError # "none" THEN Fail(ReturnError) /\ UNCHANGED <<stackVars, localVars>>
               ELSE RestoreCaller
            /\ UNCHANGED <<frameLimit, wild>>

Next ==
    \/ Reset \/ StepAtEnd \/ Nop \/ Halt \/ Stub \/ Unknown \/ PushConstant \/ Pop \/ Arithmetic
    \/ Jump \/ JumpIfFalse \/ StoreLocal \/ LoadLocal \/ Call \/ Return

Spec == Init /\ [][Next]_vars
-----------------------------------------------------------------------------
(***************************************************************************)
(* Properties.                                                             *)
(***************************************************************************)
\* Why a program is stopped: its own faults, and checks of the VM's bookkeeping.
Internal == {"state", "locals", "tail_base", "frame_record", "return_target", "return_base"}
Errors ==
    {"none", "stack_overflow", "stack_underflow", "frame_overflow", "opcode", "operand", "type", "target",
     "local_range", "frame", "arguments", "layout", "crosses", "extra_values"} \union Internal
Frames == [ret : Nat, base : Nat, localsBase : Nat]

\* The control state has its types, every array holds no more than its limit,
\* and no limit exceeds the capacity that was allocated.
TypeOK ==
    /\ program \in Programs
    /\ ip \in 0..Count
    /\ status \in {"ready", "running", "halted", "error"} /\ error \in Errors
    /\ stack \in Seq(Values) /\ stackLimit \in Nat
    /\ Len(stack) <= stackLimit /\ stackLimit <= StackCapacity
    /\ frames \in Seq(Frames) /\ frameLimit \in Nat
    /\ Len(frames) <= frameLimit /\ frameLimit <= FrameCapacity
    /\ locals \in [Slots -> Values] /\ localsCount \in Nat /\ localsLimit \in Nat
    /\ localsCount <= localsLimit /\ localsLimit <= LocalsCapacity
    /\ own \in Seq(SUBSET Nat) /\ Len(own) = Len(frames) + 1
    /\ wild \in BOOLEAN

\* The frames are nested: each begins, in the stack and in the locals, no lower
\* than the one it was called from, and returns to a place in the program.
FramesNested ==
    /\ \A i, j \in 1..Len(frames) : i <= j => /\ frames[i].base <= frames[j].base
                                             /\ frames[i].localsBase <= frames[j].localsBase
    /\ \A i \in 1..Len(frames) : frames[i].ret <= Count /\ frames[i].localsBase <= localsCount

\* The program stays out of its caller's operands: the stack reaches the base
\* of every frame.
FramesOnStack == ~wild /\ status # "error" => FrameBase <= Len(stack)

\* The VM's checks of its own bookkeeping never fail, whatever the program:
\* limits, bases of locals, return addresses and popped frames are always
\* right, and the frame check fails only for a program that took an operand of
\* its caller.
ChecksSilent ==
    /\ error \notin Internal
    /\ error = "frame" => wild

Lost == wild \/ status = "error"
Activation(k) ==
    LET base  == IF k = 1 THEN 0 ELSE frames[k - 1].base
        top   == IF k > Len(frames) THEN Len(stack) ELSE frames[k].base
        first == IF k = 1 THEN 0 ELSE frames[k - 1].localsBase
    IN  [ret |-> IF k = 1 THEN 0 ELSE frames[k - 1].ret,
         operands |-> SubSeq(stack, base + 1, top),
         locals |-> [i \in own[k] |-> locals[first + i]]]

A == INSTANCE Activations WITH
        acts <- IF Lost THEN << >> ELSE [k \in 1..(Len(frames) + 1) |-> Activation(k)],
        pc <- ip,
        instr <- IF ip < Count THEN Instr ELSE [op |-> "NOP", arg |-> 0]

\* The shared arrays give every activation operands and locals of its own: no
\* call, tail call or return shows an activation anything of another but
\* arguments and a result.
ImplementsActivations == A!Spec
=============================================================================
