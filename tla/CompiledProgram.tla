-------------------------- MODULE CompiledProgram --------------------------
(***************************************************************************)
(* A source program from the compiler to its result: compiled (Compiler),  *)
(* written to a file and loaded from it (Aibc1), then run.  The file may   *)
(* have been cut: the writer was stopped, or the copy was not finished.    *)
(*                                                                         *)
(* The machine is the interpreter as programs see it: every activation has *)
(* its own operands and locals, which is what ImplementsActivations of the *)
(* CallStack model shows of the shared arrays.  Operations that neither    *)
(* move control nor count leave a term of their operands.                  *)
(***************************************************************************)
EXTENDS SourceMeaning, Aibc1

CONSTANTS
    Sources,      \* the source programs
    Cuttable(_),  \* those of them whose file may be cut anywhere
    TextNames,    \* the strings of the programs
    MaxSteps,     \* bound: instructions run
    Fuel          \* bound: loop rounds and calls of the reference

VARIABLES
    cut,       \* how many bytes of the file are there; -1 before it is written
    program,   \* what was loaded: [status, code, consts]
    acts,      \* activations, innermost last: [ret, ops, locals]
    pc,
    status,    \* "compiling", "refused", "running", "halted", "error"
    steps

machine == <<cut, program, acts, pc, status, steps>>
vars == <<compilerVars, machine>>

\* The program the loader hands out, with its strings under their names.
Named(v) == IF v[1] = "string" THEN Text(CHOOSE t \in TextNames : TextBytes[t] = v[2]) ELSE v
WithNames(p) == [p EXCEPT !.consts = [i \in DOMAIN p.consts |-> Named(p.consts[i])]]

File == Write([code |-> code, consts |-> consts])

Init ==
    /\ \E src \in Sources : CompilerInit(src)
    /\ cut = -1 /\ program = Blank /\ acts = << [ret |-> 0, ops |-> << >>, locals |-> << >>] >>
    /\ pc = 0 /\ steps = 0 /\ status = "compiling"

Compile == status = "compiling" /\ CompileStep /\ UNCHANGED machine

\* Building ends: nothing is written for a source the compiler refused.
GiveUp == status = "compiling" /\ failed /\ status' = "refused"
          /\ UNCHANGED <<compilerVars, cut, program, acts, pc, steps>>

\* The program starts from a file, of which only the first n bytes may be there.
Loaded(file, n) ==
    /\ cut' = n
    /\ program' = WithNames(Load(SubSeq(file, 1, n)))
    /\ status' = IF program'.status = "OK" THEN "running" ELSE "refused"

LoadFile ==
    /\ status = "compiling" /\ Compiled /\ ~failed
    /\ LET file == File
       IN  \E n \in (IF Cuttable(source) THEN 0..Len(file) ELSE {Len(file)}) : Loaded(file, n)
    /\ UNCHANGED <<compilerVars, acts, pc, steps>>

Instr == program.code[pc + 1]
Running == status = "running" /\ pc < Len(program.code) /\ steps < MaxSteps
Top == Last(acts)
Depth == Len(Top.ops)

\* The machine goes on at next with a as innermost activation.
Continue(a, next) ==
    /\ acts' = [acts EXCEPT ![Len(acts)] = a]
    /\ pc' = next /\ steps' = steps + 1
    /\ UNCHANGED <<compilerVars, cut, program, status>>

Stop(how) == status' = how /\ steps' = steps + 1 /\ UNCHANGED <<compilerVars, cut, program, acts, pc>>

\* n operands are replaced by the value v.
Replace(n, v) == Continue([Top EXCEPT !.ops = Append(SubSeq(@, 1, Depth - n), v)], pc + 1)
Operands(n) == SubSeq(Top.ops, Depth - n + 1, Depth)

Push ==
    /\ Running /\ Instr.op \in {"PUSH_INT", "PUSH_BOOL", "CONST"}
    /\ Replace(0, CASE Instr.op = "PUSH_INT" -> <<"int", Instr.arg>>
                    [] Instr.op = "PUSH_BOOL" -> <<"bool", Instr.arg # 0>>
                    [] OTHER -> program.consts[Instr.arg + 1])

Store ==
    /\ Running /\ Instr.op = "STORE_LOCAL" /\ Depth >= 1
    /\ Continue([Top EXCEPT !.ops = Front(@), !.locals = Assign(@, Instr.arg, Last(Top.ops))], pc + 1)

Fetch ==
    /\ Running /\ Instr.op = "LOAD_LOCAL" /\ Instr.arg \in DOMAIN Top.locals
    /\ Replace(0, Top.locals[Instr.arg])

Discard == Running /\ Instr.op = "POP" /\ Depth >= 1 /\ Continue([Top EXCEPT !.ops = Front(@)], pc + 1)

\* A target equal to the number of instructions ends the program.
JumpTo == Running /\ Instr.op = "JUMP" /\ Continue(Top, Instr.arg)

Branch ==
    /\ Running /\ Instr.op = "JUMP_IF_FALSE" /\ Depth >= 1 /\ Last(Top.ops)[1] = "bool"
    /\ Continue([Top EXCEPT !.ops = Front(@)], IF Last(Top.ops)[2] THEN pc + 1 ELSE Instr.arg)

\* infer_call_arg_count: the STORE_LOCALs the function starts with.
StoresAt(at) ==
    LET other == {i \in (at + 1)..Len(program.code) : program.code[i].op # "STORE_LOCAL"}
    IN  (CHOOSE i \in other : \A j \in other : i <= j) - 1 - at

Entered(ret, n) == [ret |-> ret, ops |-> Operands(n), locals |-> << >>]
TailPosition == Len(acts) > 1 /\ pc + 1 < Len(program.code) /\ program.code[pc + 2].op = "RETURN"
DistinctStores(at, n) == \A i, j \in (at + 1)..(at + n) : program.code[i].arg = program.code[j].arg => i = j
CallAllowed == StoresAt(Instr.arg) <= Depth /\ DistinctStores(Instr.arg, StoresAt(Instr.arg))

Invoke ==
    /\ Running /\ Instr.op = "CALL" /\ CallAllowed
    /\ acts' = IF TailPosition THEN Append(Front(acts), Entered(Top.ret, StoresAt(Instr.arg)))
               ELSE Append([acts EXCEPT ![Len(acts)].ops = SubSeq(@, 1, Depth - StoresAt(Instr.arg))],
                           Entered(pc + 1, StoresAt(Instr.arg)))
    /\ pc' = Instr.arg /\ steps' = steps + 1
    /\ UNCHANGED <<compilerVars, cut, program, status>>

\* RETURN with more than one operand left is refused.
Finish ==
    /\ Running /\ Instr.op = "RETURN" /\ Len(acts) > 1 /\ Depth <= 1
    /\ acts' = [Front(acts) EXCEPT ![Len(acts) - 1].ops = @ \o Top.ops]
    /\ pc' = Top.ret /\ steps' = steps + 1
    /\ UNCHANGED <<compilerVars, cut, program, status>>

\* The target lies below the arguments.
System ==
    /\ Running /\ Instr.op = "CALL_SYS" /\ Depth >= Instr.arg + 1
    /\ LET taken == Operands(Instr.arg + 1) IN Replace(Instr.arg + 1, SysResult(Head(taken), Tail(taken)))

\* The number of fields is on top of them.
MakeMap ==
    /\ Running /\ Instr.op = "MAKE_MAP" /\ Depth >= 1 /\ Depth - 1 >= Last(Top.ops)[2]
    /\ LET n == Last(Top.ops)[2] IN Replace(n + 1, Apply("MAKE_MAP", Front(Operands(n + 1))))

\* How many operands each opcode pops.
Pops(op) ==
    CASE op \in {"MAP_BUILDER_NEW"} -> 0
      [] op \in {"TO_STRING", "STR_ESCAPE", "STR_FROM_CODEPOINT", "STR_DECODE_UNICODE_HEX4", "STR_UTF8_BYTE_COUNT",
                 "STR_SCALAR_LENGTH", "BYTES_LENGTH", "BYTES_FROM_UTF8_STRING", "BYTES_TO_UTF8_STRING",
                 "BYTES_FROM_BASE64", "BYTES_TO_BASE64", "BYTES_FROM_BYTE", "BYTES_U32_LE", "BYTES_I64_LE",
                 "PAIR_FIRST", "PAIR_SECOND", "VALUE_KIND", "NODE_KIND", "NODE_ID", "ATTR_COUNT", "CHILD_COUNT",
                 "MAKE_BLOCK", "NODE_BUILDER_FINISH", "MAP_BUILDER_FINISH", "MAP_COUNT"} -> 1
      [] op \in {"STR_SUBSTRING", "STR_REMOVE", "STR_FIND", "BYTES_SLICE", "MAP_BUILDER_PUT_STRING_INT",
                 "MAP_GET_STRING_INT_OR"} -> 3
      [] op = "MAKE_ERR" -> 4
      [] OTHER -> 2

Control == {"PUSH_INT", "PUSH_BOOL", "CONST", "STORE_LOCAL", "LOAD_LOCAL", "POP", "JUMP", "JUMP_IF_FALSE",
            "CALL", "RETURN", "CALL_SYS", "MAKE_MAP", "HALT"}

Operate ==
    /\ Running /\ Instr.op \notin Control /\ Depth >= Pops(Instr.op)
    /\ Replace(Pops(Instr.op), Apply(Instr.op, Operands(Pops(Instr.op))))

\* A RETURN of the outermost activation halts like HALT.
Halt ==
    /\ status = "running" /\ steps < MaxSteps
    /\ pc >= Len(program.code) \/ Instr.op \in {"HALT"} \union (IF Len(acts) = 1 THEN {"RETURN"} ELSE {})
    /\ Stop("halted")

\* The checks of aivm_step that stop the program.
Trap ==
    /\ Running
    /\ \/ Instr.op \in {"STORE_LOCAL", "POP", "JUMP_IF_FALSE"} /\ Depth = 0
       \/ Instr.op = "JUMP_IF_FALSE" /\ Depth > 0 /\ Last(Top.ops)[1] # "bool"
       \/ Instr.op = "LOAD_LOCAL" /\ Instr.arg \notin DOMAIN Top.locals
       \/ Instr.op = "CALL" /\ ~CallAllowed
       \/ Instr.op = "RETURN" /\ Len(acts) > 1 /\ Depth > 1
       \/ Instr.op \notin Control /\ Depth < Pops(Instr.op)
    /\ Stop("error")

Next == Compile \/ GiveUp \/ LoadFile \/ Push \/ Store \/ Fetch \/ Discard \/ JumpTo \/ Branch \/ Invoke \/ Finish \/ System \/ MakeMap
        \/ Operate \/ Halt \/ Trap

Spec == Init /\ [][Next]_vars
-----------------------------------------------------------------------------
RECURSIVE Leaves(_)
\* A statement that leaves the block is somewhere in e.
Leaves(e) == e.k \in {"Return", "Break", "Continue"} \/ \E i \in DOMAIN e.c : Leaves(e.c[i])

RECURSIVE LeavesOperand(_)
\* Such a statement is part of an operand, with other operands waiting.
LeavesOperand(e) ==
    \/ e.k \notin {"Let", "Return", "If", "Loop", "Block", "Break", "Continue"}
       /\ \E i \in DOMAIN e.c : Leaves(e.c[i])
    \/ \E i \in DOMAIN e.c : LeavesOperand(e.c[i])

Proper(src) ==
    \A i \in DOMAIN src.funcs :
        /\ IsInjective(src.funcs[i].params)
        /\ src.funcs[i].name = src.entry => Len(src.funcs[i].params) <= 1
        /\ \A j \in DOMAIN src.funcs[i].body : ~LeavesOperand(src.funcs[i].body[j])

Expected == Meaning(source, Fuel)

\* A halted program has left the result its source means, whatever the
\* compiler made of its blocks, names and calls; a program that leaves a
\* block from within an operand may be stopped, but never gives another
\* result (ailang.c, simple_compile_*).
ResultAsMeant ==
    (status = "halted" /\ Expected.ctl = "next") => Top.ops = <<Expected.val>>

\* A source whose meaning is a value, and that leaves no operand half done,
\* runs to its end: no check of the interpreter stops it, and it does not
\* run past the steps its meaning needs.
CompiledRuns ==
    (status = "error" \/ (status = "running" /\ steps = MaxSteps))
        => ~(Proper(source) /\ Expected.ctl = "next")

\* A whole file loads to the program that was written, and no shorter
\* piece of it loads at all (aivm_program_load_aibc1): what the build cache
\* takes for a usable file is one.
LoadsWholeOrNotAtAll ==
    (cut >= 0 /\ steps = 0) =>
        IF cut = Len(File) THEN program = [status |-> "OK", code |-> code, consts |-> consts]
        ELSE status = "refused"
=============================================================================
