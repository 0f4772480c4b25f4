------------------------------ MODULE Compiler ------------------------------
(***************************************************************************)
(* The native source compiler of the ailang command (ailang.c,             *)
(* simple_compile_* and parse_simple_program_graph_to_program_file): from  *)
(* the functions collected out of the source graph to one sequence of      *)
(* instructions and one constant pool.                                     *)
(*                                                                         *)
(* A node of the source is [k |-> kind, n |-> its value, name or names as  *)
(* a tuple, c |-> its children]; reading nodes from text is left out.  The *)
(* recursive functions of the compiler are steps on todo, what they have   *)
(* still to do: <<what, node, number>>, first to last.  Positions of       *)
(* instructions start at 0 as in the code.                                 *)
(***************************************************************************)
EXTENDS Integers, FiniteSets, SequencesExt

CONSTANTS
    MaxInstructions,    \* AIVM_PROGRAM_MAX_INSTRUCTIONS
    MaxConstants,       \* AIVM_PROGRAM_INLINE_CONSTANTS
    MaxLocals,          \* SIMPLE_MAX_LOCALS, AIVM_VM_LOCALS_CAPACITY
    MaxCallArgs,        \* 32
    MaxFixups,          \* SIMPLE_MAX_FIXUPS
    MaxLoopDepth,       \* SIMPLE_MAX_LOOP_DEPTH
    MaxBranches         \* end_jumps of a dynamic call

VARIABLES
    source,       \* [entry, funcs]: functions in the order they were collected
    todo,         \* what is left to compile
    code, consts, \* the program emitted so far
    names,        \* SimpleLocals: the name at position i has slot i - 1
    marks,        \* positions and flags the C functions hold in locals
    loops,        \* loop_frames: [start, breaks, continues]
    fixups,       \* CALLs whose target had no entry: [at, target]
    fixed,        \* how many of them are resolved
    entry,        \* entry_ip of each function, -1 while it is not compiled
    did,          \* out_did_return of the last statement
    failed        \* something was refused

emitted == <<code, consts>>
context == <<marks, loops, fixups, fixed, entry, did>>
compilerVars == <<source, todo, emitted, names, context, failed>>

VoidValue == <<"void">>
NullValue == <<"null">>
Text(x) == <<"string", x>>

Here == Len(code)
Funcs == source.funcs

Task(what, e, n) == <<what, e, n>>
NoNode == [k |-> "none", n |-> << >>, c |-> << >>]
Op(op, arg) == Task(op, NoNode, arg)
ExprTask(e) == Task("expr", e, 0)
ExprTasks(es) == [i \in DOMAIN es |-> ExprTask(es[i])]
ConstTask(v) == Task("const", [NoNode EXCEPT !.n = v], 0)
Did(b) == Op("did", IF b THEN 1 ELSE 0)

Doing(what) == ~failed /\ todo # << >> /\ Head(todo)[1] = what
E == Head(todo)[2]
N == Head(todo)[3]

\* Refused: the whole compilation fails.
Refuse == failed' = TRUE /\ todo' = << >> /\ UNCHANGED <<source, emitted, names, context>>

\* tasks take the place of the first thing to do.
Instead(tasks) == todo' = tasks \o Tail(todo) /\ UNCHANGED <<source, failed>>
Only(tasks) == Instead(tasks) /\ UNCHANGED <<emitted, names, context>>

\* simple_emit_instruction, and operand_int of the instructions at ats set.
Full == Here >= MaxInstructions
Appended(op, arg) == Append(code, [op |-> op, arg |-> arg])
Patched(c, ats, arg) == [i \in DOMAIN c |-> IF i - 1 \in ats THEN [c[i] EXCEPT !.arg = arg] ELSE c[i]]

Mark(at) == [at |-> at, ends |-> {}, did |-> FALSE]
Marked == Last(marks)

\* The pool holds each string, number and void once; every null is new.
ConstIndex(v) ==
    LET i == SelectInSeq(consts, LAMBDA w : w = v)
    IN  IF i # 0 /\ v # NullValue THEN i - 1 ELSE Len(consts)

EmitConst ==
    /\ Doing("const")
    /\ IF Full \/ ConstIndex(E.n) >= MaxConstants THEN Refuse
       ELSE /\ consts' = IF ConstIndex(E.n) = Len(consts) THEN Append(consts, E.n) ELSE consts
            /\ code' = Appended("CONST", ConstIndex(E.n))
            /\ Instead(<< >>) /\ UNCHANGED <<names, context>>

\* Exactly one instruction; what names its opcode.
Emit(op, arg) ==
    IF Full THEN Refuse
    ELSE code' = Appended(op, arg) /\ Instead(<< >>) /\ UNCHANGED <<consts, names, context>>
-----------------------------------------------------------------------------
\* simple_locals_lookup: the slot of a name, -1 if it is not visible.
SlotIn(ns, name) == SelectInSeq(ns, LAMBDA m : m = name) - 1
Declared(ns, name) == IF SlotIn(ns, name) >= 0 THEN ns ELSE Append(ns, name)

FindFunc(name) == SelectInSeq(Funcs, LAMBDA f : f.name = name)
-----------------------------------------------------------------------------
\* Kinds that compile their children in order and emit one opcode:
\* <<kind, number of children, opcode>>.
OpsOnMaps == {
    <<"MapBuilderNew", 0, "MAP_BUILDER_NEW">>, <<"MapBuilderFinish", 1, "MAP_BUILDER_FINISH">>,
    <<"MapCount", 1, "MAP_COUNT">>, <<"MapHasString", 2, "MAP_HAS_STRING">>,
    <<"MapBuilderPutStringInt", 3, "MAP_BUILDER_PUT_STRING_INT">>,
    <<"MapGetStringIntOr", 3, "MAP_GET_STRING_INT_OR">> }

OpsOnNodes == {
    <<"MakeBlock", 1, "MAKE_BLOCK">>, <<"MakeNodeBuilder", 2, "NODE_BUILDER_NEW">>,
    <<"BuilderAppendChild", 2, "NODE_BUILDER_APPEND_CHILD">>,
    <<"BuilderAppendAttr", 2, "NODE_BUILDER_APPEND_ATTR">>,
    <<"FinishNodeBuilder", 1, "NODE_BUILDER_FINISH">>, <<"MakeNode", 2, "MAKE_NODE_EMPTY">>,
    <<"AppendChild", 2, "APPEND_CHILD">>, <<"AppendAttr", 2, "APPEND_ATTR">> }

OpsOnParts == {
    <<"MakePair", 2, "MAKE_PAIR">>, <<"PairFirst", 1, "PAIR_FIRST">>, <<"PairSecond", 1, "PAIR_SECOND">>,
    <<"MakeLitString", 2, "MAKE_LIT_STRING">>, <<"MakeLitInt", 2, "MAKE_LIT_INT">>,
    <<"MakeLitBool", 2, "MAKE_LIT_BOOL">>, <<"MakeFieldString", 2, "MAKE_FIELD_STRING">>,
    <<"MakeErr", 4, "MAKE_ERR">> }

OpsOnText == {
    <<"StrEscape", 1, "STR_ESCAPE">>, <<"StringUtf8ByteCount", 1, "STR_UTF8_BYTE_COUNT">>,
    <<"StringScalarLength", 1, "STR_SCALAR_LENGTH">>, <<"StringFromCodePoint", 1, "STR_FROM_CODEPOINT">>,
    <<"StringDecodeUnicodeHex4", 1, "STR_DECODE_UNICODE_HEX4">>,
    <<"StringDecodeUnicodeSurrogatePairHex4", 2, "STR_DECODE_UNICODE_SURROGATE_PAIR_HEX4">>,
    <<"StringSlice", 3, "STR_SUBSTRING">>, <<"StringFind", 3, "STR_FIND">>, <<"StringRemove", 3, "STR_REMOVE">> }

OpsOnBytes == {
    <<"BytesLength", 1, "BYTES_LENGTH">>, <<"BytesFromUtf8String", 1, "BYTES_FROM_UTF8_STRING">>,
    <<"BytesToUtf8String", 1, "BYTES_TO_UTF8_STRING">>, <<"BytesFromBase64", 1, "BYTES_FROM_BASE64">>,
    <<"BytesToBase64", 1, "BYTES_TO_BASE64">>, <<"BytesFromByte", 1, "BYTES_FROM_BYTE">>,
    <<"BytesU32LE", 1, "BYTES_U32_LE">>, <<"BytesI64LE", 1, "BYTES_I64_LE">>,
    <<"BytesAt", 2, "BYTES_AT">>, <<"BytesConcat", 2, "BYTES_CONCAT">>, <<"BytesSlice", 3, "BYTES_SLICE">> }

OpsOnValues == {
    <<"Add", 2, "ADD_INT">>, <<"Sub", 2, "SUB_NUM">>, <<"Mul", 2, "MUL_NUM">>, <<"Div", 2, "DIV_NUM">>,
    <<"Mod", 2, "MOD_NUM">>, <<"Pow", 2, "POW_NUM">>, <<"Lt", 2, "LT_NUM">>, <<"Eq", 2, "EQ">>,
    <<"ToString", 1, "TO_STRING">>, <<"ValueKind", 1, "VALUE_KIND">>, <<"NodeKind", 1, "NODE_KIND">>,
    <<"NodeId", 1, "NODE_ID">>, <<"AttrCount", 1, "ATTR_COUNT">>, <<"ChildCount", 1, "CHILD_COUNT">>,
    <<"ChildAt", 2, "CHILD_AT">>, <<"AttrKey", 2, "ATTR_KEY">>, <<"AttrValueString", 2, "ATTR_VALUE_STRING">>,
    <<"AttrValueInt", 2, "ATTR_VALUE_INT">>, <<"AttrValueBool", 2, "ATTR_VALUE_BOOL">>,
    <<"AttrValueKind", 2, "ATTR_VALUE_KIND">> }

Ops == OpsOnMaps \union OpsOnNodes \union OpsOnParts \union OpsOnText \union OpsOnBytes \union OpsOnValues
OpKinds == {o[1] : o \in Ops}
OpOf == [k \in OpKinds |-> CHOOSE o \in Ops : o[1] = k]

\* Targets that compile to CALL_SYS, and the name each one calls.
SysTarget == [t \in {"io.print", "io.write", "io.readLine", "io.readAllStdin", "io.fileExists", "io.readFile",
                     "io.writeFile", "io.makeDir", "sys.time.nowUnixMs"} |->
    CASE t \in {"io.print", "io.write"} -> "sys.stdout.writeLine"
      [] t = "io.readLine" -> "sys.console.readLine"
      [] t = "io.readAllStdin" -> "sys.console.readAllStdin"
      [] t = "io.fileExists" -> "sys.fs.file.exists"
      [] t = "io.readFile" -> "sys.fs.file.read"
      [] t = "io.writeFile" -> "sys.fs.file.write"
      [] t = "io.makeDir" -> "sys.fs.dir.create"
      [] OTHER -> t]

OtherOps == {"STORE_LOCAL", "LOAD_LOCAL", "POP", "RETURN", "HALT", "CALL_SYS", "PUSH_INT", "MAKE_MAP",
             "STR_CONCAT", "MAKE_FIELD_STRING", "EQ"}
-----------------------------------------------------------------------------
EmitOp ==
    /\ ~failed /\ todo # << >> /\ Head(todo)[1] \in OtherOps \union {o[3] : o \in Ops}
    /\ Emit(Head(todo)[1], N)

ExprLit ==
    /\ Doing("expr") /\ E.k = "Lit"
    /\ CASE E.n[1] = "int" -> Emit("PUSH_INT", E.n[2])
         [] E.n[1] = "bool" -> Emit("PUSH_BOOL", IF E.n[2] THEN 1 ELSE 0)
         [] OTHER -> Only(<<ConstTask(E.n)>>)

ExprVar ==
    /\ Doing("expr") /\ E.k = "Var"
    /\ IF SlotIn(names, E.n) < 0 THEN Refuse ELSE Emit("LOAD_LOCAL", SlotIn(names, E.n))

\* A system target is called by name, below its arguments; a function must
\* be known and take as many arguments as it is given.
ExprCall ==
    /\ Doing("expr") /\ E.k = "Call"
    /\ IF Len(E.c) > MaxCallArgs THEN Refuse
       ELSE IF E.n[1] \in DOMAIN SysTarget
       THEN Only(<<ConstTask(Text(SysTarget[E.n[1]]))>> \o ExprTasks(E.c) \o <<Op("CALL_SYS", Len(E.c))>>)
       ELSE LET f == FindFunc(E.n[1])
            IN  IF f = 0 \/ Len(Funcs[f].params) # Len(E.c) THEN Refuse
                ELSE Only(ExprTasks(E.c) \o <<Op("call", f)>>)

\* Faulty variant: a function that is not compiled yet is called at 0.
CallFuncNoFixup ==
    /\ Doing("call")
    /\ code' = Appended("CALL", IF entry[N] < 0 THEN 0 ELSE entry[N])
    /\ Instead(<< >>) /\ UNCHANGED <<consts, names, context>>

\* The function is known by its entry, or left to the fixups.
CallFunc ==
    /\ Doing("call")
    /\ IF Full \/ (entry[N] < 0 /\ Len(fixups) >= MaxFixups) THEN Refuse
       ELSE /\ code' = Appended("CALL", IF entry[N] < 0 THEN 0 ELSE entry[N])
            /\ fixups' = IF entry[N] < 0 THEN Append(fixups, [at |-> Here, target |-> N]) ELSE fixups
            /\ Instead(<< >>) /\ UNCHANGED <<consts, names, marks, loops, fixed, entry, did>>

ExprDynamic ==
    /\ Doing("expr") /\ E.k = "CallDynamic"
    /\ IF E.c = << >> \/ Len(E.c) - 1 > MaxCallArgs THEN Refuse
       ELSE Only(<<ExprTask(E.c[1]), Task("hold", E, Len(names))>>)

\* The target is held in a slot of its own, named by the number of names
\* there were before it was compiled.
HoldTarget ==
    /\ Doing("hold")
    /\ LET ns == Declared(names, <<"dynamic_target", N>>)
           slot == SlotIn(ns, <<"dynamic_target", N>>)
       IN  IF Len(ns) > MaxLocals THEN Refuse
           ELSE /\ names' = ns /\ marks' = Append(marks, Mark(slot))
                /\ Instead(<<Op("STORE_LOCAL", slot), Task("dynamic", E, 1)>>)
                /\ UNCHANGED <<emitted, loops, fixups, fixed, entry, did>>

Candidate(f) == Len(Funcs[f].params) = Len(E.c) - 1 /\ (E.n = << >> \/ Contains(E.n, Funcs[f].name))

\* One branch per function the target may name, each with its own copy of
\* the arguments; after the last one the target is reported missing.
DynamicBranch ==
    /\ Doing("dynamic")
    /\ IF N > Len(Funcs)
       THEN Only(<<ConstTask(Text("sys.dynamic.missingFunction")), Op("LOAD_LOCAL", Marked.at), Op("CALL_SYS", 1),
                   Op("dynend", 0)>>)
       ELSE IF ~Candidate(N) THEN Only(<<Task("dynamic", E, N + 1)>>)
       ELSE Only(<<Op("LOAD_LOCAL", Marked.at), ConstTask(Text(Funcs[N].name)), Op("EQ", 0), Op("jumpfalse", 0)>>
                 \o ExprTasks(Tail(E.c)) \o <<Op("call", N), Task("dynleft", E, N)>>)

\* A jump to the end; the test of this branch goes to what follows it.
DynamicLeft ==
    /\ Doing("dynleft")
    /\ IF Full \/ Cardinality(marks[Len(marks) - 1].ends) >= MaxBranches THEN Refuse
       ELSE /\ code' = Patched(Appended("JUMP", 0), {Marked.at}, Here + 1)
            /\ marks' = [Front(marks) EXCEPT ![Len(marks) - 1].ends = @ \union {Here}]
            /\ Instead(<<Task("dynamic", E, N + 1)>>)
            /\ UNCHANGED <<consts, names, loops, fixups, fixed, entry, did>>

DynamicEnd ==
    /\ Doing("dynend")
    /\ code' = Patched(code, Marked.ends, Here) /\ marks' = Front(marks)
    /\ Instead(<< >>) /\ UNCHANGED <<consts, names, loops, fixups, fixed, entry, did>>
-----------------------------------------------------------------------------
JumpIfFalse ==
    /\ Doing("jumpfalse")
    /\ IF Full THEN Refuse
       ELSE /\ code' = Appended("JUMP_IF_FALSE", 0) /\ marks' = Append(marks, Mark(Here))
            /\ Instead(<< >>) /\ UNCHANGED <<consts, names, loops, fixups, fixed, entry, did>>

\* The first branch ends: a jump over the second, where the test goes.
Else ==
    /\ Doing("else")
    /\ IF Full THEN Refuse
       ELSE /\ code' = Patched(Appended("JUMP", 0), {Marked.at}, Here + 1)
            /\ marks' = Append(Front(marks), [Mark(Here) EXCEPT !.did = did])
            /\ Instead(<< >>) /\ UNCHANGED <<consts, names, loops, fixups, fixed, entry, did>>

\* An if statement has returned when both of its branches have.
EndIf ==
    /\ Doing("endif")
    /\ code' = Patched(code, {Marked.at}, Here) /\ marks' = Front(marks)
    /\ did' = (Marked.did /\ did)
    /\ Instead(<< >>) /\ UNCHANGED <<consts, names, loops, fixups, fixed, entry>>

ExprIf ==
    /\ Doing("expr") /\ E.k = "If"
    /\ IF Len(E.c) < 3 THEN Refuse
       ELSE Only(<<ExprTask(E.c[1]), Op("jumpfalse", 0), ExprTask(E.c[2]), Op("else", 0), ExprTask(E.c[3]), Op("endif", 0)>>)

ExprBlock ==
    /\ Doing("expr") /\ E.k = "Block"
    /\ did' = FALSE /\ Instead(<<Task("value", E, 1)>>)
    /\ UNCHANGED <<emitted, names, marks, loops, fixups, fixed, entry>>

\* The children of a block that is an expression: statements but for a last
\* one with a value; without one the block is the empty string.  The names
\* it introduces stay.
BlockValue ==
    /\ Doing("value")
    /\ CASE did -> Only(<< >>)
         [] ~did /\ N > Len(E.c) -> Only(<<ConstTask(Text(""))>>)
         [] ~did /\ N = Len(E.c) /\ E.c[N].k \notin {"Let", "Return", "Break", "Continue", "Loop"} ->
              Only(<<ExprTask(E.c[N])>>)
         [] OTHER -> Only(<<Task("stmt", E.c[N], 0), Task("value", E, N + 1)>>)

ExprMap ==
    /\ Doing("expr") /\ E.k = "Map"
    /\ IF \E i \in DOMAIN E.c : E.c[i].k # "Field" THEN Refuse
       ELSE Only(ExprTasks(E.c) \o <<Op("PUSH_INT", Len(E.c)), Op("MAKE_MAP", 0)>>)

ExprConcat ==
    /\ Doing("expr") /\ E.k = "StrConcat"
    /\ IF E.c = << >> THEN Refuse
       ELSE Only(<<ExprTask(E.c[1])>>
                 \o FlattenSeq([i \in 1..(Len(E.c) - 1) |-> <<ExprTask(E.c[i + 1]), Op("STR_CONCAT", 0)>>]))

ExprField ==
    /\ Doing("expr") /\ E.k = "Field"
    /\ IF E.c = << >> THEN Refuse
       ELSE Only(<<ConstTask(Text(E.n[1])), ExprTask(E.c[1]), Op("MAKE_FIELD_STRING", 0)>>)

\* Children beyond those the kind takes are ignored.
ExprOp ==
    /\ Doing("expr") /\ E.k \in OpKinds
    /\ IF Len(E.c) < OpOf[E.k][2] THEN Refuse
       ELSE Only(ExprTasks(SubSeq(E.c, 1, OpOf[E.k][2])) \o <<Op(OpOf[E.k][3], 0)>>)

Structural == {"Lit", "Var", "Call", "CallDynamic", "If", "Block", "Map", "StrConcat", "Field"}
ExprUnknown == Doing("expr") /\ E.k \notin OpKinds \union Structural /\ Refuse
-----------------------------------------------------------------------------
Statement(k) == Doing("stmt") /\ E.k = k

\* The slot is taken before the expression is compiled.
StmtLet ==
    /\ Statement("Let")
    /\ LET ns == Declared(names, E.n)
       IN  IF E.c = << >> \/ Len(ns) > MaxLocals THEN Refuse
           ELSE /\ names' = ns
                /\ Instead(<<ExprTask(E.c[1]), Op("STORE_LOCAL", SlotIn(ns, E.n)), Did(FALSE)>>)
                /\ UNCHANGED <<emitted, context>>

\* A jump whose target the enclosing loop fills in.
StmtJump ==
    /\ Doing("stmt") /\ E.k \in {"Break", "Continue"}
    /\ IF loops = << >> \/ Full THEN Refuse
       ELSE /\ code' = Appended("JUMP", 0)
            /\ loops' = [loops EXCEPT ![Len(loops)] =
                           IF E.k = "Break" THEN [@ EXCEPT !.breaks = @ \union {Here}]
                           ELSE [@ EXCEPT !.continues = @ \union {Here}]]
            /\ did' = FALSE
            /\ Instead(<< >>) /\ UNCHANGED <<consts, names, marks, fixups, fixed, entry>>

StmtReturn ==
    /\ Statement("Return")
    /\ Only(<<IF E.c = << >> THEN ConstTask(VoidValue) ELSE ExprTask(E.c[1]), Op("RETURN", 0), Did(TRUE)>>)

SetDid ==
    /\ Doing("did")
    /\ did' = (N = 1)
    /\ Instead(<< >>) /\ UNCHANGED <<emitted, names, marks, loops, fixups, fixed, entry>>

\* A branch or a loop body: a block, or an expression whose value is dropped.
Body(e) == IF e.k = "Block" THEN <<Task("stmt", e, 0)>> ELSE <<ExprTask(e), Op("POP", 0), Did(FALSE)>>

StmtIf ==
    /\ Statement("If")
    /\ IF Len(E.c) < 3 THEN Refuse
       ELSE Only(<<ExprTask(E.c[1]), Op("jumpfalse", 0)>> \o Body(E.c[2]) \o <<Op("else", 0)>>
                 \o Body(E.c[3]) \o <<Op("endif", 0)>>)

StmtLoop ==
    /\ Statement("Loop")
    /\ IF E.c = << >> \/ Len(loops) >= MaxLoopDepth THEN Refuse
       ELSE /\ loops' = Append(loops, [start |-> Here, breaks |-> {}, continues |-> {}])
            /\ Instead(Body(E.c[1]) \o <<Op("loopend", 0)>>)
            /\ UNCHANGED <<emitted, names, marks, fixups, fixed, entry, did>>

\* Faulty variant: a continue leaves the loop as a break does.
LoopTargetsSame(c, loop) == Patched(c, loop.breaks \union loop.continues, Len(c))

\* A break goes to what follows the loop, a continue to its start.
LoopTargets(c, loop) == Patched(Patched(c, loop.breaks, Len(c)), loop.continues, loop.start)

LoopEnd ==
    /\ Doing("loopend")
    /\ IF Full THEN Refuse
       ELSE /\ code' = LoopTargets(Appended("JUMP", Last(loops).start), Last(loops))
            /\ loops' = Front(loops) /\ did' = FALSE
            /\ Instead(<< >>) /\ UNCHANGED <<consts, names, marks, fixups, fixed, entry>>

StmtBlock ==
    /\ Statement("Block")
    /\ did' = FALSE /\ Instead(<<Task("stmts", E, 1), Op("scope", Len(names))>>)
    /\ UNCHANGED <<emitted, names, marks, loops, fixups, fixed, entry>>

\* The statements of a block up to the first that has returned.
BlockNext ==
    /\ Doing("stmts")
    /\ Only(IF did \/ N > Len(E.c) THEN << >> ELSE <<Task("stmt", E.c[N], 0), Task("stmts", E, N + 1)>>)

\* The names of a block end with it; their slots are used again.
EndScope == Doing("scope") /\ names' = SubSeq(names, 1, N) /\ Instead(<< >>) /\ UNCHANGED <<emitted, context>>

StmtExpr ==
    /\ Doing("stmt") /\ E.k \notin {"Let", "Break", "Continue", "Return", "If", "Loop", "Block"}
    /\ Only(<<ExprTask(E), Op("POP", 0), Did(FALSE)>>)
-----------------------------------------------------------------------------
\* The last argument is on top of the stack.
Prologue(params, ns) == [i \in DOMAIN params |-> Op("STORE_LOCAL", SlotIn(ns, Reverse(params)[i]))]

\* simple_compile_fn_by_index
StartFn ==
    /\ Doing("fn")
    /\ LET ns == FoldLeft(Declared, << >>, Funcs[N].params)
       IN  IF Len(ns) > MaxLocals THEN Refuse
           ELSE /\ names' = ns /\ marks' = Append(marks, Mark(Here))
                /\ Instead(Prologue(Funcs[N].params, ns)
                           \o <<Task("stmt", [NoNode EXCEPT !.k = "Block", !.c = Funcs[N].body], 0), Op("fnend", N)>>)
                /\ UNCHANGED <<emitted, loops, fixups, fixed, entry, did>>

\* A function that may reach its end returns void there.
EndFn ==
    /\ Doing("fnend")
    /\ IF ~did THEN Only(<<ConstTask(VoidValue), Op("RETURN", 0), Did(TRUE), Op("fnend", N)>>)
       ELSE /\ entry' = [entry EXCEPT ![N] = Marked.at] /\ marks' = Front(marks)
            /\ Instead(<< >>) /\ UNCHANGED <<emitted, names, loops, fixups, fixed, did>>

\* The call of the entry function, its operand to be filled in.
BootCall ==
    /\ Doing("boot")
    /\ IF Full THEN Refuse
       ELSE /\ code' = Appended("CALL", 0) /\ marks' = Append(marks, Mark(Here))
            /\ Instead(<<Op("HALT", 0), Op("fn", N), Op("bootend", N)>>)
            /\ UNCHANGED <<consts, names, loops, fixups, fixed, entry, did>>

BootEnd ==
    /\ Doing("bootend")
    /\ code' = Patched(code, {Marked.at}, entry[N]) /\ marks' = Front(marks)
    /\ Instead(<<Op("fixups", 0)>>) /\ UNCHANGED <<consts, names, loops, fixups, fixed, entry, did>>

\* Each call without a target compiles its function unless that was done;
\* a function compiled here may leave more of them.
ResolveFixup ==
    /\ Doing("fixups")
    /\ IF fixed = Len(fixups) THEN Only(<< >>)
       ELSE LET fix == fixups[fixed + 1]
            IN  IF entry[fix.target] < 0 THEN Only(<<Op("fn", fix.target), Op("fixups", 0)>>)
                ELSE /\ code' = Patched(code, {fix.at}, entry[fix.target]) /\ fixed' = fixed + 1
                     /\ Instead(<<Op("fixups", 0)>>)
                     /\ UNCHANGED <<consts, names, marks, loops, fixups, entry, did>>
-----------------------------------------------------------------------------
\* simple_add_func: a second function of the same name is dropped.
Collect(funcs) ==
    LET first == SelectSeq([i \in DOMAIN funcs |-> i],
                           LAMBDA i : \A j \in 1..(i - 1) : funcs[j].name # funcs[i].name)
    IN  [i \in DOMAIN first |-> funcs[first[i]]]

\* parse_simple_program_graph_to_program_file; an entry that takes anything
\* is given the process arguments.
Bootstrap(f) ==
    IF f = 0 THEN << >>
    ELSE (IF Funcs[f].params = << >> THEN << >> ELSE <<ConstTask(Text("sys.process.args")), Op("CALL_SYS", 0)>>)
         \o <<Op("boot", f)>>

CompilerInit(src) ==
    /\ source = [src EXCEPT !.funcs = Collect(@)]
    /\ code = << >> /\ consts = << >> /\ names = << >> /\ marks = << >> /\ loops = << >>
    /\ fixups = << >> /\ fixed = 0 /\ entry = [i \in DOMAIN Funcs |-> -1] /\ did = FALSE
    /\ failed = (FindFunc(source.entry) = 0)
    /\ todo = Bootstrap(FindFunc(source.entry))

CompileExpr == ExprLit \/ ExprVar \/ ExprCall \/ ExprDynamic \/ ExprIf \/ ExprBlock \/ ExprMap \/ ExprConcat
               \/ ExprField \/ ExprOp \/ ExprUnknown
CompileStmt == StmtLet \/ StmtJump \/ StmtReturn \/ StmtIf \/ StmtLoop \/ StmtBlock \/ StmtExpr
CompilePart == EmitConst \/ EmitOp \/ CallFunc \/ HoldTarget \/ DynamicBranch \/ DynamicLeft \/ DynamicEnd
               \/ JumpIfFalse \/ Else \/ EndIf \/ BlockValue \/ SetDid \/ LoopEnd \/ BlockNext \/ EndScope
               \/ StartFn \/ EndFn \/ BootCall \/ BootEnd \/ ResolveFixup
CompileStep == CompileExpr \/ CompileStmt \/ CompilePart
Compiled == todo = << >>
=============================================================================
