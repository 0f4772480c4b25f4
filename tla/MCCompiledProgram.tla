------------------------- MODULE MCCompiledProgram -------------------------
(***************************************************************************)
(* Source programs for CompiledProgram: every way the constructs that move *)
(* control, introduce names or call functions nest in one another up to    *)
(* the depth below, and every kind of operation once.                      *)
(***************************************************************************)
EXTENDS CompiledProgram

Node(k, n, c) == [k |-> k, n |-> n, c |-> c]
Num(i) == Node("Lit", <<"int", i>>, << >>)
Str(x) == Node("Lit", <<"string", x>>, << >>)
Var(x) == Node("Var", <<x>>, << >>)
OpOn(k, args) == Node(k, << >>, args)
LetIn(x, e) == Node("Let", <<x>>, <<e>>)
CallOf(f, args) == Node("Call", <<f>>, args)
Dyn(only, args) == Node("CallDynamic", only, args)
Cond(c, t, e) == Node("If", << >>, <<c, t, e>>)
Blk(es) == Node("Block", << >>, es)
Ret(e) == Node("Return", << >>, <<e>>)
RetVoid == Node("Return", << >>, << >>)
LoopOf(es) == Node("Loop", << >>, <<Blk(es)>>)
BreakOut == Node("Break", << >>, << >>)
GoOn == Node("Continue", << >>, << >>)
Less(e, n) == OpOn("Lt", <<e, Num(n)>>)
Plus(d, e) == OpOn("Add", <<d, e>>)

Fun(name, params, body) == [name |-> name, params |-> params, body |-> body]
Program(body, fs) == [entry |-> "main", funcs |-> <<Fun("main", << >>, body)>> \o fs]

\* f is neither commutative nor of one call; g counts down through h.
F == Fun("f", <<<<"p">>, <<"q">>>>, <<Ret(OpOn("MakePair", <<Var("q"), CallOf("g", <<Var("p")>>)>>))>>)
G == Fun("g", <<<<"p">>>>, <<Cond(Less(Var("p"), 1), Blk(<<Ret(Num(7))>>), Blk(<< >>)),
                             Ret(CallOf("h", <<Var("p")>>))>>)
H == Fun("h", <<<<"q">>>>, <<LetIn("a", Plus(Var("q"), Num(-1))), Ret(CallOf("g", <<Var("a")>>))>>)
\* A second g is never called; k returns nothing.
G2 == Fun("g", <<<<"p">>>>, <<Ret(Num(0))>>)
K == Fun("k", << >>, <<CallOf("io.print", <<Str("x")>>)>>)
Funs == <<F, G, H, G2, K>>

Tests == {Less(Var("a"), 2), OpOn("Eq", <<Var("a"), Var("b")>>)}

\* Expressions with a block, a branch or a call in them.
Nested ==
    {Plus(Var("a"), Num(1)), Blk(<<LetIn("b", Num(4)), Plus(Var("a"), Var("b"))>>), Blk(<<LetIn("c", Num(5))>>),
     Blk(<< >>), Cond(Less(Var("a"), 2), Blk(<<LetIn("c", Num(3)), Var("c")>>), Var("b")),
     Cond(Less(Var("a"), 2), Num(8), Blk(<<Ret(Num(9))>>)),
     CallOf("f", <<Var("a"), Num(2)>>), CallOf("g", <<Num(2)>>), CallOf("k", << >>),
     OpOn("MakePair", <<Var("a"), Cond(Less(Var("a"), 2), Num(6), Blk(<<Ret(Num(5))>>))>>),
     Dyn(<< >>, <<Str("g"), Plus(Var("a"), Num(1))>>),
     Dyn(<<"h", "g">>, <<Str("h"), Dyn(<<"g">>, <<Str("g"), Num(0)>>)>>),
     Dyn(<< >>, <<Dyn(<< >>, <<Str("k")>>), Var("a"), Num(2)>>), Dyn(<<"h">>, <<Str("g"), Num(1)>>)}

Simple == {LetIn(x, e) : x \in {"a", "b"}, e \in {Num(0), Plus(Var("a"), Num(1))}}
          \union {Ret(Var("b")), CallOf("g", <<Num(1)>>), BreakOut, GoOn}
Branches == {Cond(c, Blk(<<s>>), Blk(<<t>>)) : c \in Tests, s \in Simple, t \in {BreakOut, LetIn("c", Num(2)), Ret(Var("a"))}}
Inner == Simple \union {Cond(Less(Var("a"), 2), Blk(<<s>>), Blk(<<BreakOut>>)) : s \in Simple}

\* A loop that counts a up and leaves at 2, with s somewhere in its round.
Count == LetIn("a", Plus(Var("a"), Num(1)))
LeaveAtTwo == Cond(Less(Var("a"), 2), Blk(<< >>), Blk(<<BreakOut>>))
Loops == {LoopOf(<<LeaveAtTwo, Count, s>>) : s \in Inner} \union {LoopOf(<<Count, s, LeaveAtTwo>>) : s \in Inner}
         \union {LoopOf(<<LeaveAtTwo, Count, LoopOf(<<s, BreakOut>>)>>) : s \in Inner}
         \union {LoopOf(<<Count, LetIn("b", Plus(Num(1), Cond(Less(Var("a"), 2), Num(1), Blk(<<s, Num(3)>>))))>>) :
                   s \in {BreakOut, Ret(Num(4)), Ret(CallOf("g", <<Num(1)>>))}}

Start == <<LetIn("a", Num(0)), LetIn("b", Num(1))>>
Statements == Branches \union Loops \union {LetIn("b", e) : e \in Nested} \union Nested
              \union {Blk(<<LetIn("c", Num(2)), LetIn("a", Var("c"))>>), RetVoid}
Endings == {Ret(OpOn("MakePair", <<Var("a"), Var("b")>>)), Ret(Var("c")), LetIn("c", Var("b"))}
           \union {Ret(e) : e \in {CallOf("g", <<Num(1)>>), Cond(Less(Var("a"), 1), CallOf("g", <<Num(0)>>), CallOf("h", <<Num(1)>>))}}

Structured == {Program(Start \o <<s, t>>, Funs) : s \in Statements, t \in Endings}
              \union {Program(Start \o <<Blk(<<LetIn("c", Num(2)), s>>), LetIn("d", Num(6)), t>>, Funs) :
                        s \in {LetIn("b", e) : e \in Nested}, t \in Endings}

\* Every operation with distinct operands; too few or too many of them.
Args == <<Str("x"), Num(2), Str("y"), Num(3)>>
IntArgs == <<Num(4), Num(2), Num(1), Num(3)>>
ArgsFor(k) == IF k \in {"Add", "Lt"} THEN IntArgs ELSE Args
EachOp == {Program(<<Ret(OpOn(k, SubSeq(ArgsFor(k), 1, n)))>>, << >>) : k \in OpKinds, n \in 0..4}
OtherExprs ==
    {Program(<<Ret(e)>>, <<G, H>>) :
        e \in {Node("Map", << >>, <<Node("Field", <<"x">>, <<Num(1)>>), Node("Field", <<"y">>, <<Num(2)>>)>>),
               Node("Map", << >>, <<Num(1)>>), Node("Map", << >>, << >>), OpOn("StrConcat", Args), OpOn("StrConcat", << >>),
               OpOn("StrConcat", <<Str("x")>>), CallOf("io.fileExists", <<Str("x")>>),
               CallOf("sys.time.nowUnixMs", << >>), CallOf("io.print", <<Str("x"), Num(1)>>),
               Node("Lit", <<"bool", TRUE>>, << >>), Node("Lit", <<"null">>, << >>), Node("Lit", <<"number", 5>>, << >>),
               OpOn("MakePair", <<Node("Lit", <<"null">>, << >>), Node("Lit", <<"null">>, << >>)>>),
               OpOn("MakePair", <<Str("x"), Str("x")>>), CallOf("g", << >>), CallOf("zz", << >>), OpOn("Nonsense", << >>)}}

\* An entry with parameters, a parameter named twice, no entry at all.
Entries ==
    {[entry |-> "main", funcs |-> <<Fun("main", ps, <<Ret(Var("p"))>>), G>>] :
        ps \in {<<<<"p">>>>, <<<<"p">>, <<"q">>>>}}
    \union {[entry |-> "main", funcs |-> <<G>>], [entry |-> "m", funcs |-> <<Fun("m", <<<<"p">>>>, <<Ret(Var("p"))>>), Fun("m", << >>, << >>), G>>],
            Program(<<Ret(CallOf("m", <<Num(1), Num(2)>>))>>, <<Fun("m", <<<<"p">>, <<"p">>>>, <<Ret(Var("p"))>>)>>),
            Program(<<BreakOut>>, << >>), Program(<<GoOn>>, << >>)}

\* Sources at a limit of the compiler and beyond it: loops, constants, names,
\* calls to be resolved, branches of a dynamic call, instructions.
Many(n, e(_)) == OpOn("StrConcat", [i \in 1..n |-> e(i)])
LocalNames == <<"a", "b", "c", "d", "p", "q", "r", "s", "t">>
Limits ==
    {Program(<<LoopOf(<<LoopOf(<<LoopOf(<<BreakOut>>), BreakOut>>), BreakOut>>)>>, << >>),
     Program(<<Dyn(<< >>, <<Str("f"), Num(1)>>)>>, <<G, H, Fun("f", <<<<"p">>>>, << >>)>>)}
    \union {Program(<<Many(n, LAMBDA i : Node("Lit", <<"number", i>>, << >>))>>, << >>) : n \in {11, 12, 13}}
    \union {Program(<<Many(n, LAMBDA i : CallOf("g", <<Num(0)>>))>>, <<G, H>>) : n \in {7, 8, 9}}
    \union {Program([i \in 1..n |-> LetIn(LocalNames[i], Num(i))], << >>) : n \in {8, 9}}
    \union {Program(<<Many(n, LAMBDA i : Num(i))>>, << >>) : n \in {97, 98}}

MCSources == Structured \union EachOp \union OtherExprs \union Entries \union Limits
MCCuttable(src) == Len(src.funcs) <= 2 /\ src.funcs[1].body[1].k = "Return"

TextOrder == <<"x", "y", "f", "g", "h", "k", "m", "main", "sys.process.args", "sys.dynamic.missingFunction",
               "sys.stdout.writeLine", "sys.console.readLine", "sys.fs.file.exists", "sys.time.nowUnixMs">>
MCTextNames == {""} \union ToSet(TextOrder)
MCTextBytes == [t \in MCTextNames |->
                  IF t = "" THEN << >> ELSE <<64 + SelectInSeq(TextOrder, LAMBDA o : o = t), 100>>]
=============================================================================
