--------------------------- MODULE SourceMeaning ---------------------------
(***************************************************************************)
(* What a source program means, on its tree: no instructions, no stack and *)
(* no slots.  An environment gives each visible name its value; every      *)
(* activation has its own.  The operations that neither choose a branch    *)
(* nor count are left as terms <<opcode, operand, ...>>: what matters here *)
(* is which operation gets which operands.                                 *)
(*                                                                         *)
(* Evaluating gives [ctl, vals, env]: ctl is "next", "return", "break" or   *)
(* "continue"; "unset" when a name without a value was read; "fuel" when   *)
(* more than the given number of loop rounds and calls was needed.         *)
(***************************************************************************)
EXTENDS Compiler

Outcome(ctl, vals, env) == [ctl |-> ctl, vals |-> vals, env |-> env]
Assign(env, name, val) == [m \in DOMAIN env \union {name} |-> IF m = name THEN val ELSE env[m]]

\* ADD_INT, LT_NUM and EQ count; the rest are terms.
Apply(op, args) ==
    CASE op = "EQ" -> <<"bool", args[1] = args[2]>>
      [] op = "LT_NUM" -> <<"bool", args[1][2] < args[2][2]>>
      [] op = "ADD_INT" -> <<"int", args[1][2] + args[2][2]>>
      [] OTHER -> <<op>> \o args

SysResult(target, args) == <<"sys", target>> \o args

FuncNamed(fs, name) == SelectInSeq(fs, LAMBDA f : f.name = name)

\* The function e calls, 0 if there is none it may call; a dynamic call has
\* its name as first argument.
Callee(e, fs, args) ==
    IF e.k = "Call" THEN FuncNamed(fs, e.n[1])
    ELSE SelectInSeq(fs, LAMBDA f : /\ Text(f.name) = args[1] /\ Len(f.params) = Len(e.c) - 1
                                    /\ e.n = << >> \/ Contains(e.n, f.name))

\* What a node without control flow makes of the values of its children.
Value(e, args) ==
    CASE e.k = "Lit" -> e.n
      [] e.k = "Call" -> SysResult(Text(SysTarget[e.n[1]]), args)
      [] e.k = "CallDynamic" -> SysResult(Text("sys.dynamic.missingFunction"), <<args[1]>>)
      [] e.k = "StrConcat" -> FoldLeft(LAMBDA a, b : <<"STR_CONCAT", a, b>>, Head(args), Tail(args))
      [] e.k = "Field" -> Apply("MAKE_FIELD_STRING", <<Text(e.n[1])>> \o args)
      [] e.k = "Map" -> Apply("MAKE_MAP", args)
      [] OTHER -> Apply(OpOf[e.k][3], args)

FirstOf(c) == SubSeq(c, 1, IF c = << >> THEN 0 ELSE 1)

\* The children whose values e needs before it does anything; a dynamic call
\* that finds no function does not evaluate its arguments.
Strict(e) ==
    CASE e.k \in {"If", "Let", "Return"} -> FirstOf(e.c)
      [] e.k \in {"Loop", "Block"} -> << >>
      [] e.k \in OpKinds -> SubSeq(e.c, 1, OpOf[e.k][2])
      [] e.k = "CallDynamic" -> FirstOf(e.c)
      [] OTHER -> e.c

Own(params, args) == [m \in ToSet(params) |-> args[SelectInSeq(params, LAMBDA p : p = m)]]
Within(r, env) == [r EXCEPT !.env = [m \in DOMAIN env |-> r.env[m]]]
LastValue(vals) == IF vals = << >> THEN Text("") ELSE Last(vals)

RECURSIVE Eval(_, _, _, _)

\* The nodes es one after the other.
Eval(es, env, fs, fuel) ==
    IF es = << >> THEN Outcome("next", << >>, env)
    ELSE LET e == Head(es)
             r == Eval(Strict(e), env, fs, fuel)
             sub == CASE r.ctl # "next" -> r
                      [] e.k = "Var" ->
                           IF e.n \in DOMAIN env THEN Outcome("next", <<env[e.n]>>, env) ELSE Outcome("unset", << >>, env)
                      [] e.k = "Let" -> Outcome("next", <<Text("")>>, Assign(r.env, e.n, r.vals[1]))
                      [] e.k = "Return" -> Outcome("return", IF r.vals = << >> THEN <<VoidValue>> ELSE r.vals, r.env)
                      [] e.k = "Break" -> Outcome("break", << >>, env)
                      [] e.k = "Continue" -> Outcome("continue", << >>, env)
                      [] e.k = "If" -> Eval(<<e.c[IF r.vals[1] = <<"bool", TRUE>> THEN 2 ELSE 3]>>, r.env, fs, fuel)
                      [] e.k = "Block" ->
                           LET b == Eval(e.c, env, fs, fuel)
                           IN  Within(IF b.ctl = "next" THEN [b EXCEPT !.vals = <<LastValue(@)>>] ELSE b, env)
                      [] e.k = "Loop" ->
                           IF fuel = 0 THEN Outcome("fuel", << >>, env)
                           ELSE LET b == Eval(SubSeq(e.c, 1, 1), env, fs, fuel)
                                IN  CASE b.ctl = "break" -> Outcome("next", <<Text("")>>, b.env)
                                      [] b.ctl \in {"next", "continue"} -> Eval(<<e>>, b.env, fs, fuel - 1)
                                      [] OTHER -> b
                      [] e.k \in {"Call", "CallDynamic"} /\ Callee(e, fs, r.vals) # 0 ->
                           LET f == fs[Callee(e, fs, r.vals)]
                               a == IF e.k = "Call" THEN r ELSE Eval(Tail(e.c), r.env, fs, fuel)
                               b == Eval(f.body, Own(f.params, a.vals), fs, fuel - 1)
                           IN  CASE a.ctl # "next" -> a
                                 [] fuel = 0 -> Outcome("fuel", << >>, env)
                                 [] b.ctl = "return" -> Outcome("next", b.vals, a.env)
                                 [] b.ctl = "next" -> Outcome("next", <<VoidValue>>, a.env)
                                 [] OTHER -> Outcome(b.ctl, << >>, a.env)
                      [] OTHER -> Outcome("next", <<Value(e, r.vals)>>, r.env)
             rest == Eval(Tail(es), sub.env, fs, fuel)
         IN  IF sub.ctl # "next" THEN sub ELSE [rest EXCEPT !.vals = IF rest.ctl = "next" THEN sub.vals \o @ ELSE @]

\* The result of a program: its entry called with the process arguments.
Meaning(src, fuel) ==
    LET fs == Collect(src.funcs)
        params == fs[FuncNamed(fs, src.entry)].params
        r == Eval(fs[FuncNamed(fs, src.entry)].body,
                  [m \in ToSet(params) |-> SysResult(Text("sys.process.args"), << >>)], fs, fuel)
    IN  [ctl |-> IF r.ctl = "return" THEN "next" ELSE r.ctl,
         val |-> IF r.ctl = "return" THEN r.vals[1] ELSE VoidValue]
=============================================================================
