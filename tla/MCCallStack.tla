---------------------------- MODULE MCCallStack ----------------------------
(***************************************************************************)
(* Instances of CallStack and Debugger for TLC.                            *)
(***************************************************************************)
EXTENDS Debugger

CONSTANTS
    FunctionLength,  \* bound: instructions of the function
    ShortLength      \* bound: instructions of a program over all opcodes

I(op, arg) == [op |-> op, arg |-> arg]

\* Main keeps one value, passes others, and calls a function at 5.
Main == << I("PUSH_INT", 1), I("PUSH_BOOL", 0), I("PUSH_INT", 0), I("CALL", 5), I("HALT", 0) >>

\* Every function over instructions that move operands, locals and frames: the
\* function calls itself, or what it has in its middle, in tail position or not.
CallCode == {I("PUSH_INT", 1), I("POP", 0), I("STORE_LOCAL", 0), I("STORE_LOCAL", 1), I("LOAD_LOCAL", 0),
             I("CALL", 5), I("CALL", 7), I("JUMP_IF_FALSE", 8), I("RET", 0)}
CallPrograms == {Main \o f : f \in [1..FunctionLength -> CallCode]}

\* Every short program over all opcodes, with targets and slots out of range too.
AnyCode == {I(op, 0) : op \in Opcodes}
             \union {I(op, arg) : op \in {"JUMP", "JUMP_IF_FALSE", "CALL", "STORE_LOCAL", "LOAD_LOCAL"}, arg \in {-1, 2, 9}}
AnyPrograms == UNION {[1..n -> AnyCode] : n \in 0..ShortLength}

\* Under the debugger: a recursion that keeps an operand and a local in each
\* frame, and a function that leaves by a tail call to one that fails.
Recursion == << I("PUSH_INT", 1), I("PUSH_BOOL", 0), I("CALL", 4), I("HALT", 0),
                I("STORE_LOCAL", 0), I("LOAD_LOCAL", 0), I("JUMP_IF_FALSE", 8), I("RET", 0),
                I("PUSH_INT", 0), I("PUSH_BOOL", 1), I("CALL", 4), I("POP", 0), I("RET", 0) >>
TailCall == << I("CALL", 2), I("HALT", 0), I("PUSH_INT", 1), I("CALL", 5), I("RET", 0),
               I("STORE_LOCAL", 0), I("CALL", 8), I("RET", 0), I("POP", 0) >>
MCDebugged == {Recursion, TailCall}
MCNames == { <<"function", "f">>, <<"node", "f">>, <<"node", "g">> }

MCPrograms == CallPrograms \union AnyPrograms \union MCDebugged
=============================================================================
