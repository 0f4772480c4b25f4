---------------------------- MODULE Activations ----------------------------
(***************************************************************************)
(* What calls promise a program: every activation of a function owns its   *)
(* operands and its locals.  A call takes the arguments from the caller's  *)
(* operands, a return gives the caller at most one, a call in tail         *)
(* position replaces the activation, and nothing else is visible from one  *)
(* activation in another.                                                  *)
(*                                                                         *)
(* The promise ends (acts is empty) when the machine has stopped with an   *)
(* error, or the program has used an operand of its caller or a local it   *)
(* never stored; it starts again with a reset.                             *)
(***************************************************************************)
EXTENDS Integers, Sequences

VARIABLES
    acts,   \* the activations, innermost last: [ret, operands, locals]
    pc,     \* instruction pointer
    instr   \* the instruction about to run: [op, arg]

vars == <<acts, pc, instr>>

Depth == Len(acts)
Top == acts[Depth]
Start == << [ret |-> 0, operands |-> << >>, locals |-> << >>] >>

Init == acts = Start /\ pc = 0

\* Only the innermost activation changes, and becomes a.
Becomes(a) == acts' = [acts EXCEPT ![Depth] = a]

Prefix(s, n) == SubSeq(s, 1, Len(s) - n)
Suffix(s, n) == SubSeq(s, Len(s) - n + 1, Len(s))

\* Any other opcode takes some operands and leaves at most one.
Compute ==
    /\ instr.op \notin {"LOAD_LOCAL", "STORE_LOCAL", "CALL", "RET"}
    /\ \E n \in 0..Len(Top.operands) :
         \/ Becomes([Top EXCEPT !.operands = Prefix(@, n)])
         \/ /\ acts' # << >> /\ Len(acts'[Len(acts')].operands) > 0
            /\ LET after == acts'[Len(acts')].operands
               IN  Becomes([Top EXCEPT !.operands = Append(Prefix(@, n), after[Len(after)])])

Load ==
    /\ instr.op = "LOAD_LOCAL" /\ instr.arg \in DOMAIN Top.locals
    /\ Becomes([Top EXCEPT !.operands = Append(@, Top.locals[instr.arg])])
    /\ pc' = pc + 1

Store ==
    /\ instr.op = "STORE_LOCAL" /\ Len(Top.operands) > 0
    /\ Becomes([Top EXCEPT !.operands = Prefix(@, 1),
                           !.locals = [i \in DOMAIN @ \union {instr.arg} |->
                                         IF i = instr.arg THEN Top.operands[Len(Top.operands)]
                                         ELSE Top.locals[i]]])
    /\ pc' = pc + 1

Entered(ret, n) == [ret |-> ret, operands |-> Suffix(Top.operands, n), locals |-> << >>]

Call ==
    /\ instr.op = "CALL"
    /\ \E n \in 0..Len(Top.operands) :
         acts' = Append([acts EXCEPT ![Depth].operands = Prefix(@, n)], Entered(pc + 1, n))
    /\ pc' = instr.arg

TailCall ==
    /\ instr.op = "CALL" /\ Depth > 1
    /\ \E n \in 0..Len(Top.operands) : Becomes(Entered(Top.ret, n))
    /\ pc' = instr.arg

Return ==
    /\ instr.op = "RET" /\ Depth > 1 /\ Len(Top.operands) <= 1
    /\ acts' = [SubSeq(acts, 1, Depth - 1) EXCEPT ![Depth - 1].operands = @ \o Top.operands]
    /\ pc' = Top.ret

\* RET of the outermost activation stops the program.
Finish == instr.op = "RET" /\ Depth = 1 /\ UNCHANGED acts

Lose == acts' = << >>
Restart == acts' = Start /\ pc' = 0

Next ==
    \/ acts # << >> /\ (Compute \/ Load \/ Store \/ Call \/ TailCall \/ Return \/ Finish)
    \/ Lose \/ Restart

Spec == Init /\ [][Next]_vars
=============================================================================
