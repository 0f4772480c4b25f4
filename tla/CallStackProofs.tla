-------------------------- MODULE CallStackProofs --------------------------
(***************************************************************************)
(* Proofs about CallStack, for every program and all limits.               *)
(***************************************************************************)
EXTENDS CallStack, TLAPS

\* Prover time limits, in seconds.
USE SMTT(30), ZenonT(30)

\* The growth loops end between the old limit and the capacity, and reach what
\* was needed whenever the capacity allows it.
LEMMA GrownLimitBounds ==
    ASSUME NEW limit \in Nat, NEW needed \in Nat, NEW step \in Nat \ {0}, NEW capacity \in Nat,
           limit <= capacity
    PROVE  /\ GrownLimit(limit, needed, step, capacity) \in Nat
           /\ limit <= GrownLimit(limit, needed, step, capacity)
           /\ GrownLimit(limit, needed, step, capacity) <= capacity
           /\ needed <= capacity => needed <= GrownLimit(limit, needed, step, capacity)
           /\ needed <= limit => GrownLimit(limit, needed, step, capacity) = limit
<1>1. CASE needed <= limit
  BY <1>1 DEF GrownLimit
<1>2. CASE needed > limit
  <2> DEFINE d == needed - limit
             q == (d + step - 1) \div step
             grown == limit + step * q
  <2>1. d \in Nat /\ d > 0 /\ d + step - 1 \in Nat
    BY <1>2
  <2>2. q \in Nat
    BY <2>1
  <2>3. d + step - 1 = step * q + ((d + step - 1) % step) /\ (d + step - 1) % step \in 0..(step - 1)
    BY <2>1
  <2>4. step * q \in Nat
    BY <2>2
  <2>5. step * q >= d
    BY <2>1, <2>3, <2>4
  <2>6. GrownLimit(limit, needed, step, capacity) = IF grown > capacity THEN capacity ELSE grown
    BY <1>2 DEF GrownLimit
  <2> HIDE DEF q
  <2>7. grown \in Nat /\ grown >= needed
    BY <2>1, <2>4, <2>5
  <2> HIDE DEF grown
  <2>. QED
    BY <1>2, <2>6, <2>7
<1>. QED
  BY <1>1, <1>2
-----------------------------------------------------------------------------
(***************************************************************************)
(* The inductive invariant: the types part by part, the nesting of the     *)
(* frames, the stack's reach, and the errors seen so far.                  *)
(***************************************************************************)
ControlOK ==
    /\ program \in Programs
    /\ ip \in 0..Count
    /\ status \in {"ready", "running", "halted", "error"} /\ error \in Errors

StackOK ==
    /\ stack \in Seq(Values) /\ stackLimit \in Nat
    /\ Len(stack) <= stackLimit /\ stackLimit <= StackCapacity

FramesOK ==
    /\ frames \in Seq(Frames) /\ frameLimit \in Nat
    /\ Len(frames) <= frameLimit /\ frameLimit <= FrameCapacity
    /\ own \in Seq(SUBSET Nat) /\ Len(own) = Len(frames) + 1

LocalsOK ==
    /\ locals \in [Slots -> Values] /\ localsCount \in Nat /\ localsLimit \in Nat
    /\ localsCount <= localsLimit /\ localsLimit <= LocalsCapacity

Inv ==
    /\ ControlOK /\ StackOK /\ FramesOK /\ LocalsOK /\ wild \in BOOLEAN
    /\ FramesNested /\ FramesOnStack /\ ChecksSilent

\* The parts together are the type invariant.
LEMMA PartsAreTypes == TypeOK <=> ControlOK /\ StackOK /\ FramesOK /\ LocalsOK /\ wild \in BOOLEAN
BY DEF TypeOK, ControlOK, StackOK, FramesOK, LocalsOK

\* A program is a sequence of instructions with an integer operand each.
LEMMA ProgramFacts ==
    ASSUME ControlOK
    PROVE  /\ program \in Seq(Instructions) /\ Count \in Nat /\ ip \in Nat /\ ip <= Count
           /\ ip < Count => Instr \in Instructions /\ Instr.arg \in Int
<1>1. program \in Seq(Instructions) /\ Count \in Nat
  BY CallStackAssumption DEF ControlOK, Count
<1>2. ip < Count => Instr \in Instructions
  BY <1>1 DEF ControlOK, Instr, Count
<1>. QED
  BY <1>1, <1>2 DEF ControlOK, Instructions

\* The current frame's bases are numbers, and its locals lie within those in use.
LEMMA BaseFacts ==
    ASSUME FramesOK
    PROVE  /\ FrameBase \in Nat /\ LocalsBase \in Nat
           /\ frames # << >> => Frame \in Frames /\ Len(frames) \in Nat \ {0}
                                /\ FrameBase = Frame.base /\ LocalsBase = Frame.localsBase
           /\ LocalsOK /\ FramesNested => LocalsBase <= localsCount
<1>1. frames # << >> => Frame \in Frames /\ Len(frames) \in Nat \ {0}
  BY DEF FramesOK, Frame
<1>2. frames # << >> => FrameBase = Frame.base /\ LocalsBase = Frame.localsBase
  BY DEF FrameBase, LocalsBase
<1>3. FrameBase \in Nat /\ LocalsBase \in Nat
  BY <1>1, <1>2 DEF FrameBase, LocalsBase, Frames
<1>4. ASSUME LocalsOK, FramesNested PROVE LocalsBase <= localsCount
  <2>1. CASE frames = << >>
    BY <1>4, <2>1 DEF LocalsBase, LocalsOK
  <2>2. CASE frames # << >>
    <3>1. Len(frames) \in 1..Len(frames)
      BY <1>1, <2>2
    <3>. QED
      BY <1>4, <3>1, <2>2 DEF LocalsBase, Frame, FramesNested
  <2>. QED
    BY <2>1, <2>2
<1>. QED
  BY <1>1, <1>2, <1>3, <1>4

\* The checks of the state can only fail when the stack is below the frame.
LEMMA StateErrorFacts ==
    ASSUME Inv, NEW s \in Seq(Values), Len(s) <= Len(stack)
    PROVE  /\ StateError(s) \in {"none", "frame"}
           /\ StateError(s) = "frame" <=> FrameBase > Len(s)
<1>1. Len(s) <= stackLimit /\ Len(frames) <= frameLimit /\ localsCount <= localsLimit
  BY DEF Inv, StackOK, FramesOK, LocalsOK
<1>2. LocalsBase <= localsCount /\ FrameBase \in Nat /\ LocalsBase \in Nat
  BY BaseFacts DEF Inv
<1>3. /\ stackLimit \in Nat /\ frameLimit \in Nat /\ localsLimit \in Nat /\ localsCount \in Nat
      /\ Len(frames) \in Nat /\ Len(s) \in Nat
  BY DEF Inv, StackOK, FramesOK, LocalsOK
<1>. QED
  BY <1>1, <1>2, <1>3 DEF StateError
-----------------------------------------------------------------------------
(***************************************************************************)
(* What the building blocks of the steps do.                               *)
(***************************************************************************)
\* Going on to an instruction, or to the end, is no failure.
LEMMA GotoFacts ==
    ASSUME ControlOK, UNCHANGED program, NEW t \in 0..Count, Goto(t)
    PROVE  ControlOK' /\ error' = error
BY DEF ControlOK, Goto, Count

\* A failure stops the program with its reason.
LEMMA FailFacts ==
    ASSUME ControlOK, UNCHANGED program, NEW why \in Errors, Fail(why)
    PROVE  ControlOK' /\ status' = "error" /\ error' = why
<1>1. Count \in Nat
  BY ProgramFacts
<1>. QED
  BY <1>1 DEF ControlOK, Fail, Count

\* The frames stay in order while they, and the locals below them, stay.
LEMMA SameFrames ==
    ASSUME Inv, UNCHANGED <<program, frameVars, own>>, localsCount' \in Nat, localsCount <= localsCount'
    PROVE  FramesOK' /\ FramesNested' /\ FrameBase' = FrameBase
<1>1. FramesOK' /\ FrameBase' = FrameBase
  BY DEF Inv, FramesOK, frameVars, FrameBase, Frame
<1>2. \A i \in 1..Len(frames) : frames[i].localsBase \in Nat
  <2>1. frames \in Seq(Frames)
    BY DEF Inv, FramesOK
  <2>2. \A i \in 1..Len(frames) : frames[i] \in Frames
    BY <2>1
  <2>. QED
    BY <2>2 DEF Frames
<1>3. FramesNested'
  BY <1>2 DEF Inv, FramesNested, frameVars, Count, LocalsOK
<1>. QED
  BY <1>1, <1>3

\* A refused instruction changes nothing but the status.
LEMMA RefuseFacts ==
    ASSUME Inv, UNCHANGED program, NEW why \in Errors \ Internal, why = "frame" => wild, Refuse(why)
    PROVE  Inv'
<1>1. ControlOK' /\ status' = "error" /\ error' = why
  BY FailFacts DEF Inv, Refuse
<1>2. UNCHANGED memory
  BY DEF Refuse
<1>3. FramesOK' /\ FramesNested'
  BY <1>2, SameFrames DEF Inv, LocalsOK, memory, localVars
<1>4. StackOK' /\ LocalsOK' /\ wild' \in BOOLEAN
  BY <1>2 DEF Inv, memory, stackVars, localVars, StackOK, LocalsOK
<1>5. FramesOnStack'
  BY <1>1 DEF FramesOnStack
<1>6. ChecksSilent'
  BY <1>1, <1>2 DEF ChecksSilent, Internal, memory
<1>. QED
  BY <1>1, <1>3, <1>4, <1>5, <1>6 DEF Inv

\* A push keeps within the limit, which keeps within the capacity.
LEMMA PushFacts ==
    ASSUME ControlOK, StackOK, UNCHANGED program, ip < Count,
           NEW s \in Seq(Values), Len(s) <= Len(stack), NEW v \in Values, Push(s, v)
    PROVE  /\ ControlOK' /\ StackOK' /\ Len(stack') >= Len(s)
           /\ error' = error \/ error' = "stack_overflow"
<1> DEFINE grown == GrownLimit(stackLimit, Len(s) + 1, StackStep, StackCapacity)
<1>1. grown \in Nat /\ stackLimit <= grown /\ grown <= StackCapacity
  <2>1. Len(s) + 1 \in Nat
    OBVIOUS
  <2>2. stackLimit \in Nat /\ stackLimit <= StackCapacity
    BY DEF StackOK
  <2>. QED
    BY Zenon, <2>1, <2>2, GrownLimitBounds, CallStackAssumption
<1> HIDE DEF grown
<1>2. stackLimit' = grown
  BY DEF Push, grown
<1>3. CASE Len(s) + 1 <= grown
  <2>1. stack' = Append(s, v) /\ Goto(ip + 1)
    BY <1>2, <1>3 DEF Push
  <2>2. ControlOK' /\ error' = error
    BY <2>1, ProgramFacts, GotoFacts
  <2>. QED
    BY <1>1, <1>2, <1>3, <2>1, <2>2 DEF StackOK
<1>4. CASE ~(Len(s) + 1 <= grown)
  <2>1. stack' = s /\ Fail("stack_overflow")
    BY <1>2, <1>4 DEF Push
  <2>2. ControlOK' /\ error' = "stack_overflow"
    BY <2>1, FailFacts DEF Errors
  <2>3. Len(stack') = Len(s) /\ Len(s) \in Nat /\ Len(stack) \in Nat /\ Len(s) <= grown
    BY <1>1, <2>1 DEF StackOK
  <2>. QED
    BY <1>1, <1>2, <2>1, <2>2, <2>3 DEF StackOK
<1>. QED
  BY <1>3, <1>4

\* Taking operands from the stack leaves a shorter one.
LEMMA RestFacts ==
    ASSUME StackOK, NEW n \in Nat, n <= Len(stack)
    PROVE  /\ Rest(n) \in Seq(Values) /\ Len(Rest(n)) = Len(stack) - n
           /\ \A k \in 0..(n - 1) : Operand(k) \in Values
BY DEF StackOK, Rest, Operand

\* The history variable notes every operand taken from below the frame.
LEMMA TakesFacts ==
    ASSUME wild \in BOOLEAN, NEW n \in Nat, Takes(n)
    PROVE  /\ wild' \in BOOLEAN /\ (wild => wild')
           /\ ~wild' => ~wild /\ ~(Len(stack) - n < FrameBase)
<1>1. wild' <=> (wild \/ Len(stack) - n < FrameBase)
  BY Zenon DEF Takes
<1>2. wild' \in BOOLEAN
  BY Zenon DEF Takes
<1>. QED
  BY <1>1, <1>2
-----------------------------------------------------------------------------
(***************************************************************************)
(* Every action preserves the invariant.                                   *)
(***************************************************************************)
\* A step that leaves frames and locals alone only has to mind the stack.
LEMMA QuietStep ==
    ASSUME Inv, UNCHANGED <<program, frameVars, localVars, own>>,
           ControlOK', StackOK', wild' \in BOOLEAN, wild => wild',
           ~wild' /\ status' # "error" => FrameBase <= Len(stack'),
           error' = error \/ error' \in Errors \ (Internal \union {"frame"})
    PROVE  Inv'
<1>1. FramesOK' /\ FramesNested' /\ FrameBase' = FrameBase
  BY SameFrames DEF Inv, LocalsOK, localVars
<1>2. LocalsOK'
  BY DEF Inv, LocalsOK, localVars
<1>3. FramesOnStack'
  BY <1>1 DEF FramesOnStack
<1>4. ChecksSilent'
  BY DEF Inv, ChecksSilent, Internal
<1>. QED
  BY <1>1, <1>2, <1>3, <1>4 DEF Inv

\* A control transfer that leaves the memory alone.
LEMMA MoveStep ==
    ASSUME Inv, status # "error", UNCHANGED <<program, memory>>, ControlOK',
           error' = error \/ error' \in Errors \ (Internal \union {"frame"})
    PROVE  Inv'
<1>1. UNCHANGED <<frameVars, localVars, own>> /\ stack' = stack /\ stackLimit' = stackLimit /\ wild' = wild
  BY DEF memory, stackVars
<1>2. StackOK' /\ wild' \in BOOLEAN /\ (wild => wild')
  BY <1>1 DEF Inv, StackOK
<1>3. ~wild' => FrameBase <= Len(stack')
  BY <1>1 DEF Inv, FramesOnStack
<1>. QED
  BY <1>1, <1>2, <1>3, QuietStep

\* What remains when n operands are taken, for the steps below.
LEMMA Taking ==
    ASSUME Inv, NEW n \in Nat, n <= Len(stack), Takes(n)
    PROVE  /\ Rest(n) \in Seq(Values) /\ Len(Rest(n)) = Len(stack) - n /\ Len(stack) \in Nat
           /\ Len(Rest(n)) <= Len(stack)
           /\ wild' \in BOOLEAN /\ (wild => wild')
           /\ ~wild' => FrameBase <= Len(Rest(n))
<1>1. /\ Rest(n) \in Seq(Values) /\ Len(Rest(n)) = Len(stack) - n /\ Len(stack) \in Nat
      /\ Len(Rest(n)) <= Len(stack)
  BY RestFacts DEF Inv, StackOK
<1>2. /\ wild' \in BOOLEAN /\ (wild => wild')
      /\ ~wild' => ~(Len(stack) - n < FrameBase)
  BY TakesFacts DEF Inv
<1>3. FrameBase \in Nat
  BY BaseFacts DEF Inv
<1>. QED
  BY <1>1, <1>2, <1>3

\* A shorter stack keeps within the limit.
LEMMA ShorterStack ==
    ASSUME StackOK, NEW n \in Nat, n <= Len(stack), stack' = Rest(n), stackLimit' = stackLimit
    PROVE  StackOK'
<1>1. Rest(n) \in Seq(Values) /\ Len(Rest(n)) = Len(stack) - n
  BY RestFacts
<1>. QED
  BY <1>1 DEF StackOK

\* Changing what the history notes of the running activation.
LEMMA OwnUpdate ==
    ASSUME own \in Seq(SUBSET Nat), NEW S \in SUBSET Nat
    PROVE  /\ [own EXCEPT ![Len(own)] = S] \in Seq(SUBSET Nat)
           /\ Len([own EXCEPT ![Len(own)] = S]) = Len(own)
<1> DEFINE updated == [own EXCEPT ![Len(own)] = S]
<1>1. own \in [1..Len(own) -> SUBSET Nat] /\ Len(own) \in Nat
  OBVIOUS
<1>2. updated \in [1..Len(own) -> SUBSET Nat]
  BY Zenon, <1>1
<1> HIDE DEF updated
<1>3. updated \in Seq(SUBSET Nat) /\ Len(updated) = Len(own)
  BY <1>1, <1>2
<1>. QED
  BY <1>3 DEF updated

\* A call is refused for what the program did, and when it is not, its
\* arguments are operands of the caller.
LEMMA CallErrorFacts ==
    ASSUME Inv, NEW target, NEW argc
    PROVE  /\ CallError(target, argc) \in {"none", "arguments", "layout", "crosses"}
           /\ CallError(target, argc) = "none" =>
                argc \in Nat /\ argc <= Len(stack) /\ FrameBase <= Len(stack) - argc
<1>1. stack \in Seq(Values) /\ Len(stack) \in Nat /\ Len(stack) <= Len(stack)
  BY DEF Inv, StackOK
<1>2. FrameBase \in Nat
  BY BaseFacts DEF Inv
<1>3. StateError(stack) \in {"none", "frame"} /\ (StateError(stack) = "frame" => FrameBase > Len(stack))
  BY <1>1, StateErrorFacts
<1>4. CASE argc \notin 0..Len(stack)
  BY <1>1, <1>4 DEF CallError
<1>5. CASE argc \in 0..Len(stack) /\ ~LayoutValid(target, argc)
  BY <1>1, <1>5 DEF CallError
<1>6. CASE argc \in 0..Len(stack) /\ LayoutValid(target, argc) /\ Len(stack) - argc < FrameBase
  BY <1>1, <1>6 DEF CallError
<1>7. CASE argc \in 0..Len(stack) /\ LayoutValid(target, argc) /\ ~(Len(stack) - argc < FrameBase)
  <2>1. argc \in Nat /\ argc <= Len(stack) /\ FrameBase <= Len(stack) - argc /\ ~(FrameBase > Len(stack))
    BY <1>1, <1>2, <1>7
  <2>2. StateError(stack) = "none" /\ ~(FrameBase > Len(stack) - argc)
    <3>1. StateError(stack) = "none"
      BY <1>3, <2>1, Zenon
    <3>2. ~(FrameBase > Len(stack) - argc)
      BY <1>1, <1>2, <2>1
    <3>. QED
      BY <3>1, <3>2
  <2>3. CallError(target, argc) = "none"
    BY <1>7, <2>2, Zenon DEF CallError
  <2>. QED
    BY <2>1, <2>3
<1>. QED
  BY <1>4, <1>5, <1>6, <1>7

\* A frame is a record of numbers.
LEMMA FrameElements ==
    ASSUME FramesOK
    PROVE  \A i \in 1..Len(frames) :
               frames[i] \in Frames /\ frames[i].base \in Nat /\ frames[i].localsBase \in Nat /\ frames[i].ret \in Nat
<1>1. frames \in Seq(Frames)
  BY DEF FramesOK
<1>2. \A i \in 1..Len(frames) : frames[i] \in Frames
  BY <1>1
<1>. QED
  BY <1>2 DEF Frames

\* What is left of a sequence without its last element.
LEMMA FrontFacts ==
    ASSUME NEW S, NEW s \in Seq(S), s # << >>
    PROVE  /\ SubSeq(s, 1, Len(s) - 1) \in Seq(S) /\ Len(SubSeq(s, 1, Len(s) - 1)) = Len(s) - 1
           /\ \A i \in 1..(Len(s) - 1) : SubSeq(s, 1, Len(s) - 1)[i] = s[i]
           /\ Len(s) \in Nat /\ (Len(s) = 1 \/ 2 <= Len(s))
<1>1. Len(s) \in Nat /\ Len(s) # 0
  OBVIOUS
<1>2. Len(s) - 1 \in 0..Len(s) /\ (Len(s) = 1 \/ 2 <= Len(s))
  <2> DEFINE n == Len(s)
  <2>1. n \in Nat /\ n # 0
    BY <1>1
  <2> HIDE DEF n
  <2>2. n - 1 \in 0..n /\ (n = 1 \/ 2 <= n)
    BY <2>1
  <2>. QED
    BY <2>2 DEF n
<1>3. \A n \in 0..Len(s) : /\ SubSeq(s, 1, n) \in Seq(S) /\ Len(SubSeq(s, 1, n)) = n
                           /\ \A i \in 1..n : SubSeq(s, 1, n)[i] = s[i]
  OBVIOUS
<1>. QED
  BY <1>1, <1>2, <1>3

\* Popping a frame leaves the others as they were.
LEMMA PopFrameFacts ==
    ASSUME Inv, UNCHANGED <<program, frameLimit>>, frames # << >>,
           frames' = SubSeq(frames, 1, Len(frames) - 1), own' = SubSeq(own, 1, Len(own) - 1),
           localsCount' \in Nat, Frame.localsBase <= localsCount'
    PROVE  FramesOK' /\ FramesNested' /\ FrameBase' \in Nat /\ FrameBase' <= Frame.base
<1>0. frames \in Seq(Frames) /\ own \in Seq(SUBSET Nat)
  BY DEF Inv, FramesOK
<1>1. /\ frames \in Seq(Frames) /\ Len(frames) \in Nat /\ 1 <= Len(frames) /\ frameLimit \in Nat
      /\ Len(frames) <= frameLimit /\ frameLimit <= FrameCapacity
      /\ own \in Seq(SUBSET Nat) /\ Len(own) = Len(frames) + 1
  <2>1. Len(frames) \in Nat /\ 1 <= Len(frames)
    BY <1>0
  <2>. QED
    BY <1>0, <2>1 DEF Inv, FramesOK
<1>2. /\ frames' \in Seq(Frames) /\ Len(frames') = Len(frames) - 1
      /\ \A i \in 1..(Len(frames) - 1) : frames'[i] = frames[i]
  BY <1>0, FrontFacts
<1>3. own' \in Seq(SUBSET Nat) /\ Len(own') = Len(own) - 1
  BY <1>1
<1>4. FramesOK'
  BY <1>1, <1>2, <1>3 DEF FramesOK
<1>5. Frame = frames[Len(frames)] /\ Len(frames) \in 1..Len(frames)
  BY <1>1 DEF Frame
<1>6. \A i \in 1..Len(frames) : frames[i].localsBase <= Frame.localsBase /\ frames[i].base <= Frame.base
  BY SMTT(30), <1>1, <1>5 DEF Inv, FramesNested
<1>7. FramesNested'
  <2>1. \A i, j \in 1..Len(frames') : i <= j => /\ frames'[i].base <= frames'[j].base
                                               /\ frames'[i].localsBase <= frames'[j].localsBase
    <3> SUFFICES ASSUME NEW i \in 1..Len(frames'), NEW j \in 1..Len(frames'), i <= j
                 PROVE  /\ frames'[i].base <= frames'[j].base
                        /\ frames'[i].localsBase <= frames'[j].localsBase
      OBVIOUS
    <3>1. /\ i \in 1..Len(frames) /\ frames'[i] = frames[i]
          /\ j \in 1..Len(frames) /\ frames'[j] = frames[j]
      BY SMTT(30), <1>1, <1>2
    <3>. QED
      BY <3>1 DEF Inv, FramesNested
  <2>2. \A i \in 1..Len(frames') : frames'[i].ret <= Count'
    BY <1>1, <1>2 DEF Inv, FramesNested, Count
  <2>3. \A i \in 1..Len(frames') : frames'[i].localsBase <= localsCount'
    <3> SUFFICES ASSUME NEW i \in 1..Len(frames') PROVE frames'[i].localsBase <= localsCount'
      OBVIOUS
    <3>1. i \in 1..Len(frames) /\ frames'[i] = frames[i]
      BY SMTT(30), <1>1, <1>2
    <3>2. frames[i].localsBase \in Nat /\ Frame.localsBase \in Nat
      BY <1>5, <3>1, FrameElements DEF Inv
    <3>3. frames[i].localsBase <= Frame.localsBase
      BY <1>6, <3>1
    <3>. QED
      BY SMTT(30), <3>1, <3>2, <3>3
  <2>. QED
    BY <2>1, <2>2, <2>3 DEF FramesNested
<1>8. FrameBase' \in Nat /\ FrameBase' <= Frame.base
  <2>1. Frame.base \in Nat
    BY <1>5, FrameElements DEF Inv
  <2>2. CASE Len(frames) = 1
    BY SMTT(30), <1>1, <1>2, <2>1, <2>2 DEF FrameBase
  <2>3. CASE Len(frames) # 1
    <3>1. /\ Len(frames) - 1 \in 1..Len(frames) /\ frames' # << >>
          /\ frames'[Len(frames')] = frames[Len(frames) - 1]
      <4>1. Len(frames) - 1 \in 1..Len(frames) /\ Len(frames) - 1 \in 1..(Len(frames) - 1)
        <5>1. 2 <= Len(frames)
          BY <1>0, <2>3, FrontFacts
        <5>. QED
          BY <1>1, <5>1
      <4>2. frames' # << >>
        <5>1. Len(frames') # 0
          BY <1>1, <1>2, <2>3
        <5>. QED
          BY Zenon, <5>1
      <4>. QED
        BY <1>2, <4>1, <4>2
    <3>2. FrameBase' = frames[Len(frames) - 1].base
      BY <3>1 DEF FrameBase, Frame
    <3>. QED
      BY SMTT(30), <1>6, <3>1, <3>2, FrameElements DEF Inv
  <2>. QED
    BY <2>2, <2>3
<1>. QED
  BY <1>4, <1>7, <1>8

-----------------------------------------------------------------------------
\* The initial states satisfy the invariant.
LEMMA InitInv == Init => Inv
<1> SUFFICES ASSUME Init PROVE Inv
  OBVIOUS
<1>1. /\ program \in Programs /\ ip = 0 /\ status = "ready" /\ error = "none"
      /\ stack = << >> /\ stackLimit = StackInitial
  BY Zenon DEF Init, Fresh
<1>2. /\ frames = << >> /\ frameLimit = FrameInitial /\ own = << {} >>
      /\ locals = [i \in Slots |-> Void] /\ localsCount = 0 /\ localsLimit = LocalsInitial
  BY Zenon DEF Init, Fresh
<1>3. wild \in BOOLEAN
  BY Zenon DEF Init, Fresh
<1>4. ControlOK
  <2>1. Count \in Nat
    BY <1>1, CallStackAssumption DEF Count
  <2>. QED
    BY <1>1, <2>1 DEF ControlOK, Errors
<1>5. StackOK
  BY <1>1, CallStackAssumption DEF StackOK
<1>6. FramesOK
  <2>1. << {} >> \in Seq(SUBSET Nat) /\ Len(<< {} >>) = 1 /\ << >> \in Seq(Frames) /\ Len(<< >>) = 0
    OBVIOUS
  <2>. QED
    BY <1>2, <2>1, CallStackAssumption DEF FramesOK
<1>7. LocalsOK
  <2>1. Void \in Values
    BY DEF Void, Values
  <2>. QED
    BY <1>2, <2>1, CallStackAssumption DEF LocalsOK
<1>8. FramesNested /\ FramesOnStack /\ ChecksSilent
  BY <1>1, <1>2 DEF FramesNested, FramesOnStack, FrameBase, ChecksSilent, Internal
<1>. QED
  BY <1>3, <1>4, <1>5, <1>6, <1>7, <1>8 DEF Inv

\* Every step keeps it.
LEMMA NextInv == Inv /\ [Next]_vars => Inv'

\* Halting and the steps that only move the instruction pointer.
<1>ControlSteps. ASSUME Inv, StepAtEnd \/ Nop \/ Halt \/ Stub \/ Jump
                 PROVE  Inv'
  <2> USE <1>ControlSteps
  <2> USE DEF Runs
  <2>0. ControlOK
    BY DEF Inv
  <2>1. CASE StepAtEnd
    <3>1. ControlOK' /\ error' = error /\ status # "error"
      BY <2>0, <2>1 DEF StepAtEnd, ControlOK, Count
    <3>. QED
      BY <2>1, <3>1, MoveStep DEF StepAtEnd
  <2>2. CASE Nop
    <3>1. ip + 1 \in 0..Count
      BY <2>0, <2>2, ProgramFacts DEF Nop
    <3>2. ControlOK' /\ error' = error
      BY <2>0, <2>2, <3>1, GotoFacts DEF Nop
    <3>. QED
      BY <2>2, <3>2, MoveStep DEF Nop
  <2>3. CASE Halt
    <3>1. ControlOK' /\ error' = error /\ status # "error"
      BY <2>0, <2>3, ProgramFacts DEF Halt, Halted, ControlOK, Count
    <3>. QED
      BY <2>3, <3>1, MoveStep DEF Halt, Halted
  <2>4. CASE Stub
    <3>1. ControlOK' /\ error' = "opcode" /\ status # "error"
      BY <2>0, <2>4 DEF Stub, ControlOK, Count, Errors
    <3>. QED
      BY <2>4, <3>1, MoveStep DEF Stub, Errors, Internal
  <2>5. CASE Jump
    <3>1. CASE Instr.arg \in 0..Count
      <4>1. ControlOK' /\ error' = error
        BY <2>0, <2>5, <3>1, GotoFacts DEF Jump
      <4>. QED
        BY <2>5, <3>1, <4>1, MoveStep DEF Jump
    <3>2. CASE Instr.arg \notin 0..Count
      BY <2>5, <3>2, RefuseFacts DEF Jump, Errors, Internal
    <3>. QED
      BY <3>1, <3>2
  <2>. QED
    BY <2>1, <2>2, <2>3, <2>4, <2>5

\* An unknown opcode is refused.
<1>UnknownStep. ASSUME Inv, Unknown
                PROVE  Inv'
  BY <1>UnknownStep, RefuseFacts DEF Unknown, Runs, Errors, Internal

\* Pushing a constant.
<1>PushConstantStep. ASSUME Inv, PushConstant
                     PROVE  Inv'
  <2> USE <1>PushConstantStep
  <2>1. PICK v \in Values : Push(stack, v)
    <3>1. Instr.arg \in Int
      BY ProgramFacts DEF Inv, PushConstant, Runs
    <3>2. IntValue(Instr.arg) \in Values /\ BoolValue(Instr.arg # 0) \in Values
      BY <3>1 DEF IntValue, BoolValue, Values
    <3>. QED
      BY <3>2 DEF PushConstant
  <2>2. /\ ControlOK /\ StackOK /\ UNCHANGED <<program, frameVars, localVars, own>> /\ wild' = wild
        /\ ip < Count /\ stack \in Seq(Values) /\ Len(stack) <= Len(stack) /\ status # "error"
    BY DEF Inv, StackOK, PushConstant, Runs
  <2>3. /\ ControlOK' /\ StackOK' /\ Len(stack') >= Len(stack)
        /\ error' = error \/ error' = "stack_overflow"
    BY <2>1, <2>2, PushFacts
  <2>4. ~wild' => FrameBase <= Len(stack')
    <3>1. FrameBase \in Nat /\ Len(stack) \in Nat /\ Len(stack') \in Nat
      BY <2>2, <2>3, BaseFacts DEF Inv, StackOK
    <3>. QED
      BY <2>2, <2>3, <3>1 DEF Inv, FramesOnStack
  <2>5. wild' \in BOOLEAN /\ (wild => wild')
    BY <2>2 DEF Inv
  <2>. QED
    BY <2>2, <2>3, <2>4, <2>5, QuietStep DEF Errors, Internal

\* Dropping an operand.
<1>PopStep. ASSUME Inv, Pop
            PROVE  Inv'
  <2> USE <1>PopStep
  <2>0. ControlOK /\ StackOK /\ UNCHANGED program /\ ip < Count
    BY DEF Inv, Pop, Runs
  <2>1. CASE stack = << >>
    BY <2>0, <2>1, RefuseFacts DEF Pop, Errors, Internal
  <2>2. CASE stack # << >>
    <3>1. 1 <= Len(stack)
      BY <2>0, <2>2 DEF StackOK
    <3>2. stack' = Rest(1) /\ Takes(1) /\ Goto(ip + 1) /\ UNCHANGED <<stackLimit, frameVars, localVars, own>>
      BY <2>2 DEF Pop
    <3>3. ControlOK' /\ error' = error
      BY <2>0, <3>2, ProgramFacts, GotoFacts
    <3>4. StackOK'
      BY <2>0, <3>1, <3>2, ShorterStack
    <3>5. wild' \in BOOLEAN /\ (wild => wild') /\ (~wild' => FrameBase <= Len(stack'))
      BY <3>1, <3>2, Taking
    <3>. QED
      BY <2>0, <3>2, <3>3, <3>4, <3>5, QuietStep
  <2>. QED
    BY <2>1, <2>2

\* Taking two numbers and pushing one: with too few operands what there was is
\* gone, and the program with it.
<1>ArithmeticStep. ASSUME Inv, Arithmetic
                   PROVE  Inv'
  <2> USE <1>ArithmeticStep
  <2>0. /\ ControlOK /\ StackOK /\ UNCHANGED program /\ ip < Count
        /\ UNCHANGED <<frameVars, localVars, own>> /\ Len(stack) \in Nat
    BY DEF Inv, Arithmetic, Runs, StackOK
  <2>1. CASE Len(stack) < 2
    <3>1. /\ stack' = << >> /\ stackLimit' = stackLimit /\ Fail("stack_underflow")
          /\ wild' = (wild \/ (Len(stack) = 1 /\ FrameBase > 0))
      BY <2>1 DEF Arithmetic
    <3>2. ControlOK' /\ status' = "error" /\ error' = "stack_underflow"
      BY <2>0, <3>1, FailFacts DEF Errors
    <3>3. wild' \in BOOLEAN
      BY <3>1, Zenon
    <3>4. wild => wild'
      BY Zenon, <3>1
    <3>5. StackOK'
      BY <2>0, <3>1 DEF StackOK
    <3>. QED
      BY <2>0, <3>2, <3>3, <3>4, <3>5, QuietStep DEF Errors, Internal
  <2>2. CASE ~(Len(stack) < 2)
    <3>1. 2 <= Len(stack) /\ Takes(2)
      BY <2>0, <2>2 DEF Arithmetic
    <3>2. /\ Rest(2) \in Seq(Values) /\ Len(Rest(2)) <= Len(stack) /\ Len(Rest(2)) \in Nat
          /\ wild' \in BOOLEAN /\ (wild => wild') /\ (~wild' => FrameBase <= Len(Rest(2)))
      BY <3>1, Taking
    <3>3. CASE {Operand(0).type, Operand(1).type} # {"int"}
      <4>1. stack' = Rest(2) /\ Fail("type") /\ stackLimit' = stackLimit
        BY <2>2, <3>3 DEF Arithmetic
      <4>2. ControlOK' /\ status' = "error" /\ error' = "type"
        BY <2>0, <4>1, FailFacts DEF Errors
      <4>3. StackOK'
        BY <2>0, <3>1, <4>1, ShorterStack
      <4>. QED
        BY <2>0, <3>2, <4>2, <4>3, QuietStep DEF Errors, Internal
    <3>4. CASE {Operand(0).type, Operand(1).type} = {"int"}
      <4>1. PICK v \in Values : Push(Rest(2), v)
        <5>1. \A n \in Ints : IntValue(n) \in Values
          BY CallStackAssumption DEF IntValue, Values
        <5>2. BoolValue(Operand(1).v < Operand(0).v) \in Values
          BY DEF BoolValue, Values
        <5>. QED
          BY Zenon, <2>2, <3>4, <5>1, <5>2 DEF Arithmetic
      <4>2. /\ ControlOK' /\ StackOK' /\ Len(stack') >= Len(Rest(2))
            /\ error' = error \/ error' = "stack_overflow"
        BY <2>0, <3>2, <4>1, PushFacts
      <4>3. ~wild' => FrameBase <= Len(stack')
        BY <3>2, <4>2, BaseFacts DEF Inv, StackOK
      <4>. QED
        BY <2>0, <3>2, <4>2, <4>3, QuietStep DEF Errors, Internal
    <3>. QED
      BY <3>3, <3>4
  <2>. QED
    BY <2>1, <2>2

\* A conditional jump.
<1>JumpIfFalseStep. ASSUME Inv, JumpIfFalse
                    PROVE  Inv'
  <2> USE <1>JumpIfFalseStep
  <2>0. ControlOK /\ StackOK /\ UNCHANGED program /\ ip < Count /\ Count \in Nat /\ Instr.arg \in Int
    BY ProgramFacts DEF Inv, JumpIfFalse, Runs
  <2>1. CASE Instr.arg < 0 \/ stack = << >>
    <3>1. Refuse("target") \/ Refuse("stack_underflow")
      BY <2>1 DEF JumpIfFalse
    <3>. QED
      BY <2>0, <3>1, RefuseFacts DEF Errors, Internal
  <2>2. CASE ~(Instr.arg < 0 \/ stack = << >>)
    <3>1. 1 <= Len(stack)
      BY <2>0, <2>2 DEF StackOK
    <3>2. /\ stack' = Rest(1) /\ Takes(1) /\ UNCHANGED <<stackLimit, frameVars, localVars, own>>
          /\ \/ Fail("type") \/ Fail("target") \/ Goto(ip + 1)
             \/ ~(Instr.arg > Count) /\ Goto(Instr.arg)
      BY <2>2 DEF JumpIfFalse
    <3>3. ControlOK' /\ (error' = error \/ error' \in {"type", "target"})
      <4>1. ASSUME Fail("type") \/ Fail("target") PROVE ControlOK' /\ error' \in {"type", "target"}
        BY <2>0, <4>1, FailFacts DEF Errors
      <4>2. ASSUME Goto(ip + 1) PROVE ControlOK' /\ error' = error
        BY <2>0, <4>2, ProgramFacts, GotoFacts
      <4>3. ASSUME ~(Instr.arg > Count), Goto(Instr.arg) PROVE ControlOK' /\ error' = error
        BY <2>0, <2>2, <4>3, GotoFacts
      <4>. QED
        BY <3>2, <4>1, <4>2, <4>3
    <3>4. StackOK'
      BY <2>0, <3>1, <3>2, ShorterStack
    <3>5. wild' \in BOOLEAN /\ (wild => wild') /\ (~wild' => FrameBase <= Len(stack'))
      BY <3>1, <3>2, Taking
    <3>. QED
      BY <2>0, <3>2, <3>3, <3>4, <3>5, QuietStep DEF Errors, Internal
  <2>. QED
    BY <2>1, <2>2

\* Storing a local: the limit grows before the slot is written.
<1>StoreLocalStep. ASSUME Inv, StoreLocal
                   PROVE  Inv'
  <2> USE <1>StoreLocalStep
  <2> DEFINE slot == LocalsBase + Instr.arg
             why == StateError(Rest(1))
  <2>0. ControlOK /\ StackOK /\ UNCHANGED program /\ ip < Count /\ Count \in Nat /\ Instr.arg \in Int
    BY ProgramFacts DEF Inv, StoreLocal, Runs
  <2>1. CASE Instr.arg < 0 \/ stack = << >>
    <3>1. Refuse("operand") \/ Refuse("stack_underflow")
      BY <2>1 DEF StoreLocal
    <3>. QED
      BY <2>0, <3>1, RefuseFacts DEF Errors, Internal
  <2>2. CASE ~(Instr.arg < 0 \/ stack = << >>)
    <3>1. 1 <= Len(stack)
      BY <2>0, <2>2 DEF StackOK
    <3>2. stack' = Rest(1) /\ Takes(1) /\ UNCHANGED <<stackLimit, frameVars>>
      BY <2>2 DEF StoreLocal
    <3>3. StackOK'
      BY <2>0, <3>1, <3>2, ShorterStack
    <3>4. /\ Rest(1) \in Seq(Values) /\ Len(Rest(1)) <= Len(stack) /\ Len(Rest(1)) \in Nat
          /\ wild' \in BOOLEAN /\ (wild => wild') /\ (~wild' => FrameBase <= Len(stack'))
      BY <3>1, <3>2, Taking
    <3>5. why \in {"none", "frame"} /\ (why = "frame" => FrameBase > Len(Rest(1)))
      BY <3>4, StateErrorFacts
    <3>6. FrameBase \in Nat /\ LocalsBase \in Nat /\ LocalsBase <= localsCount
      BY BaseFacts DEF Inv
    <3>7. CASE why # "none"
      <4>1. Fail(why) /\ UNCHANGED <<localVars, own>>
        BY <2>2, <3>7 DEF StoreLocal
      <4>2. ControlOK' /\ status' = "error" /\ error' = "frame"
        BY <2>0, <3>5, <3>7, <4>1, FailFacts DEF Errors
      <4>3. wild'
        <5>1. FrameBase > Len(Rest(1)) /\ FrameBase \in Nat /\ Len(Rest(1)) \in Nat
          BY <3>4, <3>5, <3>6, <3>7
        <5>2. ~(FrameBase <= Len(stack'))
          BY <3>2, <5>1
        <5>. QED
          BY <3>4, <5>2
      <4>4. FramesOK' /\ FramesNested'
        BY <2>0, <3>2, <4>1, SameFrames DEF Inv, LocalsOK, localVars
      <4>5. LocalsOK' /\ FramesOnStack' /\ ChecksSilent'
        BY <4>1, <4>2, <4>3 DEF Inv, LocalsOK, localVars, FramesOnStack, ChecksSilent, Internal
      <4>. QED
        BY SMTT(30), <3>3, <3>4, <4>2, <4>4, <4>5 DEF Inv
    <3>8. CASE why = "none" /\ slot >= LocalsCapacity
      <4>1. Fail("local_range") /\ UNCHANGED <<localVars, own>>
        BY <2>2, <3>8 DEF StoreLocal
      <4>2. ControlOK' /\ status' = "error" /\ error' = "local_range"
        BY <2>0, <4>1, FailFacts DEF Errors
      <4>. QED
        BY SMTT(30), <2>0, <3>2, <3>3, <3>4, <4>1, <4>2, QuietStep DEF Errors, Internal
    <3>9. CASE why = "none" /\ ~(slot >= LocalsCapacity)
      <4> DEFINE grown == GrownLimit(localsLimit, slot + 1, LocalsStep, LocalsCapacity)
      <4>1. /\ localsLimit' = grown
            /\ locals' = [locals EXCEPT ![slot] = Operand(0)]
            /\ localsCount' = IF slot >= localsCount THEN slot + 1 ELSE localsCount
            /\ own' = [own EXCEPT ![Len(own)] = own[Len(own)] \union {Instr.arg}]
            /\ Goto(ip + 1)
        BY <2>2, <3>9 DEF StoreLocal
      <4>2. slot \in Nat /\ slot + 1 \in Nat /\ slot + 1 <= LocalsCapacity /\ LocalsCapacity \in Nat
        <5>1. Instr.arg \in Nat /\ LocalsCapacity \in Nat
          BY <2>0, <2>2, CallStackAssumption
        <5>2. slot \in Nat
          BY <3>6, <5>1
        <5>3. ~(slot >= LocalsCapacity)
          BY <3>9, Zenon
        <5> HIDE DEF slot
        <5>. QED
          BY <5>1, <5>2, <5>3
      <4>3. /\ locals \in [Slots -> Values] /\ localsCount \in Nat /\ localsLimit \in Nat
            /\ localsCount <= localsLimit /\ localsLimit <= LocalsCapacity
        BY DEF Inv, LocalsOK
      <4> HIDE DEF slot
      <4>4. grown \in Nat /\ localsLimit <= grown /\ grown <= LocalsCapacity /\ slot + 1 <= grown
        BY <4>2, <4>3, GrownLimitBounds, CallStackAssumption
      <4> HIDE DEF grown
      <4>5. localsCount' \in Nat /\ localsCount <= localsCount' /\ localsCount' <= localsLimit'
        BY <4>1, <4>2, <4>3, <4>4
      <4>6. Operand(0) \in Values
        BY <2>0, <3>1, RestFacts
      <4>7. LocalsOK'
        <5>1. locals' \in [Slots -> Values]
          BY Zenon, <4>1, <4>3, <4>6
        <5>. QED
          BY <4>1, <4>4, <4>5, <5>1 DEF LocalsOK
      <4>8. ControlOK' /\ error' = error
        BY <2>0, <4>1, ProgramFacts, GotoFacts
      <4>9. FramesOK' /\ FramesNested' /\ FrameBase' = FrameBase
        <5>1. own \in Seq(SUBSET Nat) /\ Len(own) \in 1..Len(own)
          BY DEF Inv, FramesOK
        <5>2. own[Len(own)] \union {Instr.arg} \in SUBSET Nat
          BY <2>0, <2>2, <5>1
        <5>3. own' \in Seq(SUBSET Nat) /\ Len(own') = Len(own)
          BY <4>1, <5>1, <5>2, OwnUpdate
        <5>4. FramesOK' /\ FrameBase' = FrameBase
          BY <3>2, <5>3 DEF Inv, FramesOK, frameVars, FrameBase, Frame
        <5>5. \A i \in 1..Len(frames) : frames[i].localsBase \in Nat
          <6>1. frames \in Seq(Frames)
            BY DEF Inv, FramesOK
          <6>2. \A i \in 1..Len(frames) : frames[i] \in Frames
            BY <6>1
          <6>. QED
            BY <6>2 DEF Frames
        <5>6. FramesNested'
          <6>1. frames' = frames /\ FramesNested
            BY Zenon, <3>2 DEF Inv, frameVars
          <6>. QED
            BY <2>0, <3>2, <4>3, <4>5, <5>5, <6>1 DEF FramesNested, frameVars, Count
        <5>. QED
          BY <5>4, <5>6
      <4>10. FramesOnStack' /\ ChecksSilent'
        BY <3>4, <4>8, <4>9 DEF Inv, FramesOnStack, ChecksSilent
      <4>. QED
        BY SMTT(30), <3>3, <3>4, <4>7, <4>8, <4>9, <4>10 DEF Inv
    <3>. QED
      BY <3>7, <3>8, <3>9
  <2>. QED
    BY <2>1, <2>2

\* Loading a local reads a slot in use.
<1>LoadLocalStep. ASSUME Inv, LoadLocal
                  PROVE  Inv'
  <2> USE <1>LoadLocalStep
  <2>0. /\ ControlOK /\ StackOK /\ UNCHANGED program /\ ip < Count /\ Instr.arg \in Int
        /\ status # "error" /\ stack \in Seq(Values) /\ Len(stack) <= Len(stack) /\ Len(stack) \in Nat
    <3>1. ControlOK /\ StackOK /\ UNCHANGED program /\ ip < Count /\ status # "error"
      BY DEF Inv, LoadLocal, Runs
    <3>2. Instr.arg \in Int
      BY <3>1, ProgramFacts
    <3>3. stack \in Seq(Values) /\ Len(stack) <= Len(stack) /\ Len(stack) \in Nat
      BY <3>1 DEF StackOK
    <3>. QED
      BY SMTT(30), <3>1, <3>2, <3>3
  <2>1. CASE Instr.arg < 0 \/ StateError(stack) # "none" \/ LocalsBase + Instr.arg >= localsCount
    <3>1. Refuse("operand") \/ Refuse("local_range")
      BY <2>1 DEF LoadLocal
    <3>. QED
      BY ZenonT(30), <2>0, <3>1, RefuseFacts DEF Errors, Internal
  <2>2. CASE ~(Instr.arg < 0 \/ StateError(stack) # "none" \/ LocalsBase + Instr.arg >= localsCount)
    <3>1. /\ Push(stack, locals[LocalsBase + Instr.arg])
          /\ wild' = (wild \/ Instr.arg \notin own[Len(own)])
          /\ UNCHANGED <<frameVars, localVars, own>>
      BY <2>2 DEF LoadLocal
    <3>2. locals[LocalsBase + Instr.arg] \in Values
      <4>1. LocalsBase + Instr.arg \in Slots
        <5>0. ~(Instr.arg < 0) /\ ~(LocalsBase + Instr.arg >= localsCount)
          BY <2>2, Zenon
        <5>1. Instr.arg \in Nat /\ LocalsCapacity \in Nat
          BY <2>0, <5>0, CallStackAssumption
        <5>2. LocalsBase \in Nat /\ localsCount \in Nat /\ localsLimit \in Nat
          BY BaseFacts DEF Inv, LocalsOK
        <5>3. localsCount <= localsLimit /\ localsLimit <= LocalsCapacity
          BY DEF Inv, LocalsOK
        <5>. QED
          BY <5>0, <5>1, <5>2, <5>3 DEF Slots
      <4>. QED
        BY <4>1 DEF Inv, LocalsOK
    <3>3. /\ ControlOK' /\ StackOK' /\ Len(stack') >= Len(stack)
          /\ error' = error \/ error' = "stack_overflow"
      BY <2>0, <3>1, <3>2, PushFacts
    <3>4. wild' \in BOOLEAN
      BY <3>1, Zenon
    <3>5. wild => wild'
      BY Zenon, <3>1
    <3>6. ~wild' => FrameBase <= Len(stack')
      BY <2>0, <3>3, <3>5, BaseFacts DEF Inv, StackOK, FramesOnStack
    <3>. QED
      BY SMTT(30), <2>0, <3>1, <3>3, <3>4, <3>5, <3>6, QuietStep DEF Errors, Internal
  <2>. QED
    BY <2>1, <2>2

\* A tail call: the frame stays, its operands become the arguments.
<1>ReplaceFrameStep. ASSUME Inv, UNCHANGED program, frames # << >>, Instr.arg \in 0..Count,
                            NEW argc \in Nat, argc <= Len(stack), FrameBase <= Len(stack) - argc,
                            ReplaceFrame(argc)
                     PROVE  Inv'
  <2> USE <1>ReplaceFrameStep
  <2>1. /\ stack' = SubSeq(stack, 1, FrameBase) \o SubSeq(stack, Len(stack) - argc + 1, Len(stack))
        /\ localsCount' = LocalsBase /\ own' = [own EXCEPT ![Len(own)] = {}]
        /\ Goto(Instr.arg)
        /\ UNCHANGED <<stackLimit, frames, frameLimit, locals, localsLimit, wild>>
    BY DEF ReplaceFrame, frameVars
  <2>2. /\ FrameBase \in Nat /\ LocalsBase \in Nat /\ Frame \in Frames /\ Len(frames) \in Nat \ {0}
        /\ LocalsBase = Frame.localsBase /\ LocalsBase <= localsCount
    BY BaseFacts DEF Inv
  <2>3. stack' \in Seq(Values) /\ Len(stack') = FrameBase + argc
    <3>1. stack \in Seq(Values) /\ Len(stack) \in Nat
      BY DEF Inv, StackOK
    <3> DEFINE low == SubSeq(stack, 1, FrameBase)
               high == SubSeq(stack, Len(stack) - argc + 1, Len(stack))
    <3>2. low \in Seq(Values) /\ Len(low) = FrameBase
      BY <2>2, <3>1
    <3>3. high \in Seq(Values) /\ Len(high) = argc
      BY <2>2, <3>1
    <3> HIDE DEF low, high
    <3>4. low \o high \in Seq(Values) /\ Len(low \o high) = FrameBase + argc
      BY <3>2, <3>3
    <3>. QED
      BY SMTT(30), <2>1, <3>4 DEF low, high
  <2>4. StackOK'
    BY <2>1, <2>2, <2>3 DEF Inv, StackOK
  <2>5. ControlOK' /\ error' = error
    BY <2>1, GotoFacts DEF Inv
  <2>6. LocalsOK'
    <3>1. LocalsOK
      BY DEF Inv
    <3>2. localsCount' = LocalsBase /\ locals' = locals /\ localsLimit' = localsLimit
      BY <2>1
    <3>3. LocalsBase \in Nat /\ LocalsBase <= localsCount
      BY ZenonT(30), <2>2
    <3> HIDE DEF LocalsBase
    <3>. QED
      BY <3>1, <3>2, <3>3 DEF LocalsOK
  <2>7. FramesOK' /\ FrameBase' = FrameBase
    <3>1. own' \in Seq(SUBSET Nat) /\ Len(own') = Len(own)
      BY SMTT(30), <2>1, OwnUpdate DEF Inv, FramesOK
    <3>. QED
      BY SMTT(30), <2>1, <3>1 DEF Inv, FramesOK, FrameBase, Frame
  <2>8. FramesNested'
    <3>1. \A i \in 1..Len(frames) : frames[i].localsBase <= LocalsBase
      BY <2>2 DEF Inv, FramesNested, Frame
    <3>. QED
      BY ZenonT(30), <2>1, <3>1 DEF Inv, FramesNested, Count
  <2>9. FramesOnStack' /\ ChecksSilent' /\ wild' \in BOOLEAN
    BY SMTT(30), <2>1, <2>2, <2>3, <2>5, <2>7 DEF Inv, FramesOnStack, ChecksSilent
  <2>. QED
    BY SMTT(30), <2>4, <2>5, <2>6, <2>7, <2>8, <2>9 DEF Inv

\* A call: the new frame begins above its caller's.
<1>PushFrameStep. ASSUME Inv, UNCHANGED program, ip < Count, Instr.arg \in 0..Count,
                         NEW argc \in Nat, argc <= Len(stack), FrameBase <= Len(stack) - argc,
                         PushFrame(argc)
                  PROVE  Inv'
  <2> USE <1>PushFrameStep
  <2> DEFINE grown == GrownLimit(frameLimit, Len(frames) + 1, FrameStep, FrameCapacity)
             new == [ret |-> ip + 1, base |-> Len(stack) - argc, localsBase |-> localsCount]
  <2>1. UNCHANGED <<stackVars, localVars, wild>> /\ frameLimit' = grown
    BY DEF PushFrame
  <2>2. /\ frames \in Seq(Frames) /\ Len(frames) \in Nat /\ frameLimit \in Nat
        /\ Len(frames) <= frameLimit /\ frameLimit <= FrameCapacity
        /\ own \in Seq(SUBSET Nat) /\ Len(own) = Len(frames) + 1
    BY DEF Inv, FramesOK
  <2>3. grown \in Nat /\ frameLimit <= grown /\ grown <= FrameCapacity
    <3>1. Len(frames) + 1 \in Nat
      BY <2>2
    <3>. QED
      BY Zenon, <2>2, <3>1, GrownLimitBounds, CallStackAssumption
  <2>4. StackOK' /\ LocalsOK' /\ wild' \in BOOLEAN /\ wild' = wild /\ stack' = stack
    BY <2>1 DEF Inv, StackOK, LocalsOK, stackVars, localVars
  <2> HIDE DEF grown
  <2>5. CASE Len(frames) + 1 <= grown
    <3>1. frames' = Append(frames, new) /\ own' = Append(own, {}) /\ Goto(Instr.arg)
      BY <2>1, <2>5 DEF PushFrame
    <3>2. ControlOK' /\ error' = error
      BY <3>1, GotoFacts DEF Inv
    <3>3. new \in Frames /\ new.base = Len(stack) - argc /\ new.localsBase = localsCount /\ new.ret = ip + 1
      BY ProgramFacts DEF Inv, StackOK, LocalsOK, Frames
    <3> HIDE DEF new
    <3>4. FramesOK'
      BY SMTT(30), <2>1, <2>2, <2>3, <2>5, <3>1, <3>3 DEF FramesOK
    <3>5. /\ Len(frames') = Len(frames) + 1 /\ frames'[Len(frames) + 1] = new
          /\ \A i \in 1..Len(frames) : frames'[i] = frames[i]
      BY SMTT(30), <2>2, <3>1, <3>3
    <3>6. \A i \in 1..Len(frames) : frames[i].base <= new.base /\ frames[i].localsBase <= new.localsBase
      <4>1. CASE frames = << >>
        BY SMTT(30), <2>2, <4>1
      <4>2. CASE frames # << >>
        <5>1. /\ Len(frames) \in 1..Len(frames) /\ FrameBase = frames[Len(frames)].base
              /\ FrameBase \in Nat
          BY SMTT(30), <2>2, <4>2, BaseFacts DEF Inv, FrameBase, Frame
        <5>2. \A i \in 1..Len(frames) : frames[i].base <= FrameBase /\ frames[i].localsBase <= localsCount
          BY <5>1 DEF Inv, FramesNested
        <5>3. Len(stack) \in Nat
          BY DEF Inv, StackOK
        <5>. QED
          BY SMTT(30), <3>3, <5>1, <5>2, <5>3, FrameElements DEF Inv
      <4>. QED
        BY <4>1, <4>2
    <3>7. FramesNested'
      <4>1. \A i, j \in 1..Len(frames') : i <= j => /\ frames'[i].base <= frames'[j].base
                                                   /\ frames'[i].localsBase <= frames'[j].localsBase
        <5> SUFFICES ASSUME NEW i \in 1..Len(frames'), NEW j \in 1..Len(frames'), i <= j
                     PROVE  /\ frames'[i].base <= frames'[j].base
                            /\ frames'[i].localsBase <= frames'[j].localsBase
          OBVIOUS
        <5>1. CASE j \in 1..Len(frames)
          BY SMTT(30), <2>2, <3>5, <5>1 DEF Inv, FramesNested
        <5>2. CASE j = Len(frames) + 1 /\ i \in 1..Len(frames)
          BY SMTT(30), <3>5, <3>6, <5>2
        <5>3. CASE i = Len(frames) + 1 /\ j = Len(frames) + 1
          BY SMTT(30), <3>3, <3>5, <5>3 DEF Inv, StackOK, LocalsOK
        <5>. QED
          BY SMTT(30), <2>2, <3>5, <5>1, <5>2, <5>3
      <4>2. \A i \in 1..Len(frames') : frames'[i].ret <= Count' /\ frames'[i].localsBase <= localsCount'
        <5>1. Count' = Count /\ localsCount' = localsCount /\ ip + 1 <= Count /\ localsCount \in Nat
          BY <2>1, ProgramFacts DEF Inv, LocalsOK, localVars, Count
        <5>. QED
          BY SMTT(30), <2>2, <3>3, <3>5, <5>1 DEF Inv, FramesNested
      <4>. QED
        BY SMTT(30), <4>1, <4>2 DEF FramesNested
    <3>8. FramesOnStack' /\ ChecksSilent'
      <4>1. FrameBase' = new.base
        BY <2>2, <3>5 DEF FrameBase, Frame
      <4>2. FrameBase' <= Len(stack')
        BY <2>4, <3>3, <4>1 DEF Inv, StackOK
      <4>. QED
        BY <2>4, <3>2, <4>2 DEF Inv, FramesOnStack, ChecksSilent
    <3>. QED
      BY <2>4, <3>2, <3>4, <3>7, <3>8 DEF Inv
  <2>6. CASE ~(Len(frames) + 1 <= grown)
    <3>1. Fail("frame_overflow") /\ UNCHANGED <<frames, own>>
      BY <2>1, <2>6 DEF PushFrame
    <3>2. ControlOK' /\ status' = "error" /\ error' = "frame_overflow"
      BY <3>1, FailFacts DEF Inv, Errors
    <3>3. FramesOK'
      BY SMTT(30), <2>1, <2>2, <2>3, <3>1 DEF FramesOK
    <3>4. FramesNested'
      BY <2>1, <3>1 DEF Inv, FramesNested, localVars, Count
    <3>5. FramesOnStack' /\ ChecksSilent'
      BY <3>2 DEF FramesOnStack, ChecksSilent, Internal
    <3>. QED
      BY SMTT(30), <2>4, <3>2, <3>3, <3>4, <3>5 DEF Inv
  <2>. QED
    BY <2>5, <2>6

\* CALL: refused, a tail call or a new frame.
<1>CallStep. ASSUME Inv, Call
             PROVE  Inv'
  <2> USE <1>CallStep
  <2>0. ControlOK /\ UNCHANGED program /\ ip < Count /\ Count \in Nat
    BY ProgramFacts DEF Inv, Call, Runs
  <2>1. CASE Instr.arg \notin 0..(Count - 1)
    BY <2>0, <2>1, RefuseFacts DEF Call, Errors, Internal
  <2>2. CASE Instr.arg \in 0..(Count - 1)
    <3> DEFINE argc == ArgCount(Instr.arg)
               why == CallError(Instr.arg, argc)
    <3>1. Instr.arg \in 0..Count
      BY <2>0, <2>2
    <3>2. /\ why # "none" => Refuse(why)
          /\ why = "none" /\ InTailPosition => ReplaceFrame(argc)
          /\ why = "none" /\ ~InTailPosition => PushFrame(argc)
      BY <2>2 DEF Call
    <3> HIDE DEF argc
    <3>3. /\ why \in {"none", "arguments", "layout", "crosses"}
          /\ why = "none" => argc \in Nat /\ argc <= Len(stack) /\ FrameBase <= Len(stack) - argc
      BY CallErrorFacts
    <3> HIDE DEF why
    <3>4. CASE why # "none"
      BY SMTT(30), <2>0, <3>2, <3>3, <3>4, RefuseFacts DEF Errors, Internal
    <3>5. CASE why = "none" /\ InTailPosition
      <4>1. frames # << >>
        BY <3>5 DEF InTailPosition
      <4>. QED
        BY SMTT(30), <2>0, <3>1, <3>2, <3>3, <3>5, <4>1, <1>ReplaceFrameStep
    <3>6. CASE why = "none" /\ ~InTailPosition
      BY SMTT(30), <2>0, <3>1, <3>2, <3>3, <3>6, <1>PushFrameStep
    <3>. QED
      BY <3>4, <3>5, <3>6
  <2>. QED
    BY <2>1, <2>2

\* RET: after the checks of the state only extra values can stop it.
<1>ReturnStep. ASSUME Inv, Return
               PROVE  Inv'
  <2> USE <1>ReturnStep
  <2>0. /\ ControlOK /\ UNCHANGED program /\ status # "error" /\ Count \in Nat
        /\ stack \in Seq(Values) /\ Len(stack) \in Nat /\ Len(stack) <= Len(stack)
    <3>1. ControlOK /\ UNCHANGED program /\ status # "error"
      BY DEF Inv, Return, Runs
    <3>2. stack \in Seq(Values) /\ Len(stack) \in Nat /\ Len(stack) <= Len(stack)
      BY DEF Inv, StackOK
    <3>. QED
      BY <3>1, <3>2, ProgramFacts
  <2>1. CASE frames = << >>
    <3>1. Halted
      BY <2>1 DEF Return
    <3>2. ControlOK' /\ error' = error
      BY <2>0, <3>1 DEF Halted, ControlOK, Count
    <3>. QED
      BY SMTT(30), <2>0, <3>1, <3>2, MoveStep DEF Halted
  <2>2. StateError(stack) \in {"none", "frame"} /\ (StateError(stack) = "frame" <=> FrameBase > Len(stack))
    BY <2>0, StateErrorFacts
  <2>3. FrameBase \in Nat
    BY BaseFacts DEF Inv
  <2>4. CASE frames # << >> /\ StateError(stack) # "none"
    <3>1. Refuse("frame")
      <4>1. StateError(stack) = "frame"
        BY <2>2, <2>4, Zenon
      <4>. QED
        BY <2>4, <4>1 DEF Return
    <3>2. wild
      <4>1. FrameBase > Len(stack)
        BY <2>2, <2>4, Zenon
      <4>. QED
        BY <2>0, <2>3, <4>1 DEF Inv, FramesOnStack
    <3>. QED
      BY <2>0, <3>1, <3>2, RefuseFacts DEF Errors, Internal
  <2>5. ASSUME frames # << >>, StateError(stack) = "none" PROVE Inv'
    <3>1. /\ frames' = SubSeq(frames, 1, Len(frames) - 1) /\ own' = SubSeq(own, 1, Len(own) - 1)
          /\ UNCHANGED <<frameLimit, wild>>
          /\ ReturnError # "none" => Fail(ReturnError) /\ UNCHANGED <<stackVars, localVars>>
          /\ ReturnError = "none" => RestoreCaller
      BY SMTT(30), <2>5 DEF Return
    <3>2. /\ Frame.base \in Nat /\ Frame.localsBase \in Nat /\ Frame.ret \in Nat
          /\ Frame.base <= Len(stack) /\ Frame.localsBase <= localsCount /\ Frame.ret <= Count
      <4>1. Len(frames) \in 1..Len(frames) /\ FrameBase = Frame.base /\ LocalsBase = Frame.localsBase
        <5>1. FramesOK
          BY DEF Inv
        <5>. QED
          <6>1. /\ Len(frames) \in Nat \ {0} /\ FrameBase = Frame.base
                /\ LocalsBase = Frame.localsBase
            BY <2>5, <5>1, BaseFacts
          <6>. QED
            BY <6>1
      <4>2. FrameBase <= Len(stack) /\ LocalsBase <= localsCount
        <5>1. ~(FrameBase > Len(stack))
          BY <2>2, <2>5
        <5>2. LocalsBase <= localsCount
          BY BaseFacts DEF Inv
        <5>. QED
          BY <2>0, <2>3, <5>1, <5>2
      <4>. QED
        BY <4>1, <4>2, FrameElements DEF Inv, FramesNested, Frame
    <3>3. /\ localsCount \in Nat /\ localsLimit \in Nat /\ localsCount <= localsLimit
          /\ stackLimit \in Nat /\ Len(stack) <= stackLimit /\ stackLimit <= StackCapacity
      BY DEF Inv, LocalsOK, StackOK
    <3>4. /\ ReturnError \in {"none", "extra_values"}
          /\ ReturnError = "none" => ~(Len(stack) > Frame.base + 1)
      BY <2>0, <3>2, <3>3 DEF ReturnError
    <3>5. CASE ReturnError # "none"
      <4>1. Fail("extra_values") /\ UNCHANGED <<stackVars, localVars>>
        BY <3>1, <3>4, <3>5
      <4>2. ControlOK' /\ status' = "error" /\ error' = "extra_values"
        BY SMTT(30), <2>0, <4>1, FailFacts DEF Errors
      <4>3. FramesOK' /\ FramesNested'
        BY SMTT(30), <2>0, <2>5, <3>1, <3>2, <3>3, <4>1, PopFrameFacts DEF localVars
      <4>4. StackOK' /\ LocalsOK' /\ wild' \in BOOLEAN
        BY <3>1, <4>1 DEF Inv, StackOK, LocalsOK, stackVars, localVars
      <4>5. FramesOnStack' /\ ChecksSilent'
        BY <4>2 DEF FramesOnStack, ChecksSilent, Internal
      <4>. QED
        BY <4>2, <4>3, <4>4, <4>5 DEF Inv
    <3>6. CASE ReturnError = "none"
      <4>1. /\ Len(stack) > Frame.base =>
                 /\ stack' = Append(SubSeq(stack, 1, Frame.base), stack[Len(stack)])
                 /\ stackLimit' = GrownLimit(stackLimit, Frame.base + 1, StackStep, StackCapacity)
            /\ ~(Len(stack) > Frame.base) => UNCHANGED stackVars
            /\ localsCount' = Frame.localsBase /\ Goto(Frame.ret) /\ UNCHANGED <<locals, localsLimit>>
        BY Zenon, <3>1, <3>6 DEF RestoreCaller
      <4>2. ControlOK' /\ error' = error
        BY <2>0, <3>2, <4>1, GotoFacts
      <4>3. FramesOK' /\ FramesNested' /\ FrameBase' \in Nat /\ FrameBase' <= Frame.base
        <5>1. localsCount' \in Nat /\ Frame.localsBase <= localsCount'
          BY <3>2, <4>1
        <5>2. UNCHANGED <<program, frameLimit>>
          BY <2>0, <3>1
        <5>. QED
          BY <2>5, <3>1, <5>1, <5>2, PopFrameFacts
      <4>4. LocalsOK'
        BY <3>2, <3>3, <4>1 DEF Inv, LocalsOK
      <4>5. StackOK' /\ Len(stack') \in Nat /\ Frame.base <= Len(stack')
        <5>1. CASE Len(stack) > Frame.base
          <6>1. SubSeq(stack, 1, Frame.base) \in Seq(Values) /\ Len(SubSeq(stack, 1, Frame.base)) = Frame.base
            BY <2>0, <3>2
          <6>2. stack[Len(stack)] \in Values
            BY <2>0, <3>2, <5>1
          <6>3. stack' \in Seq(Values) /\ Len(stack') = Frame.base + 1
            <7> DEFINE low == SubSeq(stack, 1, Frame.base)
                       top == stack[Len(stack)]
            <7>1. stack' = Append(low, top)
              BY Zenon, <4>1, <5>1
            <7> HIDE DEF low, top
            <7>2. low \in Seq(Values) /\ Len(low) = Frame.base /\ top \in Values
              BY <6>1, <6>2 DEF low, top
            <7>. QED
              BY <3>2, <7>1, <7>2
          <6>4. Frame.base + 1 \in Nat /\ Frame.base + 1 <= stackLimit
            BY <2>0, <3>2, <3>3, <5>1
          <6>5. stackLimit' = stackLimit
            BY <3>3, <4>1, <5>1, <6>4 DEF GrownLimit
          <6>. QED
            BY <3>2, <3>3, <6>3, <6>4, <6>5 DEF StackOK
        <5>2. CASE ~(Len(stack) > Frame.base)
          BY <2>0, <3>2, <4>1, <5>2 DEF Inv, StackOK, stackVars
        <5>. QED
          BY <5>1, <5>2
      <4>6. FramesOnStack' /\ ChecksSilent' /\ wild' \in BOOLEAN
        <5>1. FrameBase' <= Len(stack')
          BY <3>2, <4>3, <4>5
        <5>2. wild' = wild
          BY <3>1
        <5>. QED
          BY <4>2, <5>1, <5>2 DEF Inv, FramesOnStack, ChecksSilent
      <4>. QED
        BY SMTT(30), <4>2, <4>3, <4>4, <4>5, <4>6 DEF Inv
    <3>. QED
      BY <3>5, <3>6
  <2>. QED
    BY <2>1, <2>4, <2>5

\* A reset leaves no frames, whatever stopped the program.
<1>ResetStep. ASSUME Inv, Reset
              PROVE  Inv'
  <2> USE <1>ResetStep
  <2>1. /\ program' = program /\ ip' = 0 /\ status' = "ready" /\ error' = "none"
        /\ stack' = << >> /\ stackLimit' = StackInitial
    BY Zenon DEF Reset
  <2>2. /\ frames' = << >> /\ frameLimit' = FrameInitial /\ own' = << {} >>
        /\ locals' = locals /\ localsCount' = 0 /\ localsLimit' = LocalsInitial
    BY Zenon DEF Reset
  <2>3. wild' \in BOOLEAN
    BY Zenon DEF Reset
  <2>4. ControlOK'
    BY <2>1, ProgramFacts DEF Inv, ControlOK, Count, Errors
  <2>5. StackOK'
    BY <2>1, CallStackAssumption DEF StackOK
  <2>6. FramesOK'
    <3>1. << {} >> \in Seq(SUBSET Nat) /\ Len(<< {} >>) = 1 /\ << >> \in Seq(Frames) /\ Len(<< >>) = 0
      OBVIOUS
    <3>. QED
      BY <2>2, <3>1, CallStackAssumption DEF FramesOK
  <2>7. LocalsOK'
    BY <2>2, CallStackAssumption DEF Inv, LocalsOK
  <2>8. FramesNested' /\ FramesOnStack' /\ ChecksSilent'
    BY <2>1, <2>2 DEF FramesNested, FramesOnStack, FrameBase, ChecksSilent, Internal
  <2>. QED
    BY <2>3, <2>4, <2>5, <2>6, <2>7, <2>8 DEF Inv
<1> SUFFICES ASSUME Inv, [Next]_vars PROVE Inv'
  OBVIOUS
<1>1. CASE Next
  BY SMTT(30), <1>1, <1>ResetStep, <1>ControlSteps, <1>UnknownStep, <1>PushConstantStep, <1>PopStep, <1>ArithmeticStep, <1>JumpIfFalseStep,
     <1>StoreLocalStep, <1>LoadLocalStep, <1>CallStep, <1>ReturnStep DEF Next
<1>2. CASE UNCHANGED vars
  <2>1. UNCHANGED <<program, ip, status, error, memory>>
    BY <1>2 DEF vars
  <2>2. UNCHANGED <<stack, stackLimit, frames, frameLimit, locals, localsCount, localsLimit, own, wild>>
    BY <2>1 DEF memory, stackVars, frameVars, localVars
  <2>3. ControlOK' /\ StackOK' /\ FramesOK' /\ LocalsOK' /\ wild' \in BOOLEAN
    BY SMTT(30), <2>1, <2>2 DEF Inv, ControlOK, StackOK, FramesOK, LocalsOK, Count
  <2>4. FramesNested' /\ FramesOnStack' /\ ChecksSilent'
    BY <2>1, <2>2 DEF Inv, FramesNested, FramesOnStack, ChecksSilent, FrameBase, Frame, Count
  <2>. QED
    BY <2>3, <2>4 DEF Inv
<1>. QED
  BY <1>1, <1>2

\* The inductive invariant holds in every reachable state.
LEMMA InvCorrect == Spec => []Inv
BY InitInv, NextInv, PTL DEF Spec

\* Whatever the program does, stack, frames and locals stay within their
\* limits and the limits within the arrays that aivm_step writes to.
THEOREM TypeCorrect == Spec => []TypeOK
<1>1. Inv => TypeOK
  BY PartsAreTypes DEF Inv
<1>. QED
  BY <1>1, InvCorrect, PTL

\* Calls, tail calls and returns keep the frames nested, for every program:
\* the checks of CALL are enough for it.
THEOREM NestingKept == Spec => []FramesNested
<1>1. Inv => FramesNested
  BY DEF Inv
<1>. QED
  BY <1>1, InvCorrect, PTL

\* No program makes the VM find its own bookkeeping broken: the checks of
\* aivm_vm_validate_call_local_state and validate_vm_return_restore are silent
\* unless the program itself took an operand of its caller.
THEOREM ChecksStaySilent == Spec => []ChecksSilent
<1>1. Inv => ChecksSilent
  BY DEF Inv
<1>. QED
  BY <1>1, InvCorrect, PTL
-----------------------------------------------------------------------------
(***************************************************************************)
(* What an instruction may do to what lies below the current frame.        *)
(***************************************************************************)
\* It stays within the frame: the frames, and the operands and locals below
\* the frame's bases, are as they were.
Within ==
    /\ frames' = frames /\ FrameBase <= Len(stack')
    /\ \A i \in 1..FrameBase : stack'[i] = stack[i]
    /\ \A i \in 0..(LocalsBase - 1) : locals'[i] = locals[i]
    /\ ip < Count /\ Instr.op = "CALL" => InTailPosition

\* It takes operands of the frame and leaves at most one value.
Took ==
    \E n \in Nat : /\ FrameBase + n <= Len(stack)
                   /\ stack' = Rest(n) \/ \E v \in Values : stack' = Append(Rest(n), v)

\* It calls: the new frame begins where its arguments do.
Calls ==
    /\ ip < Count /\ Instr.op = "CALL" /\ Instr.arg \in 0..(Count - 1) /\ ~InTailPosition
    /\ ArgCount(Instr.arg) \in 0..Len(stack)
    /\ frames' = Append(frames, [ret |-> ip + 1, base |-> Len(stack) - ArgCount(Instr.arg),
                                 localsBase |-> localsCount])
    /\ UNCHANGED <<stack, locals, localsCount>>

\* It returns: the frame is gone, with at most one value left above its base.
Returns ==
    /\ Instr.op = "RET" /\ ip < Count
    /\ frames # << >> /\ frames' = SubSeq(frames, 1, Len(frames) - 1)
    /\ ip' = Frame.ret /\ Len(stack') \in {Frame.base, Frame.base + 1}
    /\ \A i \in 1..Frame.base : stack'[i] = stack[i]
    /\ locals' = locals /\ localsCount' = Frame.localsBase

\* Nothing in memory moves.
LEMMA StillStep ==
    ASSUME Inv, UNCHANGED memory, ~wild', status # "error",
           ip < Count /\ Instr.op = "CALL" => InTailPosition
    PROVE  Within
<1>1. /\ frames' = frames /\ stack' = stack /\ locals' = locals /\ wild' = wild
  BY DEF memory, stackVars, frameVars, localVars
<1>2. FrameBase <= Len(stack)
  BY <1>1 DEF Inv, FramesOnStack
<1>. QED
  BY <1>1, <1>2 DEF Within

\* Some operands of the frame are taken, and at most one value is pushed.
LEMMA OperandStep ==
    ASSUME Inv, NEW n \in Nat, n <= Len(stack), FrameBase <= Len(stack) - n,
           frames' = frames, \A i \in 0..(LocalsBase - 1) : locals'[i] = locals[i],
           \/ stack' = Rest(n)
           \/ \E v \in Values : stack' = Append(Rest(n), v),
           ip < Count /\ Instr.op = "CALL" => InTailPosition
    PROVE  Within
<1>0. StackOK /\ stack \in Seq(Values) /\ Len(stack) \in Nat /\ FrameBase \in Nat
  BY BaseFacts DEF Inv, StackOK
<1>1. Rest(n) \in Seq(Values) /\ Len(Rest(n)) = Len(stack) - n
  BY <1>0, RestFacts
<1>2. \A i \in 1..(Len(stack) - n) : Rest(n)[i] = stack[i]
  BY <1>0 DEF Rest
<1>3. FrameBase <= Len(stack') /\ \A i \in 1..FrameBase : stack'[i] = Rest(n)[i]
  <2>1. CASE stack' = Rest(n)
    BY <1>0, <1>1, <2>1
  <2>2. ASSUME NEW v \in Values, stack' = Append(Rest(n), v)
        PROVE  FrameBase <= Len(stack') /\ \A i \in 1..FrameBase : stack'[i] = Rest(n)[i]
    <3> DEFINE r == Rest(n)
    <3>1. r \in Seq(Values) /\ Len(r) = Len(stack) - n /\ stack' = Append(r, v)
      BY <1>1, <2>2
    <3> HIDE DEF r
    <3>2. Len(stack') = Len(r) + 1 /\ \A i \in 1..Len(r) : stack'[i] = r[i]
      BY <3>1
    <3>3. FrameBase <= Len(stack') /\ \A i \in 1..FrameBase : stack'[i] = r[i]
      BY <1>0, <3>1, <3>2
    <3>. QED
      BY <3>3 DEF r
  <2>. QED
    BY <2>1, <2>2
<1>4. \A i \in 1..FrameBase : stack'[i] = stack[i]
  BY <1>0, <1>2, <1>3
<1>. QED
  BY <1>3, <1>4 DEF Within


\* A push that succeeds appends.
LEMMA PushAppends ==
    ASSUME NEW s, NEW v, Push(s, v), status' # "error"
    PROVE  stack' = Append(s, v)
BY DEF Push, Fail

\* Without operands taken the stack is all there is.
LEMMA RestOfNone ==
    ASSUME StackOK
    PROVE  Rest(0) = stack
<1>1. stack \in Seq(Values) /\ Len(stack) \in Nat
  BY DEF StackOK
<1>2. SubSeq(stack, 1, Len(stack)) = stack
  BY <1>1
<1>. QED
  BY <1>1, <1>2 DEF Rest

\* Instructions that leave memory alone.
LEMMA QuietShape ==
    ASSUME Inv, StepAtEnd \/ Nop \/ Halt \/ Stub \/ Unknown \/ Jump, ~wild', status' # "error"
    PROVE  ~wild /\ Within
<1>1. UNCHANGED memory /\ status # "error" /\ (ip < Count => Instr.op # "CALL")
  <2>0. ControlOK /\ Count \in Nat /\ ip \in Nat
    BY ProgramFacts DEF Inv
  <2>1. CASE StepAtEnd
    BY <2>0, <2>1 DEF StepAtEnd
  <2>2. CASE Nop
    BY <2>2 DEF Nop, Runs
  <2>3. CASE Halt
    BY <2>3 DEF Halt, Halted, Runs
  <2>4. CASE Stub \/ Unknown
    BY <2>4 DEF Stub, Unknown, Refuse, Fail
  <2>5. CASE Jump
    BY <2>5 DEF Jump, Runs, Refuse
  <2>. QED
    BY <2>1, <2>2, <2>3, <2>4, <2>5
<1>2. Within
  BY <1>1, StillStep
<1>. QED
  BY <1>1, <1>2 DEF memory

\* Instructions that only push.
LEMMA PushShape ==
    ASSUME Inv, PushConstant \/ LoadLocal, ~wild', status' # "error"
    PROVE  ~wild /\ Within
<1>0. StackOK /\ FramesOK /\ stack \in Seq(Values) /\ Len(stack) \in Nat
  BY DEF Inv, StackOK
<1>1. ASSUME NEW v \in Values, Push(stack, v), UNCHANGED <<frameVars, localVars>>, ~wild, status # "error",
             Instr.op # "CALL"
      PROVE  Within
  <2>1. stack' = Append(Rest(0), v) /\ frames' = frames /\ locals' = locals
    BY <1>0, <1>1, PushAppends, RestOfNone DEF frameVars, localVars
  <2>2. FrameBase <= Len(stack) - 0
    BY <1>0, <1>1 DEF Inv, FramesOnStack
  <2>. QED
    BY <1>0, <1>1, <2>1, <2>2, OperandStep
<1>2. CASE PushConstant
  <2>1. Instr.arg \in Int
    BY <1>2, ProgramFacts DEF Inv, PushConstant, Runs
  <2>2. IntValue(Instr.arg) \in Values /\ BoolValue(Instr.arg # 0) \in Values
    BY <2>1 DEF IntValue, BoolValue, Values
  <2>3. /\ Push(stack, IntValue(Instr.arg)) \/ Push(stack, BoolValue(Instr.arg # 0))
        /\ UNCHANGED <<frameVars, localVars>> /\ wild' = wild /\ status # "error" /\ Instr.op # "CALL"
    BY <1>2 DEF PushConstant, Runs
  <2>. QED
    BY <1>1, <2>2, <2>3
<1>3. CASE LoadLocal
  <2>0. Instr.arg \in Int /\ status # "error" /\ Instr.op # "CALL"
    BY ZenonT(30), <1>3, ProgramFacts DEF Inv, LoadLocal, Runs
  <2>1. ~(Instr.arg < 0) /\ ~(StateError(stack) # "none" \/ LocalsBase + Instr.arg >= localsCount)
    BY ZenonT(30), <1>3 DEF LoadLocal, Refuse, Fail
  <2>2. /\ Push(stack, locals[LocalsBase + Instr.arg]) /\ UNCHANGED <<frameVars, localVars>>
        /\ wild' = (wild \/ Instr.arg \notin own[Len(own)])
    BY <1>3, <2>1 DEF LoadLocal
  <2>3. locals[LocalsBase + Instr.arg] \in Values
    <3>1. LocalsBase \in Nat
      BY <1>0, BaseFacts
    <3>2. locals \in [Slots -> Values] /\ localsCount \in Nat /\ localsCount <= LocalsCapacity /\ LocalsCapacity \in Nat
      BY CallStackAssumption DEF Inv, LocalsOK
    <3>3. LocalsBase + Instr.arg \in Slots
      BY <2>0, <2>1, <3>1, <3>2 DEF Slots
    <3>. QED
      BY <3>2, <3>3
  <2>4. ~wild
    BY Zenon, <2>2
  <2>. QED
    BY ZenonT(30), <1>1, <2>0, <2>2, <2>3, <2>4
<1>. QED
  BY <1>2, <1>3

\* Instructions that take operands.
LEMMA TakeShape ==
    ASSUME Inv, Pop \/ Arithmetic \/ JumpIfFalse, ~wild', status' # "error"
    PROVE  ~wild /\ Within /\ Took
<1>0. StackOK /\ FramesOK /\ stack \in Seq(Values) /\ Len(stack) \in Nat
  BY DEF Inv, StackOK
<1>1. ASSUME NEW n \in {1, 2}, n <= Len(stack), Takes(n), frames' = frames, locals' = locals, Instr.op # "CALL",
             stack' = Rest(n) \/ \E v \in Values : stack' = Append(Rest(n), v)
      PROVE  ~wild /\ Within /\ Took
  <2>1. n \in Nat /\ ~wild' => FrameBase <= Len(Rest(n)) /\ Len(Rest(n)) = Len(stack) - n
    BY <1>1, Taking
  <2>2. n \in Nat /\ (wild => wild')
    BY <1>1, Taking
  <2>3. FrameBase <= Len(stack) - n
    BY <2>1, <2>2
  <2>4. FrameBase \in Nat
    BY <1>0, BaseFacts
  <2>5. FrameBase + n <= Len(stack)
    BY <1>0, <2>2, <2>3, <2>4
  <2>6. Took
    BY <1>1, <2>2, <2>5 DEF Took
  <2>. QED
    BY <1>1, <2>2, <2>3, <2>6, OperandStep
<1>2. CASE Pop
  <2>1. stack # << >> /\ Instr.op # "CALL"
    BY <1>2 DEF Pop, Refuse, Fail, Runs
  <2>2. stack' = Rest(1) /\ Takes(1) /\ frames' = frames /\ locals' = locals
    BY <1>2, <2>1 DEF Pop, frameVars, localVars
  <2>3. 1 <= Len(stack)
    BY <1>0, <2>1
  <2>. QED
    BY <1>1, <2>1, <2>2, <2>3
<1>3. CASE JumpIfFalse
  <2>1. stack # << >> /\ ~(Instr.arg < 0) /\ Instr.op # "CALL"
    BY <1>3 DEF JumpIfFalse, Refuse, Fail, Runs
  <2>2. stack' = Rest(1) /\ Takes(1) /\ frames' = frames /\ locals' = locals
    BY <1>3, <2>1 DEF JumpIfFalse, frameVars, localVars
  <2>3. 1 <= Len(stack)
    BY <1>0, <2>1
  <2>. QED
    BY <1>1, <2>1, <2>2, <2>3
<1>4. CASE Arithmetic
  <2>1. ~(Len(stack) < 2) /\ frames' = frames /\ locals' = locals /\ Instr.op # "CALL"
    BY <1>4 DEF Arithmetic, Fail, Runs, frameVars, localVars
  <2>2. /\ Takes(2) /\ {Operand(0).type, Operand(1).type} = {"int"}
        /\ \/ \E n \in Ints : Push(Rest(2), IntValue(n))
           \/ Push(Rest(2), BoolValue(Operand(1).v < Operand(0).v))
    BY Zenon, <1>4, <2>1 DEF Arithmetic, Fail
  <2>3. \E v \in Values : Push(Rest(2), v)
    <3>1. \A n \in Ints : IntValue(n) \in Values
      BY CallStackAssumption DEF IntValue, Values
    <3>2. BoolValue(Operand(1).v < Operand(0).v) \in Values
      BY DEF BoolValue, Values
    <3>. QED
      BY <2>2, <3>1, <3>2
  <2>4. \E v \in Values : stack' = Append(Rest(2), v)
    BY <2>3, PushAppends
  <2>5. 2 <= Len(stack)
    BY <1>0, <2>1
  <2>. QED
    BY ZenonT(30), <1>1, <2>1, <2>2, <2>4, <2>5
<1>. QED
  BY <1>2, <1>3, <1>4


\* STORE_LOCAL takes its operand and writes at or above the frame's locals.
LEMMA StoreShape ==
    ASSUME Inv, StoreLocal, ~wild', status' # "error"
    PROVE  ~wild /\ Within
<1> DEFINE slot == LocalsBase + Instr.arg
<1>0. /\ StackOK /\ FramesOK /\ stack \in Seq(Values) /\ Len(stack) \in Nat /\ Instr.arg \in Int
      /\ LocalsBase \in Nat /\ locals \in [Slots -> Values]
  BY ProgramFacts, BaseFacts DEF Inv, StackOK, LocalsOK, StoreLocal, Runs
<1>1. stack # << >> /\ ~(Instr.arg < 0) /\ Instr.op # "CALL"
  BY DEF StoreLocal, Refuse, Fail, Runs
<1>2. /\ stack' = Rest(1) /\ Takes(1) /\ frames' = frames
      /\ StateError(Rest(1)) = "none" /\ ~(slot >= LocalsCapacity)
      /\ locals' = [locals EXCEPT ![slot] = Operand(0)]
  BY <1>1 DEF StoreLocal, Fail, frameVars
<1>3. 1 <= Len(stack) /\ 1 \in Nat
  BY <1>0, <1>1
<1>4. (wild => wild') /\ (~wild' => FrameBase <= Len(Rest(1)) /\ Len(Rest(1)) = Len(stack) - 1)
  BY <1>2, <1>3, Taking
<1>5. \A i \in 0..(LocalsBase - 1) : locals'[i] = locals[i]
  <2>1. slot \notin 0..(LocalsBase - 1)
    BY <1>0, <1>1
  <2> HIDE DEF slot
  <2>. QED
    BY <1>0, <1>2, <2>1
<1>. QED
  BY ZenonT(30), <1>1, <1>2, <1>3, <1>4, <1>5, OperandStep

\* The beginning of a concatenation.
LEMMA ConcatFacts ==
    ASSUME NEW S, NEW a \in Seq(S), NEW b \in Seq(S)
    PROVE  /\ a \o b \in Seq(S) /\ Len(a \o b) = Len(a) + Len(b) /\ Len(a) \in Nat /\ Len(b) \in Nat
           /\ \A i \in 1..Len(a) : (a \o b)[i] = a[i]
           /\ \A i \in 1..Len(b) : (a \o b)[Len(a) + i] = b[i]
OBVIOUS

\* A call that succeeds replaces the frame or adds one.
LEMMA CallShape ==
    ASSUME Inv, Call, ~wild', status' # "error"
    PROVE  ~wild /\ (Within \/ Calls)
<1> DEFINE argc == ArgCount(Instr.arg)
<1>0. /\ ControlOK /\ StackOK /\ FramesOK /\ stack \in Seq(Values) /\ Len(stack) \in Nat /\ FrameBase \in Nat
      /\ ip < Count /\ Instr.op = "CALL"
  BY BaseFacts DEF Inv, StackOK, Call, Runs
<1>1. Instr.arg \in 0..(Count - 1) /\ CallError(Instr.arg, argc) = "none"
  BY DEF Call, Refuse, Fail
<1>2. IF InTailPosition THEN ReplaceFrame(argc) ELSE PushFrame(argc)
  BY <1>1 DEF Call
<1> HIDE DEF argc
<1>3. argc \in Nat /\ argc <= Len(stack) /\ FrameBase <= Len(stack) - argc
  BY <1>1, CallErrorFacts
<1>5. CASE InTailPosition
  <2> DEFINE low == SubSeq(stack, 1, FrameBase)
             args == SubSeq(stack, Len(stack) - argc + 1, Len(stack))
  <2>1. stack' = low \o args /\ frames' = frames /\ locals' = locals /\ wild' = wild
    BY Zenon, <1>2, <1>5 DEF ReplaceFrame, frameVars
  <2>2. low \in Seq(Values) /\ Len(low) = FrameBase /\ \A i \in 1..FrameBase : low[i] = stack[i]
    BY <1>0, <1>3
  <2>3. args \in Seq(Values)
    BY <1>0, <1>3
  <2> HIDE DEF low, args
  <2>4. /\ Len(stack') = Len(low) + Len(args) /\ Len(args) \in Nat
        /\ \A i \in 1..Len(low) : stack'[i] = low[i]
    BY Zenon, <2>1, <2>2, <2>3, ConcatFacts
  <2>5. FrameBase <= Len(stack') /\ \A i \in 1..FrameBase : stack'[i] = stack[i]
    BY <1>0, <2>2, <2>4
  <2>. QED
    BY Zenon, <1>5, <2>1, <2>5 DEF Within
<1>6. CASE ~InTailPosition
  <2>1. PushFrame(argc) /\ frames' = Append(frames, [ret |-> ip + 1, base |-> Len(stack) - argc,
                                                      localsBase |-> localsCount])
    BY <1>2, <1>6 DEF PushFrame, Fail
  <2>2. UNCHANGED <<stack, locals, localsCount>> /\ wild' = wild
    BY <2>1 DEF PushFrame, stackVars, localVars
  <2>3. argc \in 0..Len(stack)
    BY <1>0, <1>3
  <2>. QED
    BY ZenonT(30), <1>0, <1>1, <1>6, <2>1, <2>2, <2>3 DEF Calls, argc
<1>. QED
  BY <1>5, <1>6

\* A return that succeeds gives the caller back, or stops the program.
LEMMA ReturnShape ==
    ASSUME Inv, Return, ~wild', status' # "error"
    PROVE  ~wild /\ (Within \/ Returns)
<1>0. /\ StackOK /\ FramesOK /\ stack \in Seq(Values) /\ Len(stack) \in Nat /\ FrameBase \in Nat
      /\ Instr.op = "RET" /\ ip < Count /\ status # "error"
  BY BaseFacts DEF Inv, StackOK, Return, Runs
<1>1. CASE frames = << >>
  <2>1. UNCHANGED memory
    BY <1>1 DEF Return, Halted
  <2>2. Within
    BY <1>0, <2>1, StillStep
  <2>. QED
    BY <2>1, <2>2 DEF memory
<1>2. CASE frames # << >>
  <2>1. StateError(stack) = "none" /\ ReturnError = "none"
    BY <1>2 DEF Return, Refuse, Fail
  <2>2. frames' = SubSeq(frames, 1, Len(frames) - 1) /\ RestoreCaller /\ wild' = wild
    BY <1>2, <2>1 DEF Return
  <2>3. /\ Len(stack) > Frame.base => stack' = Append(SubSeq(stack, 1, Frame.base), stack[Len(stack)])
        /\ ~(Len(stack) > Frame.base) => stack' = stack
        /\ localsCount' = Frame.localsBase /\ locals' = locals /\ ip' = Frame.ret
    BY Zenon, <2>2 DEF RestoreCaller, Goto, stackVars
  <2>4. Frame.base \in Nat /\ Frame.base <= Len(stack) /\ ~(Len(stack) > Frame.base + 1)
    <3>1. Frame.base \in Nat
      BY <1>0, <1>2, BaseFacts DEF Frames
    <3>2. ~(Frame.base > Len(stack)) /\ ~(Len(stack) > Frame.base + 1)
      BY <2>1 DEF ReturnError
    <3>. QED
      BY <1>0, <3>1, <3>2
  <2>5. Len(stack') \in {Frame.base, Frame.base + 1} /\ \A i \in 1..Frame.base : stack'[i] = stack[i]
    <3>1. CASE Len(stack) > Frame.base
      <4> DEFINE low == SubSeq(stack, 1, Frame.base)
                 top == stack[Len(stack)]
      <4>1. /\ low \in Seq(Values) /\ Len(low) = Frame.base /\ top \in Values
            /\ \A i \in 1..Frame.base : low[i] = stack[i]
        BY <1>0, <2>4, <3>1
      <4>2. stack' = Append(low, top)
        BY Zenon, <2>3, <3>1
      <4> HIDE DEF low, top
      <4>3. Len(stack') = Len(low) + 1 /\ \A i \in 1..Len(low) : stack'[i] = low[i]
        BY <4>1, <4>2
      <4>. QED
        BY Zenon, <4>1, <4>3
    <3>2. CASE ~(Len(stack) > Frame.base)
      BY <1>0, <2>3, <2>4, <3>2
    <3>. QED
      BY <3>1, <3>2
  <2>. QED
    BY <1>0, <1>2, <2>2, <2>3, <2>5 DEF Returns
<1>. QED
  BY <1>1, <1>2

\* An instruction that goes well, in a program that keeps to its operands,
\* has one of the three shapes.
LEMMA Shapes ==
    ASSUME Inv, Next, status \notin {"halted", "error"}, ~wild', status' # "error"
    PROVE  ~wild /\ (Within \/ Calls \/ Returns)
<1>1. ~Reset
  BY DEF Reset
<1>. QED
  BY <1>1, QuietShape, PushShape, TakeShape, StoreShape, CallShape, ReturnShape DEF Next

-----------------------------------------------------------------------------
(***************************************************************************)
(* The slots an activation stored lie in its own part of the locals.  This *)
(* is what keeps the locals of one activation out of reach of another.     *)
(***************************************************************************)
LocalsStart(k) == IF k = 1 THEN 0 ELSE frames[k - 1].localsBase
LocalsEnd(k) == IF k > Len(frames) THEN localsCount ELSE frames[k].localsBase
OwnInWindow ==
    \A k \in 1..(Len(frames) + 1) : \A i \in own[k] : LocalsStart(k) + i < LocalsEnd(k)

\* What the types say of the parts OwnInWindow relates.
LEMMA WindowTypes ==
    ASSUME Inv
    PROVE  /\ Len(frames) \in Nat /\ Len(own) = Len(frames) + 1 /\ localsCount \in Nat
           /\ \A k \in 1..Len(frames) : frames[k].localsBase \in Nat /\ frames[k].localsBase <= localsCount
           /\ \A k \in 1..(Len(frames) + 1) : /\ own[k] \subseteq Nat
                                             /\ LocalsStart(k) \in Nat /\ LocalsEnd(k) \in Nat
<1>1. Len(frames) \in Nat /\ Len(own) = Len(frames) + 1 /\ localsCount \in Nat /\ own \in Seq(SUBSET Nat)
  BY DEF Inv, FramesOK, LocalsOK
<1>2. \A k \in 1..Len(frames) : frames[k].localsBase \in Nat /\ frames[k].localsBase <= localsCount
  BY FrameElements DEF Inv, FramesNested
<1>3. ASSUME NEW k \in 1..(Len(frames) + 1)
      PROVE  own[k] \subseteq Nat /\ LocalsStart(k) \in Nat /\ LocalsEnd(k) \in Nat
  <2>1. own[k] \in SUBSET Nat
    BY <1>1
  <2>2. LocalsStart(k) \in Nat
    <3>1. CASE k = 1
      BY <3>1 DEF LocalsStart
    <3>2. CASE k # 1
      <4>1. k - 1 \in 1..Len(frames)
        BY <1>1, <3>2
      <4>. QED
        BY <1>2, <3>2, <4>1 DEF LocalsStart
    <3>. QED
      BY <3>1, <3>2
  <2>3. LocalsEnd(k) \in Nat
    <3>1. CASE k > Len(frames)
      BY <1>1, <3>1 DEF LocalsEnd
    <3>2. CASE ~(k > Len(frames))
      <4>1. k \in 1..Len(frames)
        BY <1>1, <3>2
      <4>. QED
        BY <1>2, <3>2, <4>1 DEF LocalsEnd
    <3>. QED
      BY <3>1, <3>2
  <2>. QED
    BY <2>1, <2>2, <2>3
<1>. QED
  BY <1>1, <1>2, <1>3

\* Every step keeps the stored slots in their windows.
LEMMA OwnStep == Inv /\ Inv' /\ OwnInWindow /\ [Next]_vars => OwnInWindow'

\* Frames and stored slots stay, and no local goes.
<1>OwnQuiet. ASSUME Inv, OwnInWindow, frames' = frames, own' = own, localsCount' \in Nat, localsCount <= localsCount'
             PROVE  OwnInWindow'
  <2> USE <1>OwnQuiet
  <2> SUFFICES ASSUME NEW k \in 1..(Len(frames) + 1), NEW i \in own[k]
               PROVE  LocalsStart(k)' + i < LocalsEnd(k)'
    BY DEF OwnInWindow
  <2>1. LocalsStart(k)' = LocalsStart(k)
    BY DEF LocalsStart
  <2>2. LocalsEnd(k) <= LocalsEnd(k)' /\ LocalsEnd(k)' \in Nat
    BY WindowTypes DEF LocalsEnd
  <2>3. LocalsStart(k) + i < LocalsEnd(k) /\ LocalsStart(k) \in Nat /\ i \in Nat /\ LocalsEnd(k) \in Nat
    BY WindowTypes DEF OwnInWindow
  <2>. QED
    BY <2>1, <2>2, <2>3

\* The frames stay, and the innermost activation gets the slots S.
<1>OwnChanges. ASSUME Inv, OwnInWindow, frames' = frames, NEW S, own' = [own EXCEPT ![Len(own)] = S],
                      \A i \in S : LocalsBase + i < localsCount'
               PROVE  OwnInWindow'
  <2> USE <1>OwnChanges
  <2> SUFFICES ASSUME NEW k \in 1..(Len(frames) + 1), NEW i \in own'[k]
               PROVE  LocalsStart(k)' + i < LocalsEnd(k)'
    BY DEF OwnInWindow
  <2>0. Len(frames) \in Nat /\ Len(own) = Len(frames) + 1 /\ own \in Seq(SUBSET Nat)
    BY DEF Inv, FramesOK
  <2>1. LocalsStart(k)' = LocalsStart(k)
    BY DEF LocalsStart
  <2>2. CASE k = Len(frames) + 1
    <3>1. own'[k] = S
      BY <2>0, <2>2
    <3>2. LocalsStart(k) = LocalsBase
      BY <2>0, <2>2 DEF LocalsStart, LocalsBase, Frame
    <3>3. LocalsEnd(k)' = localsCount'
      BY <2>0, <2>2 DEF LocalsEnd
    <3>. QED
      BY <2>1, <3>1, <3>2, <3>3
  <2>3. CASE k # Len(frames) + 1
    <3>1. own'[k] = own[k]
      BY <2>0, <2>3
    <3>2. LocalsEnd(k)' = LocalsEnd(k)
      BY <2>0, <2>3 DEF LocalsEnd
    <3>. QED
      BY <2>1, <3>1, <3>2 DEF OwnInWindow
  <2>. QED
    BY <2>2, <2>3

\* STORE_LOCAL: the slot is counted among the locals in use.
<1>OwnStore. ASSUME Inv, OwnInWindow, StoreLocal
             PROVE  OwnInWindow'
  <2> USE <1>OwnStore
  <2> DEFINE slot == LocalsBase + Instr.arg
  <2>0. LocalsBase \in Nat /\ localsCount \in Nat /\ Instr.arg \in Int
    BY ZenonT(30), BaseFacts, ProgramFacts DEF Inv, LocalsOK, StoreLocal, Runs
  <2>1. frames' = frames
    BY DEF StoreLocal, Refuse, memory, frameVars
  <2>2. CASE UNCHANGED <<localVars, own>>
    BY <2>0, <2>1, <2>2, <1>OwnQuiet DEF localVars
  <2>3. CASE ~UNCHANGED <<localVars, own>>
    <3>1. /\ ~(Instr.arg < 0) /\ localsCount' = (IF slot >= localsCount THEN slot + 1 ELSE localsCount)
          /\ own' = [own EXCEPT ![Len(own)] = @ \union {Instr.arg}]
      BY <2>3 DEF StoreLocal, Refuse, memory
    <3>2. Len(own) \in 1..Len(own) /\ Len(own) = Len(frames) + 1
      BY DEF Inv, FramesOK
    <3>3. own' = [own EXCEPT ![Len(own)] = own[Len(own)] \union {Instr.arg}]
      BY <3>1
    <3>4. ASSUME NEW i \in own[Len(own)] \union {Instr.arg} PROVE LocalsBase + i < localsCount'
      <4>1. CASE i = Instr.arg
        BY <2>0, <3>1, <4>1
      <4>2. CASE i \in own[Len(own)]
        <5>1. LocalsStart(Len(own)) = LocalsBase /\ LocalsEnd(Len(own)) = localsCount
          BY <3>2 DEF LocalsStart, LocalsBase, Frame, LocalsEnd, Inv, FramesOK
        <5>2. LocalsBase + i < localsCount /\ i \in Nat
          BY <3>2, <4>2, <5>1, WindowTypes DEF OwnInWindow
        <5>. QED
          BY <2>0, <3>1, <5>2
      <4>. QED
        BY <4>1, <4>2
    <3>. QED
      BY Zenon, <2>1, <3>3, <3>4, <1>OwnChanges
  <2>. QED
    BY ZenonT(30), <2>2, <2>3

\* A call: the callee has stored nothing, and begins where the caller's locals end.
<1>OwnPush. ASSUME Inv, OwnInWindow, NEW f, f.localsBase = localsCount,
                   frames' = Append(frames, f), own' = Append(own, {}), localsCount' = localsCount
            PROVE  OwnInWindow'
  <2> USE <1>OwnPush
  <2>0. /\ frames \in Seq(Frames) /\ Len(frames) \in Nat /\ own \in Seq(SUBSET Nat) /\ Len(own) = Len(frames) + 1
    BY DEF Inv, FramesOK
  <2>1. /\ Len(frames') = Len(frames) + 1 /\ frames'[Len(frames) + 1] = f
        /\ \A k \in 1..Len(frames) : frames'[k] = frames[k]
        /\ own'[Len(frames) + 2] = {} /\ \A k \in 1..(Len(frames) + 1) : own'[k] = own[k]
    BY <2>0
  <2> SUFFICES ASSUME NEW k \in 1..(Len(frames') + 1), NEW i \in own'[k]
               PROVE  LocalsStart(k)' + i < LocalsEnd(k)'
    BY Zenon DEF OwnInWindow
  <2>2. k \in 1..(Len(frames) + 1) /\ i \in own[k]
    <3>1. k # Len(frames) + 2
      BY Zenon, <2>1
    <3>2. k \in 1..(Len(frames) + 1)
      BY <2>0, <2>1, <3>1
    <3>. QED
      BY Zenon, <2>1, <3>2
  <2>3. LocalsStart(k)' = LocalsStart(k)
    <3>1. CASE k = 1
      BY <3>1 DEF LocalsStart
    <3>2. CASE k # 1
      <4>1. k - 1 \in 1..Len(frames)
        BY <2>0, <2>2, <3>2
      <4>. QED
        BY <2>1, <3>2, <4>1 DEF LocalsStart
    <3>. QED
      BY <3>1, <3>2
  <2>4. LocalsEnd(k)' = LocalsEnd(k)
    <3>0. LocalsEnd(k)' = frames'[k].localsBase
      BY <2>0, <2>1, <2>2 DEF LocalsEnd
    <3>1. CASE k = Len(frames) + 1
      BY <2>0, <2>1, <3>0, <3>1 DEF LocalsEnd
    <3>2. CASE k # Len(frames) + 1
      <4>1. k \in 1..Len(frames) /\ ~(k > Len(frames))
        BY <2>0, <2>2, <3>2
      <4>. QED
        BY <2>1, <3>0, <4>1 DEF LocalsEnd
    <3>. QED
      BY ZenonT(30), <3>1, <3>2
  <2>. QED
    BY <2>2, <2>3, <2>4 DEF OwnInWindow

\* A return: the caller's locals end where the callee's began, or beyond.
<1>OwnPop. ASSUME Inv, OwnInWindow, frames # << >>, frames' = SubSeq(frames, 1, Len(frames) - 1),
                  own' = SubSeq(own, 1, Len(own) - 1), localsCount' \in Nat, Frame.localsBase <= localsCount'
           PROVE  OwnInWindow'
  <2> USE <1>OwnPop
  <2>0. /\ frames \in Seq(Frames) /\ own \in Seq(SUBSET Nat) /\ Len(own) = Len(frames) + 1
    BY DEF Inv, FramesOK
  <2>1. /\ Len(frames) \in Nat /\ Len(frames) # 0 /\ Len(frames') = Len(frames) - 1
        /\ \A k \in 1..(Len(frames) - 1) : frames'[k] = frames[k]
    BY <2>0, FrontFacts
  <2>2. \A k \in 1..Len(frames) : own'[k] = own[k]
    <3>1. own # << >>
      BY <2>0, <2>1
    <3>2. \A k \in 1..(Len(own) - 1) : own'[k] = own[k]
      BY <2>0, <3>1, FrontFacts
    <3>. QED
      BY <2>0, <2>1, <3>2
  <2> SUFFICES ASSUME NEW k \in 1..(Len(frames') + 1), NEW i \in own'[k]
               PROVE  LocalsStart(k)' + i < LocalsEnd(k)'
    BY Zenon DEF OwnInWindow
  <2>3. k \in 1..Len(frames) /\ k \in 1..(Len(frames) + 1) /\ i \in own[k]
    <3>1. k \in 1..Len(frames) /\ k \in 1..(Len(frames) + 1)
      BY <2>1
    <3>. QED
      BY Zenon, <2>2, <3>1
  <2>4. LocalsStart(k)' = LocalsStart(k)
    <3>1. CASE k = 1
      BY ZenonT(30), <3>1 DEF LocalsStart
    <3>2. CASE k # 1
      <4>1. k - 1 \in 1..(Len(frames) - 1)
        BY <2>1, <2>3, <3>2
      <4>. QED
        BY <2>1, <3>2, <4>1 DEF LocalsStart
    <3>. QED
      BY <3>1, <3>2
  <2>5. LocalsEnd(k) = frames[k].localsBase
    BY <2>1, <2>3 DEF LocalsEnd
  <2>6. LocalsEnd(k) <= LocalsEnd(k)' /\ LocalsEnd(k)' \in Nat
    <3>1. CASE k = Len(frames)
      BY <2>1, <2>3, <2>5, <3>1 DEF LocalsEnd, Frame
    <3>2. CASE k # Len(frames)
      <4>1. k \in 1..(Len(frames) - 1) /\ ~(k > Len(frames'))
        BY <2>1, <2>3, <3>2
      <4>2. LocalsEnd(k)' = frames[k].localsBase
        BY <2>1, <4>1 DEF LocalsEnd
      <4>3. frames[k].localsBase \in Nat
        BY <2>3, WindowTypes
      <4>. QED
        BY <2>5, <4>2, <4>3
    <3>. QED
      BY <3>1, <3>2
  <2>7. LocalsStart(k) + i < LocalsEnd(k) /\ LocalsStart(k) \in Nat /\ i \in Nat /\ LocalsEnd(k) \in Nat
    BY <2>3, WindowTypes DEF OwnInWindow
  <2>. QED
    BY <2>4, <2>6, <2>7

\* CALL.
<1>OwnCall. ASSUME Inv, OwnInWindow, Call
            PROVE  OwnInWindow'
  <2> USE <1>OwnCall
  <2>0. localsCount \in Nat
    BY DEF Inv, LocalsOK
  <2>1. CASE UNCHANGED memory
    BY <2>0, <2>1, <1>OwnQuiet DEF memory, frameVars, localVars
  <2>2. ASSUME NEW argc, ReplaceFrame(argc) PROVE OwnInWindow'
    <3>1. PICK S : S = {}
      BY Zenon
    <3>2. frames' = frames /\ own' = [own EXCEPT ![Len(own)] = S]
      BY <2>2, <3>1 DEF ReplaceFrame, frameVars
    <3>3. \A i \in S : LocalsBase + i < localsCount'
      BY <3>1
    <3>. QED
      BY Zenon, <3>2, <3>3, <1>OwnChanges
  <2>3. ASSUME NEW argc, PushFrame(argc) PROVE OwnInWindow'
    <3>1. CASE UNCHANGED <<frames, own>>
      BY <2>0, <2>3, <3>1, <1>OwnQuiet DEF PushFrame, localVars
    <3>2. CASE ~UNCHANGED <<frames, own>>
      <4> DEFINE f == [ret |-> ip + 1, base |-> Len(stack) - argc, localsBase |-> localsCount]
      <4>1. frames' = Append(frames, f) /\ own' = Append(own, {}) /\ localsCount' = localsCount
        BY <2>3, <3>2 DEF PushFrame, localVars
      <4>2. f.localsBase = localsCount
        OBVIOUS
      <4> HIDE DEF f
      <4>. QED
        BY <4>1, <4>2, <1>OwnPush
    <3>. QED
      BY <3>1, <3>2
  <2>. QED
    BY <2>1, <2>2, <2>3 DEF Call, Refuse

\* RET.
<1>OwnReturn. ASSUME Inv, Inv', OwnInWindow, Return
              PROVE  OwnInWindow'
  <2> USE <1>OwnReturn
  <2>0. localsCount \in Nat /\ localsCount' \in Nat
    BY DEF Inv, LocalsOK
  <2>1. CASE UNCHANGED memory
    BY <2>0, <2>1, <1>OwnQuiet DEF memory, frameVars, localVars
  <2>2. CASE ~UNCHANGED memory
    <3>1. /\ frames # << >> /\ frames' = SubSeq(frames, 1, Len(frames) - 1) /\ own' = SubSeq(own, 1, Len(own) - 1)
          /\ localsCount' = localsCount \/ localsCount' = Frame.localsBase
      BY <2>2 DEF Return, Halted, Refuse, RestoreCaller, localVars
    <3>2. Frame.localsBase \in Nat /\ Frame.localsBase <= localsCount
      BY <3>1, BaseFacts DEF Inv, Frames
    <3>3. Frame.localsBase <= localsCount'
      BY <2>0, <3>1, <3>2
    <3>. QED
      BY <2>0, <3>1, <3>3, <1>OwnPop
  <2>. QED
    BY <2>1, <2>2
<1> SUFFICES ASSUME Inv, Inv', OwnInWindow, [Next]_vars PROVE OwnInWindow'
  OBVIOUS
<1>0. localsCount \in Nat /\ localsCount <= localsCount
  BY DEF Inv, LocalsOK
<1>1. CASE Reset
  <2>1. frames' = << >> /\ own' = << {} >>
    BY <1>1 DEF Reset
  <2>2. Len(frames') + 1 = 1 /\ own'[1] = {} /\ \A k \in 1..1 : k = 1
    BY <2>1
  <2>3. \A k \in 1..(Len(frames') + 1) : own'[k] = {}
    BY Zenon, <2>2
  <2>. QED
    BY Zenon, <2>3 DEF OwnInWindow
<1>2. CASE StoreLocal
  BY <1>2, <1>OwnStore
<1>3. CASE Call
  BY <1>3, <1>OwnCall
<1>4. CASE Return
  BY <1>4, <1>OwnReturn
<1>5. CASE \/ UNCHANGED vars \/ StepAtEnd \/ Nop \/ Halt \/ Stub \/ Unknown \/ PushConstant \/ Pop \/ Arithmetic
           \/ Jump \/ JumpIfFalse \/ LoadLocal
  <2>1. frames' = frames /\ own' = own /\ localsCount' = localsCount
    BY Zenon, <1>5 DEF vars, StepAtEnd, Nop, Halt, Halted, Stub, Unknown, PushConstant, Pop, Arithmetic, Jump, JumpIfFalse,
                LoadLocal, Refuse, memory, frameVars, localVars
  <2>. QED
    BY <1>0, <2>1, <1>OwnQuiet
<1>. QED
  BY <1>1, <1>2, <1>3, <1>4, <1>5 DEF Next

\* The slots of an activation stay in its window (aivm_local_set, aivm_frame_push).
LEMMA OwnInvariant == Spec => [](Inv /\ OwnInWindow)
<1>1. Init => OwnInWindow
  <2> SUFFICES ASSUME Init PROVE OwnInWindow
    OBVIOUS
  <2>1. Len(frames) = 0 /\ own[1] = {}
    BY DEF Init, Fresh
  <2>. QED
    BY <2>1 DEF OwnInWindow
<1>2. Inv /\ Inv' /\ OwnInWindow /\ [Next]_vars => OwnInWindow'
  BY OwnStep
<1>. QED
  BY <1>1, <1>2, InvCorrect, PTL DEF Spec
=============================================================================
