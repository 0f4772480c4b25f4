------------------------ MODULE ActivationsProofs ------------------------
(***************************************************************************)
(* The interpreter implements Activations, for every program and capacity. *)
(***************************************************************************)
EXTENDS CallStackProofs

\* Prover time limits, in seconds.
USE SMTT(30), ZenonT(30)

(***************************************************************************)
(* The activations that the arrays stand for.                              *)
(***************************************************************************)
\* A part of a sequence.
LEMMA PartFacts ==
    ASSUME NEW S, NEW s \in Seq(S), NEW m \in Nat, NEW n \in Nat, m <= n, n <= Len(s)
    PROVE  /\ SubSeq(s, m + 1, n) \in Seq(S) /\ Len(SubSeq(s, m + 1, n)) = n - m
           /\ \A i \in 1..(n - m) : SubSeq(s, m + 1, n)[i] = s[m + i]
           /\ SubSeq(s, m + 1, n) = [i \in 1..(n - m) |-> s[m + i]]
<1>1. SubSeq(s, m + 1, n) = [i \in 1..(n - m) |-> s[m + i]]
  <2>1. SubSeq(s, m + 1, n) = [i \in 1..(1 + n - (m + 1)) |-> s[i + (m + 1) - 1]]
    OBVIOUS
  <2>2. 1 + n - (m + 1) = n - m /\ \A i \in 1..(n - m) : i + (m + 1) - 1 = m + i
    OBVIOUS
  <2>. QED
    BY <2>1, <2>2
<1>2. n - m \in Nat /\ \A i \in 1..(n - m) : m + i \in 1..Len(s)
  OBVIOUS
<1>3. [i \in 1..(n - m) |-> s[m + i]] \in Seq(S)
  BY <1>2
<1>. QED
  BY <1>1, <1>2, <1>3

\* The same part of two sequences that agree so far.
Agree(s, t, n) == \A i \in 1..n : t[i] = s[i]
Alike(s, t, m, n) == SubSeq(t, m + 1, n) = SubSeq(s, m + 1, n)

LEMMA SamePart ==
    ASSUME NEW S, NEW s \in Seq(S), NEW t \in Seq(S), NEW m \in Nat, NEW n \in Nat,
           m <= n, n <= Len(s), n <= Len(t), Agree(s, t, n)
    PROVE  Alike(s, t, m, n)
<1>1. SubSeq(s, m + 1, n) = [i \in 1..(n - m) |-> s[m + i]]
  BY PartFacts
<1>2. SubSeq(t, m + 1, n) = [i \in 1..(n - m) |-> t[m + i]]
  BY PartFacts
<1>3. \A i \in 1..(n - m) : m + i \in 1..n
  OBVIOUS
<1>. QED
  BY Zenon, <1>1, <1>2, <1>3 DEF Agree, Alike

LEMMA BelowNext ==
    ASSUME NEW a \in Nat, NEW i \in Nat, NEW b \in Nat, a + i < b
    PROVE  a + i \in 0..(b - 1)
  OBVIOUS

\* Sequences with the same elements.
LEMMA SameSeq ==
    ASSUME NEW S, NEW a \in Seq(S), NEW b \in Seq(S), Len(a) = Len(b), \A i \in 1..Len(a) : a[i] = b[i]
    PROVE  a = b
OBVIOUS

OperandsStart(k) == IF k = 1 THEN 0 ELSE frames[k - 1].base
OperandsEnd(k) == IF k > Len(frames) THEN Len(stack) ELSE frames[k].base

\* An activation, by its windows.
LEMMA ActivationIs ==
    ASSUME NEW k
    PROVE  Activation(k) = [ret |-> IF k = 1 THEN 0 ELSE frames[k - 1].ret,
                            operands |-> SubSeq(stack, OperandsStart(k) + 1, OperandsEnd(k)),
                            locals |-> [i \in own[k] |-> locals[LocalsStart(k) + i]]]
BY DEF Activation, OperandsStart, OperandsEnd, LocalsStart

\* An activation below the innermost one is what it was as long as nothing
\* below the next one's bases changes.
LEMMA SameActivation ==
    ASSUME Inv, OwnInWindow, NEW k \in 1..Len(frames), Len(frames') \in Nat, k <= Len(frames'),
           frames'[k] = frames[k], k # 1 => frames'[k - 1] = frames[k - 1], own'[k] = own[k],
           stack' \in Seq(Values), frames[k].base <= Len(stack), frames[k].base <= Len(stack'),
           \A i \in 1..frames[k].base : stack'[i] = stack[i],
           \A i \in 0..(frames[k].localsBase - 1) : locals'[i] = locals[i]
    PROVE  Activation(k)' = Activation(k)
<1>0. stack \in Seq(Values) /\ Len(frames) \in Nat /\ Len(stack) \in Nat
  BY DEF Inv, StackOK, FramesOK
<1>1. /\ OperandsStart(k)' = OperandsStart(k) /\ LocalsStart(k)' = LocalsStart(k)
      /\ (IF k = 1 THEN 0 ELSE frames[k - 1].ret)' = IF k = 1 THEN 0 ELSE frames[k - 1].ret
  BY DEF OperandsStart, LocalsStart
<1>2. OperandsEnd(k)' = frames[k].base /\ OperandsEnd(k) = frames[k].base /\ LocalsEnd(k) = frames[k].localsBase
  BY <1>0 DEF OperandsEnd, LocalsEnd
<1>3. frames[k].base \in Nat /\ frames[k].localsBase \in Nat
  BY FrameElements DEF Inv
<1>4. OperandsStart(k) \in Nat /\ OperandsStart(k) <= frames[k].base
  <2>1. CASE k = 1
    BY <1>3, <2>1 DEF OperandsStart
  <2>2. CASE k # 1
    <3>1. k - 1 \in 1..Len(frames) /\ k - 1 <= k
      BY <1>0, <2>2
    <3>2. frames[k - 1].base \in Nat
      BY <3>1, FrameElements DEF Inv
    <3>3. frames[k - 1].base <= frames[k].base
      BY <3>1 DEF Inv, FramesNested
    <3>. QED
      BY <2>2, <3>2, <3>3 DEF OperandsStart
  <2>. QED
    BY <2>1, <2>2
<1>5. SubSeq(stack', OperandsStart(k) + 1, frames[k].base) = SubSeq(stack, OperandsStart(k) + 1, frames[k].base)
  <2> DEFINE m == OperandsStart(k)
             n == frames[k].base
  <2>1. m \in Nat /\ n \in Nat /\ m <= n /\ n <= Len(stack) /\ n <= Len(stack') /\ \A i \in 1..n : stack'[i] = stack[i]
    BY <1>3, <1>4
  <2> HIDE DEF m, n
  <2>2. SubSeq(stack', m + 1, n) = SubSeq(stack, m + 1, n)
    <3>1. Agree(stack, stack', n)
      BY Zenon, <2>1 DEF Agree
    <3>2. m \in Nat /\ n \in Nat /\ m <= n /\ n <= Len(stack) /\ n <= Len(stack')
      BY Zenon, <2>1
    <3>3. Alike(stack, stack', m, n)
      BY Zenon, <1>0, <3>1, <3>2, SamePart
    <3>. QED
      BY Zenon, <3>3 DEF Alike
  <2>. QED
    BY Zenon, <2>2 DEF m, n
<1>6. [i \in own[k] |-> locals'[LocalsStart(k) + i]] = [i \in own[k] |-> locals[LocalsStart(k) + i]]
  <2>1. ASSUME NEW i \in own[k] PROVE locals'[LocalsStart(k) + i] = locals[LocalsStart(k) + i]
    <3>1. k \in 1..(Len(frames) + 1)
      BY <1>0
    <3>2. LocalsStart(k) \in Nat /\ i \in Nat /\ LocalsStart(k) + i < frames[k].localsBase
      BY <1>2, <3>1, WindowTypes DEF OwnInWindow
    <3>. QED
      BY Zenon, <1>3, <3>2, BelowNext
  <2>. QED
    BY Zenon, <2>1
<1>7. Activation(k) = [ret |-> IF k = 1 THEN 0 ELSE frames[k - 1].ret,
                       operands |-> SubSeq(stack, OperandsStart(k) + 1, frames[k].base),
                       locals |-> [i \in own[k] |-> locals[LocalsStart(k) + i]]]
  BY <1>2, ActivationIs
<1>8. Activation(k)' = [ret |-> IF k = 1 THEN 0 ELSE frames[k - 1].ret,
                        operands |-> SubSeq(stack', OperandsStart(k) + 1, frames[k].base),
                        locals |-> [i \in own[k] |-> locals'[LocalsStart(k) + i]]]
  BY Zenon, <1>1, <1>2 DEF Activation, OperandsStart, OperandsEnd, LocalsStart
<1>9. PICK r, o, l : /\ r = IF k = 1 THEN 0 ELSE frames[k - 1].ret
                     /\ o = SubSeq(stack, OperandsStart(k) + 1, frames[k].base)
                     /\ l = [i \in own[k] |-> locals[LocalsStart(k) + i]]
  BY Zenon
<1>10. Activation(k) = [ret |-> r, operands |-> o, locals |-> l]
  BY <1>7, <1>9
<1>11. Activation(k)' = [ret |-> r, operands |-> o, locals |-> l]
  BY Zenon, <1>5, <1>6, <1>8, <1>9
<1>. QED
  BY <1>10, <1>11


\* What s holds above b.
Above(s, b) == SubSeq(s, b + 1, Len(s))

\* The innermost activation.
CurrentRet == IF frames = << >> THEN 0 ELSE Frame.ret
CurrentLocals == [i \in own[Len(frames) + 1] |-> locals[LocalsBase + i]]
Current == [ret |-> CurrentRet, operands |-> Above(stack, FrameBase), locals |-> CurrentLocals]

LEMMA CurrentIs ==
    ASSUME FramesOK
    PROVE  Activation(Len(frames) + 1) = Current
<1> DEFINE d == Len(frames) + 1
<1>1. Len(frames) \in Nat /\ (frames = << >> <=> Len(frames) = 0)
  BY DEF FramesOK
<1>2. /\ (d = 1 <=> frames = << >>) /\ d > Len(frames) /\ d - 1 = Len(frames)
  BY <1>1
<1> HIDE DEF d
<1>3. /\ OperandsStart(d) = FrameBase /\ LocalsStart(d) = LocalsBase /\ OperandsEnd(d) = Len(stack)
      /\ (IF d = 1 THEN 0 ELSE frames[d - 1].ret) = IF frames = << >> THEN 0 ELSE Frame.ret
  BY <1>2 DEF OperandsStart, LocalsStart, OperandsEnd, FrameBase, LocalsBase, Frame
<1>4. Activation(d) = [ret |-> IF frames = << >> THEN 0 ELSE Frame.ret,
                       operands |-> SubSeq(stack, FrameBase + 1, Len(stack)),
                       locals |-> [i \in own[d] |-> locals[LocalsBase + i]]]
  BY <1>3, ActivationIs
<1>. QED
  BY <1>4 DEF Current, CurrentRet, CurrentLocals, Above, d

\* The abstract state, and its depth and top.
Acts == IF Lost THEN << >> ELSE [k \in 1..(Len(frames) + 1) |-> Activation(k)]

TopShown ==
    /\ Acts = [k \in 1..(Len(frames) + 1) |-> Activation(k)] /\ Len(frames) \in Nat
    /\ Len(Acts) = Len(frames) + 1 /\ Acts # << >> /\ Acts[Len(frames) + 1] = Current

LEMMA ActsShown == FramesOK /\ ~Lost => TopShown
<1> SUFFICES ASSUME FramesOK, ~Lost PROVE TopShown
  OBVIOUS
<1>1. Len(frames) \in Nat
  BY DEF FramesOK
<1>2. Acts = [k \in 1..(Len(frames) + 1) |-> Activation(k)]
  BY DEF Acts
<1>3. Len(Acts) = Len(frames) + 1 /\ Acts # << >>
  <2>1. PICK n : n = Len(frames) + 1
    OBVIOUS
  <2>2. n \in Nat /\ n # 0 /\ Acts = [k \in 1..n |-> Activation(k)]
    BY <1>1, <1>2, <2>1
  <2>. QED
    BY <2>1, <2>2
<1>4. Acts[Len(frames) + 1] = Current
  <2>1. Len(frames) + 1 \in 1..(Len(frames) + 1)
    BY <1>1
  <2>. QED
    BY <1>2, <2>1, CurrentIs
<1>. QED
  BY <1>1, <1>2, <1>3, <1>4 DEF TopShown

LEMMA ActsShownNext == FramesOK' /\ ~Lost' => TopShown'
BY ActsShown, PTL

\* Depth and Top of Activations.
LEMMA TopFacts ==
    ASSUME TopShown
    PROVE  A!Depth = Len(frames) + 1 /\ A!Top = Current
<1>1. A!Depth = Len(Acts)
  BY DEF A!Depth, Acts
<1>2. A!Top = Acts[A!Depth]
  BY DEF A!Top, Acts
<1>. QED
  BY <1>1, <1>2 DEF TopShown

\* The activations below the innermost one, when an instruction stays within it.
LEMMA Becoming ==
    ASSUME Inv, Inv', OwnInWindow, ~Lost, ~Lost', Within,
           \A k \in 1..Len(frames) : own'[k] = own[k],
           NEW a, a = Current'
    PROVE  A!Becomes(a)
<1>0. /\ FramesOK /\ FramesOK' /\ frames' = frames /\ Len(frames) \in Nat /\ stack' \in Seq(Values)
      /\ stack \in Seq(Values) /\ Len(stack) \in Nat /\ Len(stack') \in Nat /\ FrameBase <= Len(stack)
  BY DEF Inv, FramesOK, StackOK, Within, FramesOnStack, Lost
<1>1. ASSUME NEW k \in 1..Len(frames) PROVE Activation(k)' = Activation(k)
  <2>1. /\ frames[k].base \in Nat /\ frames[k].localsBase \in Nat
        /\ frames[k].base <= FrameBase /\ frames[k].localsBase <= LocalsBase /\ FrameBase \in Nat /\ LocalsBase \in Nat
    <3>1. frames # << >> /\ Len(frames) \in 1..Len(frames) /\ k <= Len(frames)
      BY <1>0
    <3>2. FrameBase = Frame.base /\ LocalsBase = Frame.localsBase /\ FrameBase \in Nat /\ LocalsBase \in Nat
      BY <1>0, <3>1, BaseFacts
    <3>3. frames[k].base <= frames[Len(frames)].base /\ frames[k].localsBase <= frames[Len(frames)].localsBase
      BY <3>1 DEF Inv, FramesNested
    <3>4. frames[k].base \in Nat /\ frames[k].localsBase \in Nat
      BY <1>0, FrameElements
    <3>. QED
      BY <3>2, <3>3, <3>4 DEF Frame
  <2>2. frames[k].base <= Len(stack) /\ frames[k].base <= Len(stack')
    BY <1>0, <2>1 DEF Within
  <2>3. \A i \in 1..frames[k].base : stack'[i] = stack[i]
    BY <2>1 DEF Within
  <2>4. \A i \in 0..(frames[k].localsBase - 1) : locals'[i] = locals[i]
    BY <2>1 DEF Within
  <2>5. k <= Len(frames') /\ Len(frames') \in Nat
    BY <1>0
  <2>. QED
    BY <1>0, <2>2, <2>3, <2>4, <2>5, SameActivation
<1>2. TopShown /\ TopShown' /\ A!Depth = Len(frames) + 1
  BY <1>0, ActsShown, ActsShownNext, TopFacts
<1>3. PICK d : d = Len(frames) + 1
  OBVIOUS
<1>4. /\ d \in Nat /\ Acts = [k \in 1..d |-> Activation(k)] /\ Acts' = [k \in 1..d |-> Activation(k)'] /\ Acts'[d] = a
      /\ d \in 1..d
  BY <1>0, <1>2, <1>3 DEF TopShown
<1>5. \A k \in 1..d : k # d => k \in 1..Len(frames)
  BY <1>0, <1>3
<1>6. \A k \in 1..d : Acts'[k] = IF k = d THEN a ELSE Acts[k]
  BY <1>1, <1>4, <1>5
<1>7. Acts' = [k \in 1..d |-> IF k = d THEN a ELSE Acts[k]]
  <2>1. Acts' = [k \in 1..d |-> Acts'[k]]
    BY <1>4
  <2>. QED
    BY <1>6, <2>1
<1>8. Acts' = [Acts EXCEPT ![d] = a]
  BY Zenon, <1>4, <1>7
<1>. QED
  BY <1>2, <1>3, <1>8 DEF A!Becomes, Acts


\* Taking n elements from above b.
LEMMA AboveTake ==
    ASSUME NEW S, NEW s \in Seq(S), NEW b \in Nat, NEW n \in Nat, b + n <= Len(s)
    PROVE  /\ Above(s, b) \in Seq(S) /\ Len(Above(s, b)) = Len(s) - b /\ n \in 0..Len(Above(s, b))
           /\ Above(SubSeq(s, 1, Len(s) - n), b) = A!Prefix(Above(s, b), n)
           /\ SubSeq(s, b + 1, Len(s) - n) = A!Prefix(Above(s, b), n)
           /\ SubSeq(s, Len(s) - n + 1, Len(s)) = A!Suffix(Above(s, b), n)
           /\ n > 0 => Above(s, b)[Len(Above(s, b))] = s[Len(s)]
<1> DEFINE w == Above(s, b)
           l == Len(s)
           m == l - n
<1>1. l \in Nat /\ m \in Nat /\ b <= m /\ m <= l /\ b <= l
  OBVIOUS
<1>2. w \in Seq(S) /\ Len(w) = l - b /\ \A i \in 1..(l - b) : w[i] = s[b + i]
  BY <1>1, PartFacts DEF Above
<1>3. n \in 0..Len(w) /\ Len(w) - n \in Nat /\ Len(w) - n = m - b
  BY <1>1, <1>2
<1>4. /\ A!Prefix(w, n) \in Seq(S) /\ Len(A!Prefix(w, n)) = m - b
      /\ \A i \in 1..(m - b) : A!Prefix(w, n)[i] = s[b + i]
  <2> HIDE DEF w
  <2>1. A!Prefix(w, n) = SubSeq(w, 0 + 1, Len(w) - n)
    BY DEF A!Prefix
  <2>2. /\ SubSeq(w, 0 + 1, Len(w) - n) \in Seq(S) /\ Len(SubSeq(w, 0 + 1, Len(w) - n)) = Len(w) - n - 0
        /\ \A i \in 1..(Len(w) - n - 0) : SubSeq(w, 0 + 1, Len(w) - n)[i] = w[0 + i]
    BY <1>2, <1>3, PartFacts
  <2>. QED
    <3>1. Len(w) - n - 0 = m - b /\ \A i \in 1..(m - b) : 0 + i = i /\ i \in 1..(l - b)
      BY <1>1, <1>3
    <3>. QED
      BY Zenon, <1>2, <1>3, <2>1, <2>2, <3>1
<1>5. /\ SubSeq(s, b + 1, m) \in Seq(S) /\ Len(SubSeq(s, b + 1, m)) = m - b
      /\ \A i \in 1..(m - b) : SubSeq(s, b + 1, m)[i] = s[b + i]
  BY <1>1, PartFacts
<1>6. SubSeq(s, b + 1, m) = A!Prefix(w, n)
  <2> HIDE DEF w, m
  <2>. QED
    BY Zenon, <1>4, <1>5, SameSeq
<1>7. Above(SubSeq(s, 1, m), b) = SubSeq(s, b + 1, m)
  <2> DEFINE t == SubSeq(s, 1, m)
  <2>1. t \in Seq(S) /\ Len(t) = m /\ \A i \in 1..m : t[i] = s[i]
    BY <1>1
  <2> HIDE DEF t, m
  <2>2. /\ Above(t, b) \in Seq(S) /\ Len(Above(t, b)) = m - b
        /\ \A i \in 1..(m - b) : Above(t, b)[i] = t[b + i]
    <3>1. Above(t, b) = SubSeq(t, b + 1, m) /\ m <= Len(t)
      BY <1>1, <2>1 DEF Above
    <3>. QED
      BY <1>1, <2>1, <3>1, PartFacts
  <2>3. ASSUME NEW i \in 1..(m - b) PROVE Above(t, b)[i] = s[b + i]
    <3>1. b + i \in 1..m
      BY <1>1
    <3>. QED
      BY <2>1, <2>2, <3>1
  <2>4. Above(t, b) = SubSeq(s, b + 1, m)
    BY Zenon, <1>5, <2>2, <2>3, SameSeq
  <2>. QED
    BY <2>4 DEF t
<1>8. SubSeq(s, m + 1, l) = A!Suffix(w, n)
  <2>1. /\ SubSeq(s, m + 1, l) \in Seq(S) /\ Len(SubSeq(s, m + 1, l)) = l - m
        /\ \A i \in 1..(l - m) : SubSeq(s, m + 1, l)[i] = s[m + i]
    BY <1>1, PartFacts
  <2> HIDE DEF w
  <2>2. A!Suffix(w, n) = SubSeq(w, Len(w) - n + 1, Len(w))
    BY DEF A!Suffix
  <2>3. /\ A!Suffix(w, n) \in Seq(S) /\ Len(A!Suffix(w, n)) = Len(w) - (Len(w) - n)
        /\ \A i \in 1..(Len(w) - (Len(w) - n)) : A!Suffix(w, n)[i] = w[Len(w) - n + i]
    BY <1>2, <1>3, <2>2, PartFacts
  <2>4. /\ Len(A!Suffix(w, n)) = l - m /\ \A i \in 1..(l - m) : A!Suffix(w, n)[i] = s[m + i]
    <3>1. l - m = n /\ Len(w) - (Len(w) - n) = n
      BY <1>1, <1>2, <1>3
    <3>2. ASSUME NEW i \in 1..n PROVE A!Suffix(w, n)[i] = s[m + i]
      <4>1. A!Suffix(w, n)[i] = w[Len(w) - n + i]
        BY <2>3, <3>1
      <4>2. Len(w) - n + i \in 1..(l - b) /\ b + (Len(w) - n + i) = m + i
        BY <1>1, <1>2, <1>3
      <4>. QED
        BY Zenon, <1>2, <4>1, <4>2
    <3>. QED
      BY <2>3, <3>1, <3>2
  <2> HIDE DEF m, l
  <2>. QED
    BY Zenon, <2>1, <2>3, <2>4, SameSeq
<1>9. n > 0 => w[Len(w)] = s[l]
  <2> HIDE DEF w
  <2>1. n > 0 => Len(w) \in 1..(l - b) /\ b + Len(w) = l
    BY <1>1, <1>2, <1>3
  <2> HIDE DEF l
  <2>. QED
    BY Zenon, <1>2, <2>1
<1>. QED
  BY Zenon, <1>2, <1>3, <1>6, <1>7, <1>8, <1>9

\* Pushing above b.
LEMMA AboveAppend ==
    ASSUME NEW S, NEW s \in Seq(S), NEW b \in Nat, b <= Len(s), NEW v \in S
    PROVE  Above(Append(s, v), b) = Append(Above(s, b), v)
<1> DEFINE w == Above(s, b)
           t == Append(s, v)
<1>1. w \in Seq(S) /\ Len(w) = Len(s) - b /\ Len(s) \in Nat /\ \A i \in 1..(Len(s) - b) : w[i] = s[b + i]
  BY PartFacts DEF Above
<1>2. t \in Seq(S) /\ Len(t) = Len(s) + 1 /\ (\A i \in 1..Len(s) : t[i] = s[i]) /\ t[Len(s) + 1] = v
  OBVIOUS
<1> HIDE DEF w, t
<1>3. /\ Above(t, b) \in Seq(S) /\ Len(Above(t, b)) = Len(t) - b
      /\ \A i \in 1..(Len(t) - b) : Above(t, b)[i] = t[b + i]
  BY <1>1, <1>2, PartFacts DEF Above
<1>4. /\ Append(w, v) \in Seq(S) /\ Len(Append(w, v)) = Len(w) + 1
      /\ (\A i \in 1..Len(w) : Append(w, v)[i] = w[i]) /\ Append(w, v)[Len(w) + 1] = v
  BY <1>1
<1>5. \A i \in 1..(Len(t) - b) : Above(t, b)[i] = Append(w, v)[i]
  <2> SUFFICES ASSUME NEW i \in 1..(Len(t) - b) PROVE Above(t, b)[i] = Append(w, v)[i]
    BY Zenon
  <2>1. CASE i \in 1..Len(w)
    <3>1. b + i \in 1..Len(s) /\ i \in 1..(Len(s) - b)
      BY <1>1, <2>1
    <3>. QED
      BY Zenon, <1>1, <1>2, <1>3, <1>4, <2>1, <3>1
  <2>2. CASE i \notin 1..Len(w)
    <3>1. i = Len(w) + 1 /\ b + i = Len(s) + 1
      BY <1>1, <1>2, <2>2
    <3>. QED
      BY Zenon, <1>2, <1>3, <1>4, <3>1
  <2>. QED
    BY Zenon, <2>1, <2>2
<1>6. Len(Append(w, v)) = Len(t) - b
  BY <1>1, <1>2, <1>4
<1>7. Above(t, b) = Append(w, v)
  BY <1>3, <1>4, <1>5, <1>6, SameSeq
<1>. QED
  BY <1>7 DEF w, t


\* Replacing what is above b.
LEMMA AboveReplaced ==
    ASSUME NEW S, NEW s \in Seq(S), NEW b \in Nat, b <= Len(s), NEW t \in Seq(S)
    PROVE  Above(SubSeq(s, 1, b) \o t, b) = t
<1> DEFINE low == SubSeq(s, 1, b)
           u == low \o t
<1>1. low \in Seq(S) /\ Len(low) = b
  OBVIOUS
<1> HIDE DEF low
<1>2. /\ u \in Seq(S) /\ Len(u) = b + Len(t) /\ Len(t) \in Nat
      /\ \A i \in 1..Len(t) : u[b + i] = t[i]
  <2>1. /\ low \o t \in Seq(S) /\ Len(low \o t) = Len(low) + Len(t) /\ Len(t) \in Nat
        /\ \A i \in 1..Len(t) : (low \o t)[Len(low) + i] = t[i]
    <3>1. low \in Seq(S) /\ t \in Seq(S)
      BY <1>1
    <3>. QED
      BY <3>1
  <2>. QED
    BY <1>1, <2>1
<1> HIDE DEF u
<1>3. b <= Len(u) /\ Len(u) \in Nat /\ Len(u) - b = Len(t)
  BY <1>2
<1>4. /\ Above(u, b) \in Seq(S) /\ Len(Above(u, b)) = Len(u) - b
      /\ \A i \in 1..(Len(u) - b) : Above(u, b)[i] = u[b + i]
  BY <1>2, <1>3, PartFacts DEF Above
<1>5. Len(Above(u, b)) = Len(t) /\ \A i \in 1..Len(t) : Above(u, b)[i] = t[i]
  BY <1>2, <1>3, <1>4
<1>6. Above(u, b) = t
  BY <1>4, <1>5, SameSeq
<1>. QED
  BY <1>6 DEF u, low

\* What is above c is what lies between c and b, and what is above b.
LEMMA AboveJoined ==
    ASSUME NEW S, NEW s \in Seq(S), NEW c \in Nat, NEW b \in Nat, c <= b, b <= Len(s)
    PROVE  Above(s, c) = SubSeq(s, c + 1, b) \o Above(s, b)
<1> DEFINE x == SubSeq(s, c + 1, b)
           y == Above(s, b)
<1>0. Len(s) \in Nat /\ c <= Len(s)
  OBVIOUS
<1>1. x \in Seq(S) /\ Len(x) = b - c /\ \A i \in 1..(b - c) : x[i] = s[c + i]
  BY PartFacts
<1>2. y \in Seq(S) /\ Len(y) = Len(s) - b /\ \A i \in 1..(Len(s) - b) : y[i] = s[b + i]
  BY <1>0, PartFacts DEF Above
<1>3. /\ Above(s, c) \in Seq(S) /\ Len(Above(s, c)) = Len(s) - c
      /\ \A i \in 1..(Len(s) - c) : Above(s, c)[i] = s[c + i]
  BY <1>0, PartFacts DEF Above
<1> HIDE DEF x, y
<1>4. /\ x \o y \in Seq(S) /\ Len(x \o y) = Len(x) + Len(y)
      /\ \A i \in 1..Len(x) : (x \o y)[i] = x[i]
      /\ \A i \in 1..Len(y) : (x \o y)[Len(x) + i] = y[i]
  <2>1. x \in Seq(S) /\ y \in Seq(S)
    BY <1>1, <1>2
  <2>. QED
    BY <2>1
<1>5. Len(x \o y) = Len(s) - c
  BY <1>0, <1>1, <1>2, <1>4
<1>6. ASSUME NEW i \in 1..(Len(s) - c) PROVE (x \o y)[i] = s[c + i]
  <2>1. CASE i <= b - c
    <3>1. i \in 1..(b - c)
      BY <2>1
    <3>. QED
      BY <1>1, <1>4, <3>1
  <2>2. CASE ~(i <= b - c)
    <3>1. PICK j : j = i - (b - c)
      OBVIOUS
    <3>2. j \in 1..(Len(s) - b) /\ i = (b - c) + j /\ c + i = b + j
      BY <1>0, <2>2, <3>1
    <3>3. (x \o y)[Len(x) + j] = y[j] /\ y[j] = s[b + j]
      BY <1>2, <1>4, <3>2
    <3>. QED
      BY <1>1, <3>2, <3>3
  <2>. QED
    BY Zenon, <2>1, <2>2
<1>7. Above(s, c) = x \o y
  BY Zenon, <1>3, <1>4, <1>5, <1>6, SameSeq
<1>. QED
  BY <1>7 DEF x, y


\* The innermost activation while the frames stay.
LEMMA CurrentStays ==
    ASSUME frames' = frames
    PROVE  /\ FrameBase' = FrameBase /\ LocalsBase' = LocalsBase /\ CurrentRet' = CurrentRet
           /\ own' = own /\ locals' = locals => CurrentLocals' = CurrentLocals
BY DEF FrameBase, LocalsBase, Frame, CurrentRet, CurrentLocals

\* What the abstract state shows of a machine that is not lost.
LEMMA AbstractFacts ==
    ASSUME Inv, Inv', ~Lost, ~Lost'
    PROVE  /\ A!Depth = Len(frames) + 1 /\ A!Top = Current /\ Acts # << >>
           /\ Acts' # << >> /\ Acts'[Len(Acts')] = Current'
           /\ stack \in Seq(Values) /\ FrameBase \in Nat /\ FrameBase <= Len(stack) /\ Len(stack) \in Nat
<1>1. TopShown /\ TopShown'
  BY ActsShown, ActsShownNext DEF Inv
<1>2. Acts' # << >> /\ Acts'[Len(Acts')] = Current'
  BY <1>1 DEF TopShown
<1>. QED
  <2>1. A!Depth = Len(frames) + 1 /\ A!Top = Current
    BY Zenon, <1>1, TopFacts
  <2>2. Acts # << >>
    BY Zenon, <1>1 DEF TopShown
  <2>3. stack \in Seq(Values)
    BY Zenon DEF Inv, StackOK
  <2>4. Len(stack) \in Nat
    BY <2>3
  <2>5. FrameBase \in Nat /\ FrameBase <= Len(stack)
    BY BaseFacts DEF Inv, FramesOnStack, Lost
  <2>. QED
    BY Zenon, <1>2, <2>1, <2>2, <2>3, <2>4, <2>5

\* No locals.
LEMMA NoLocals ==
    ASSUME NEW f, NEW b
    PROVE  [i \in {} |-> f[b + i]] = << >>
OBVIOUS

\* What a call that goes well does, before the frame.
LEMMA CallFacts ==
    ASSUME Inv, Call, ~Lost'
    PROVE  /\ ip < Count /\ Instr.op = "CALL" /\ Instr.arg \in 0..(Count - 1)
           /\ ArgCount(Instr.arg) \in Nat /\ FrameBase + ArgCount(Instr.arg) <= Len(stack)
           /\ IF InTailPosition THEN ReplaceFrame(ArgCount(Instr.arg)) ELSE PushFrame(ArgCount(Instr.arg))
<1> DEFINE argc == ArgCount(Instr.arg)
<1>0. /\ ControlOK /\ StackOK /\ FramesOK /\ stack \in Seq(Values) /\ Len(stack) \in Nat /\ FrameBase \in Nat
      /\ ip < Count /\ Instr.op = "CALL"
  BY BaseFacts DEF Inv, StackOK, Call, Runs
<1>1. Instr.arg \in 0..(Count - 1) /\ CallError(Instr.arg, argc) = "none"
  BY DEF Call, Refuse, Fail, Lost
<1>2. IF InTailPosition THEN ReplaceFrame(argc) ELSE PushFrame(argc)
  BY <1>1 DEF Call
<1> HIDE DEF argc
<1>3. argc \in Nat /\ argc <= Len(stack) /\ FrameBase <= Len(stack) - argc
  BY <1>1, CallErrorFacts
<1>5. FrameBase + argc <= Len(stack)
  BY <1>0, <1>3
<1>. QED
  BY <1>0, <1>1, <1>2, <1>3, <1>5 DEF argc

\* Append, by its elements.
LEMMA AppendIs ==
    ASSUME NEW S, NEW s \in Seq(S), NEW e \in S
    PROVE  Append(s, e) = [k \in 1..(Len(s) + 1) |-> IF k = Len(s) + 1 THEN e ELSE s[k]]
<1> DEFINE u == Append(s, e)
<1>1. /\ u \in Seq(S) /\ Len(u) = Len(s) + 1 /\ u[Len(s) + 1] = e /\ Len(s) \in Nat
      /\ \A k \in 1..Len(s) : u[k] = s[k]
  OBVIOUS
<1> HIDE DEF u
<1>2. u = [k \in 1..(Len(s) + 1) |-> u[k]]
  <2>1. u = [k \in 1..Len(u) |-> u[k]]
    BY <1>1
  <2>. QED
    BY <1>1, <2>1
<1>3. ASSUME NEW k \in 1..(Len(s) + 1) PROVE u[k] = IF k = Len(s) + 1 THEN e ELSE s[k]
  BY <1>1
<1>4. u = [k \in 1..(Len(s) + 1) |-> IF k = Len(s) + 1 THEN e ELSE s[k]]
  BY <1>2, <1>3
<1>. QED
  BY <1>4 DEF u

\* On a return that goes well the stack stays as it is: what is above the
\* frame's base is the result, and it is already in its place.
LEMMA ReturnStack ==
    ASSUME Inv, frames # << >>, ReturnError = "none", RestoreCaller
    PROVE  /\ stack' = stack /\ Frame.base \in Nat /\ Frame.base <= Len(stack) /\ Len(stack) <= Frame.base + 1
<1>0. stack \in Seq(Values) /\ Len(stack) \in Nat /\ FramesOK
  BY DEF Inv, StackOK
<1>1. Frame.base \in Nat
  BY <1>0, BaseFacts DEF Frames
<1>2. Frame.base <= Len(stack) /\ Len(stack) <= Frame.base + 1
  <2>1. ~(Frame.base > Len(stack)) /\ ~(Len(stack) > Frame.base + 1)
    BY DEF ReturnError
  <2>. QED
    BY <1>0, <1>1, <2>1
<1>3. CASE Len(stack) > Frame.base
  <2>1. PICK b : b = Frame.base
    OBVIOUS
  <2>2. b \in Nat /\ Len(stack) = b + 1
    BY <1>0, <1>1, <1>2, <1>3, <2>1
  <2>3. stack' = Append(SubSeq(stack, 1, b), stack[Len(stack)])
    BY Zenon, <1>3, <2>1 DEF RestoreCaller
  <2>4. Append(SubSeq(stack, 1, b), stack[b + 1]) = stack
    <3> DEFINE low == SubSeq(stack, 1, b)
               v == stack[b + 1]
    <3>1. /\ low \in Seq(Values) /\ Len(low) = b /\ v \in Values
          /\ \A i \in 1..b : low[i] = stack[i]
      BY <1>0, <2>2
    <3>2. b + 1 \in 1..(b + 1) /\ stack[b + 1] = v
      BY <2>2
    <3> HIDE DEF low, v
    <3>3. /\ Append(low, v) \in Seq(Values) /\ Len(Append(low, v)) = b + 1 /\ Append(low, v)[b + 1] = v
          /\ \A i \in 1..b : Append(low, v)[i] = low[i]
      BY <3>1
    <3>4. \A i \in 1..(b + 1) : Append(low, v)[i] = stack[i]
      BY <2>2, <3>1, <3>2, <3>3
    <3>5. Append(low, v) = stack
      BY <1>0, <2>2, <3>3, <3>4, SameSeq
    <3>. QED
      BY Zenon, <3>5 DEF low, v
  <2>. QED
    BY <1>1, <1>2, <2>2, <2>3, <2>4
<1>4. CASE ~(Len(stack) > Frame.base)
  BY <1>1, <1>2, <1>4 DEF RestoreCaller, stackVars
<1>. QED
  BY <1>3, <1>4

\* The start of a program: one activation with nothing in it.
LEMMA StartShown == frames = << >> /\ stack = << >> /\ own = << {} >> /\ ~Lost => Acts = A!Start
<1> SUFFICES ASSUME frames = << >>, stack = << >>, own = << {} >>, ~Lost PROVE Acts = A!Start
  OBVIOUS
<1>1. Len(frames) = 0 /\ Len(stack) = 0
  OBVIOUS
<1>2. Acts = [k \in 1..1 |-> Activation(k)]
  BY <1>1 DEF Acts
<1>3. Activation(1) = [ret |-> 0, operands |-> SubSeq(stack, 0 + 1, 0), locals |-> [i \in {} |-> locals[0 + i]]]
  BY <1>1 DEF Activation
<1>4. SubSeq(stack, 0 + 1, 0) = << >> /\ [i \in {} |-> locals[0 + i]] = << >>
  BY <1>1, NoLocals
<1>5. Activation(1) = [ret |-> 0, operands |-> << >>, locals |-> << >>]
  BY <1>3, <1>4
<1>6. Acts = << Activation(1) >>
  BY <1>2
<1>. QED
  BY <1>5, <1>6 DEF A!Start

LEMMA StartShownNext == (frames = << >> /\ stack = << >> /\ own = << {} >> /\ ~Lost)' => (Acts = A!Start)'
BY StartShown, PTL

\* Every step of the machine is a step of Activations, or none.
LEMMA StepRefines == Inv /\ Inv' /\ OwnInWindow /\ [Next]_vars => [A!Next]_(A!vars)

\* Operands are taken and at most one value is left: Compute.
<1>ComputeRefines. ASSUME Inv, Inv', OwnInWindow, ~Lost, ~Lost', Within, own' = own, locals' = locals,
                          NEW n \in Nat, FrameBase + n <= Len(stack),
                          stack' = Rest(n) \/ \E v \in Values : stack' = Append(Rest(n), v),
                          ip < Count, Instr.op \notin {"LOAD_LOCAL", "STORE_LOCAL", "CALL", "RET"}
                   PROVE  A!Next
  <2> USE <1>ComputeRefines
  <2> DEFINE w == Above(stack, FrameBase)
  <2>0. /\ frames' = frames /\ A!Top = Current /\ Acts # << >> /\ Acts' # << >> /\ Acts'[Len(Acts')] = Current'
        /\ stack \in Seq(Values) /\ FrameBase \in Nat /\ Len(stack) \in Nat
    BY AbstractFacts DEF Within
  <2>1. Current = [ret |-> CurrentRet, operands |-> w, locals |-> CurrentLocals]
    BY DEF Current
  <2>2. Current' = [ret |-> CurrentRet, operands |-> Above(stack', FrameBase), locals |-> CurrentLocals]
    BY <2>0, CurrentStays DEF Current, Above
  <2>3. /\ w \in Seq(Values) /\ n \in 0..Len(w) /\ Above(Rest(n), FrameBase) = A!Prefix(w, n)
    BY <2>0, AboveTake DEF Rest
  <2>4. A!Top.operands = w
    BY <2>0, <2>1
  <2> HIDE DEF w
  <2>5. CASE stack' = Rest(n)
    <3>1. PICK a : a = [A!Top EXCEPT !.operands = A!Prefix(@, n)]
      BY Zenon
    <3>2. a = Current'
      BY <2>0, <2>1, <2>2, <2>3, <2>5, <3>1
    <3>3. A!Becomes(a)
      BY <3>2, Becoming
    <3>4. A!Compute
      BY Zenon, <2>3, <2>4, <3>1, <3>3 DEF A!Compute
    <3>. QED
      BY <2>0, <3>4 DEF A!Next, Acts
  <2>6. ASSUME NEW v \in Values, stack' = Append(Rest(n), v) PROVE A!Next
    <3>1. Above(stack', FrameBase) = Append(A!Prefix(w, n), v)
      <4>1. Rest(n) \in Seq(Values) /\ Len(Rest(n)) = Len(stack) - n
        BY <2>0, RestFacts DEF Inv
      <4>2. PICK r : r = Rest(n)
        OBVIOUS
      <4>3. r \in Seq(Values) /\ FrameBase <= Len(r)
        BY <2>0, <4>1, <4>2
      <4>. QED
        BY <2>0, <2>3, <2>6, <4>2, <4>3, AboveAppend
    <3>2. PICK a : a = [A!Top EXCEPT !.operands = Append(A!Prefix(@, n), v)]
      BY Zenon
    <3>3. a = Current'
      <4>1. PICK r, l, o : r = CurrentRet /\ l = CurrentLocals /\ o = Append(A!Prefix(w, n), v)
        BY Zenon
      <4>2. A!Top = [ret |-> r, operands |-> w, locals |-> l] /\ Current' = [ret |-> r, operands |-> o, locals |-> l]
        BY <2>0, <2>1, <2>2, <3>1, <4>1
      <4>3. a = [A!Top EXCEPT !.operands = o]
        BY <2>4, <3>2, <4>1
      <4>. QED
        BY <4>2, <4>3
    <3>4. A!Becomes(a)
      BY <3>3, Becoming
    <3>5. PICK after : after = Current'.operands
      OBVIOUS
    <3>6. after = Append(A!Prefix(w, n), v) /\ Len(after) > 0 /\ after[Len(after)] = v
      <4>1. PICK p : p = A!Prefix(w, n)
        OBVIOUS
      <4>2. p \in Seq(Values)
        BY <2>3, <4>1 DEF A!Prefix
      <4>3. after = Append(p, v)
        BY <2>2, <3>1, <3>5, <4>1
      <4>. QED
        BY <4>1, <4>2, <4>3
    <3>7. A!Becomes([A!Top EXCEPT !.operands = Append(A!Prefix(@, n), after[Len(after)])])
      BY <3>2, <3>4, <3>6
    <3>8. A!Compute
      BY Zenon, <2>0, <2>3, <2>4, <3>5, <3>6, <3>7 DEF A!Compute, Acts
    <3>. QED
      BY <2>0, <3>8 DEF A!Next, Acts
  <2>. QED
    BY <2>5, <2>6

\* The instructions that keep to operands and control.
<1>PlainRefines. ASSUME Inv, Inv', OwnInWindow, ~Lost, ~Lost',
                        Nop \/ Halt \/ Jump \/ PushConstant \/ Pop \/ Arithmetic \/ JumpIfFalse
                 PROVE  A!Next
  <2> USE <1>PlainRefines
  <2>0. /\ StackOK /\ stack \in Seq(Values) /\ Len(stack) \in Nat /\ FrameBase \in Nat /\ FrameBase + 0 <= Len(stack)
    BY AbstractFacts DEF Inv
  <2>1. ip < Count /\ Instr.op \notin {"LOAD_LOCAL", "STORE_LOCAL", "CALL", "RET"}
    BY Zenon DEF Nop, Halt, Jump, PushConstant, Pop, Arithmetic, JumpIfFalse, Runs
  <2>2. own' = own /\ locals' = locals
    BY DEF Nop, Halt, Halted, Jump, PushConstant, Pop, Arithmetic, JumpIfFalse, Refuse, memory, localVars
  <2>3. Within /\ Took
    <3>1. CASE Pop \/ Arithmetic \/ JumpIfFalse
      BY <3>1, TakeShape DEF Lost
    <3>2. CASE Nop \/ Halt \/ Jump
      <4>1. stack' = Rest(0)
        BY <2>0, <3>2, RestOfNone DEF Nop, Halt, Halted, Jump, Refuse, memory, stackVars
      <4>. QED
        BY Zenon, <2>0, <3>2, <4>1, QuietShape DEF Lost, Took
    <3>3. CASE PushConstant
      <4>1. \E v \in Values : Push(stack, v)
        <5>1. Instr.arg \in Int
          BY <2>1, ProgramFacts DEF Inv
        <5>2. IntValue(Instr.arg) \in Values /\ BoolValue(Instr.arg # 0) \in Values
          BY <5>1 DEF IntValue, BoolValue, Values
        <5>. QED
          BY <3>3, <5>2 DEF PushConstant
      <4>2. \E v \in Values : stack' = Append(Rest(0), v)
        BY <2>0, <4>1, PushAppends, RestOfNone DEF Lost
      <4>. QED
        BY <2>0, <3>3, <4>2, PushShape DEF Lost, Took
    <3>. QED
      BY <3>1, <3>2, <3>3
  <2>4. PICK n \in Nat : /\ FrameBase + n <= Len(stack)
                         /\ stack' = Rest(n) \/ \E v \in Values : stack' = Append(Rest(n), v)
    BY <2>3 DEF Took
  <2>. QED
    BY Zenon, <2>1, <2>2, <2>3, <2>4, <1>ComputeRefines

\* LOAD_LOCAL of a local the activation stored: Load.
<1>LoadRefines. ASSUME Inv, Inv', OwnInWindow, ~Lost, ~Lost', LoadLocal
                PROVE  A!Next
  <2> USE <1>LoadRefines
  <2> DEFINE w == Above(stack, FrameBase)
             arg == Instr.arg
             d == Len(frames) + 1
  <2>0. /\ Within /\ A!Top = Current /\ Acts # << >>
        /\ stack \in Seq(Values) /\ FrameBase \in Nat /\ FrameBase <= Len(stack)
        /\ ip < Count /\ Instr.op = "LOAD_LOCAL" /\ Len(own) = d
    BY Zenon, AbstractFacts, PushShape DEF Lost, LoadLocal, Runs, Inv, FramesOK
  <2>1. ~(arg < 0) /\ ~(StateError(stack) # "none" \/ LocalsBase + arg >= localsCount)
    BY DEF LoadLocal, Refuse, Fail, Lost
  <2>2. /\ Push(stack, locals[LocalsBase + arg]) /\ frames' = frames /\ own' = own /\ locals' = locals
        /\ arg \in own[d]
    BY Zenon, <2>0, <2>1 DEF LoadLocal, Lost, frameVars, localVars
  <2>3. PICK v : v = locals[LocalsBase + arg]
    BY Zenon
  <2>4. stack' = Append(stack, v) /\ ip' = ip + 1
    BY <2>2, <2>3 DEF Push, Fail, Goto, Lost
  <2>5. v \in Values
    <3>1. Len(stack') = Len(stack) + 1 /\ stack'[Len(stack) + 1] = v /\ stack' \in Seq(Values) /\ Len(stack) \in Nat
      BY <2>0, <2>4 DEF Inv, StackOK
    <3>2. Len(stack) + 1 \in 1..Len(stack')
      BY <3>1
    <3>. QED
      BY <3>1, <3>2
  <2>6. CurrentLocals[arg] = v /\ DOMAIN CurrentLocals = own[d]
    BY <2>2, <2>3 DEF CurrentLocals
  <2>7. Above(stack', FrameBase) = Append(w, v)
    BY <2>0, <2>4, <2>5, AboveAppend
  <2> HIDE DEF w, d
  <2>8. PICK r, l, o : r = CurrentRet /\ l = CurrentLocals /\ o = Append(w, v)
    BY Zenon
  <2>9. A!Top = [ret |-> r, operands |-> w, locals |-> l] /\ Current' = [ret |-> r, operands |-> o, locals |-> l]
    <3>1. Current' = [ret |-> CurrentRet, operands |-> Above(stack', FrameBase), locals |-> CurrentLocals]
      BY <2>2, CurrentStays DEF Current, Above
    <3>. QED
      BY Zenon, <2>0, <2>7, <2>8, <3>1 DEF Current, w
  <2>10. PICK a : a = [A!Top EXCEPT !.operands = Append(@, A!Top.locals[arg])]
    BY Zenon
  <2>11. a = Current'
    <3>1. a = [A!Top EXCEPT !.operands = o]
      BY ZenonT(30), <2>6, <2>8, <2>9, <2>10
    <3>. QED
      BY <2>9, <3>1
  <2>12. A!Becomes(a)
    BY Zenon, <2>0, <2>2, <2>11, Becoming
  <2>13. arg \in DOMAIN A!Top.locals
    BY <2>2, <2>6, <2>8, <2>9
  <2>14. A!Load
    BY Zenon, <2>0, <2>4, <2>10, <2>12, <2>13 DEF A!Load
  <2>. QED
    BY Zenon, <2>0, <2>14 DEF A!Next, Acts

\* STORE_LOCAL: Store.
<1>StoreRefines. ASSUME Inv, Inv', OwnInWindow, ~Lost, ~Lost', StoreLocal
                 PROVE  A!Next
  <2> USE <1>StoreRefines
  <2> DEFINE w == Above(stack, FrameBase)
             arg == Instr.arg
             slot == LocalsBase + arg
             d == Len(frames) + 1
  <2>0. /\ Within /\ A!Top = Current /\ Acts # << >>
        /\ stack \in Seq(Values) /\ Len(stack) \in Nat /\ FrameBase \in Nat /\ LocalsBase \in Nat /\ arg \in Int
        /\ ip < Count /\ Instr.op = "STORE_LOCAL" /\ Len(own) = d /\ d \in Nat /\ d = Len(frames) + 1 /\ Len(frames) \in Nat
        /\ own \in Seq(SUBSET Nat) /\ locals \in [Slots -> Values]
    <3>1. Within
      BY StoreShape DEF Lost
    <3>2. /\ A!Top = Current /\ Acts # << >> /\ stack \in Seq(Values) /\ Len(stack) \in Nat /\ FrameBase \in Nat
      BY AbstractFacts
    <3>3. ip < Count /\ Instr.op = "STORE_LOCAL"
      BY DEF StoreLocal, Runs
    <3>4. LocalsBase \in Nat /\ arg \in Int
      BY <3>3, BaseFacts, ProgramFacts DEF Inv
    <3>5. /\ Len(own) = d /\ d \in Nat /\ Len(frames) \in Nat /\ own \in Seq(SUBSET Nat) /\ locals \in [Slots -> Values]
      BY DEF Inv, FramesOK, LocalsOK
    <3>. QED
      BY <3>1, <3>2, <3>3, <3>4, <3>5
  <2>1. stack # << >> /\ ~(arg < 0)
    BY DEF StoreLocal, Refuse, Fail, Lost
  <2>2. /\ stack' = Rest(1) /\ frames' = frames /\ ~(slot >= LocalsCapacity)
        /\ locals' = [locals EXCEPT ![slot] = Operand(0)]
        /\ own' = [own EXCEPT ![d] = @ \union {arg}] /\ ip' = ip + 1
    BY Zenon, <2>0, <2>1 DEF StoreLocal, Fail, Goto, frameVars, Lost
  <2>3. FrameBase + 1 <= Len(stack)
    <3>1. Len(Rest(1)) = Len(stack) - 1
      BY <2>0, <2>1, RestFacts DEF Inv
    <3>. QED
      BY <2>0, <2>2, <3>1 DEF Within
  <2>4. /\ w \in Seq(Values) /\ Len(w) > 0 /\ Above(stack', FrameBase) = A!Prefix(w, 1) /\ w[Len(w)] = Operand(0)
    <3>1. PICK n : n = 1
      OBVIOUS
    <3>2. n \in Nat /\ FrameBase + n <= Len(stack) /\ n > 0
      BY <2>3, <3>1
    <3>3. /\ w \in Seq(Values) /\ n \in 0..Len(w) /\ Above(SubSeq(stack, 1, Len(stack) - n), FrameBase) = A!Prefix(w, n)
          /\ w[Len(w)] = stack[Len(stack)]
      BY <2>0, <3>2, AboveTake
    <3>4. stack' = SubSeq(stack, 1, Len(stack) - n) /\ Operand(0) = stack[Len(stack)]
      BY <2>0, <2>2, <3>1 DEF Rest, Operand
    <3> HIDE DEF w
    <3>5. Len(w) > 0
      BY <3>1, <3>3
    <3>. QED
      BY <3>1, <3>3, <3>4, <3>5
  <2>5. PICK v, l, r : v = Operand(0) /\ l = CurrentLocals /\ r = CurrentRet
    OBVIOUS
  <2>6. slot \in Slots /\ own'[d] = own[d] \union {arg} /\ d \in 1..Len(own) /\ own[d] \subseteq Nat
        /\ \A k \in 1..Len(frames) : own'[k] = own[k]
    <3>1. LocalsCapacity \in Nat
      BY CallStackAssumption
    <3>2. slot \in Slots
      BY <2>0, <2>1, <2>2, <3>1 DEF Slots
    <3>3. d \in 1..Len(own)
      BY <2>0
    <3>4. \A k \in 1..Len(frames) : k \in 1..Len(own) /\ k # d
      BY <2>0
    <3>. QED
      BY <2>0, <2>2, <3>2, <3>3, <3>4
  <2>7. CurrentLocals' = [i \in own[d] \union {arg} |-> IF i = arg THEN v ELSE l[i]]
    <3>1. CurrentLocals' = [i \in own'[d] |-> locals'[LocalsBase + i]]
      BY <2>2, CurrentStays DEF CurrentLocals
    <3>2. ASSUME NEW i \in own[d] \union {arg} PROVE locals'[LocalsBase + i] = IF i = arg THEN v ELSE l[i]
      <4>1. CASE i = arg
        BY Zenon, <2>0, <2>2, <2>5, <2>6, <4>1
      <4>2. CASE i # arg
        <5>1. i \in own[d] /\ i \in Nat /\ LocalsBase + i # slot
          BY <2>0, <2>6, <4>2
        <5>2. l[i] = locals[LocalsBase + i]
          BY Zenon, <2>5, <5>1 DEF CurrentLocals
        <5>. QED
          BY <2>0, <2>2, <4>2, <5>1, <5>2
      <4>. QED
        BY Zenon, <4>1, <4>2
    <3>. QED
      BY Zenon, <2>6, <3>1, <3>2
  <2>8. DOMAIN l = own[d]
    BY <2>5 DEF CurrentLocals
  <2> HIDE DEF w, d, slot
  <2>9. PICK o, m : o = A!Prefix(w, 1) /\ m = [i \in own[d] \union {arg} |-> IF i = arg THEN v ELSE l[i]]
    BY ZenonT(30)
  <2>10. A!Top = [ret |-> r, operands |-> w, locals |-> l] /\ Current' = [ret |-> r, operands |-> o, locals |-> m]
    <3>1. Current' = [ret |-> CurrentRet, operands |-> Above(stack', FrameBase), locals |-> CurrentLocals']
      BY <2>2, CurrentStays DEF Current, Above
    <3>. QED
      BY ZenonT(30), <2>0, <2>4, <2>5, <2>7, <2>9, <3>1 DEF Current, w
  <2>11. PICK a : a = [A!Top EXCEPT !.operands = A!Prefix(@, 1),
                                    !.locals = [i \in DOMAIN @ \union {arg} |->
                                                  IF i = arg THEN A!Top.operands[Len(A!Top.operands)]
                                                  ELSE A!Top.locals[i]]]
    BY Zenon
  <2>12. a = Current'
    <3>1. A!Top.operands = w /\ A!Top.locals = l
      BY <2>10
    <3>2. a = [A!Top EXCEPT !.operands = o, !.locals = m]
      BY Zenon, <2>4, <2>5, <2>8, <2>9, <2>11, <3>1
    <3>3. PICK t : t = A!Top
      OBVIOUS
    <3>4. t = [ret |-> r, operands |-> w, locals |-> l] /\ a = [t EXCEPT !.operands = o, !.locals = m]
      BY <2>10, <3>2, <3>3
    <3>5. a = [ret |-> r, operands |-> o, locals |-> m]
      BY Zenon, <3>4
    <3>. QED
      BY Zenon, <2>10, <3>5
  <2>13. A!Becomes(a)
    BY ZenonT(30), <2>0, <2>6, <2>12, Becoming
  <2>14. Len(A!Top.operands) > 0
    BY <2>4, <2>10
  <2>15. A!Store
    BY Zenon, <2>0, <2>2, <2>11, <2>13, <2>14 DEF A!Store
  <2>. QED
    BY <2>0, <2>15 DEF A!Next, Acts

\* A call in tail position: TailCall.
<1>TailCallRefines. ASSUME Inv, Inv', OwnInWindow, ~Lost, ~Lost', Call, InTailPosition
                    PROVE  A!Next
  <2> USE <1>TailCallRefines
  <2> DEFINE w == Above(stack, FrameBase)
             d == Len(frames) + 1
  <2>1. PICK n : n = ArgCount(Instr.arg)
    OBVIOUS
  <2>2. /\ ip < Count /\ Instr.op = "CALL" /\ n \in Nat /\ FrameBase + n <= Len(stack) /\ ReplaceFrame(n)
    BY Zenon, <2>1, CallFacts
  <2>3. /\ A!Top = Current /\ Acts # << >> /\ A!Depth = d /\ Len(own) = d /\ Len(frames) \in Nat /\ own \in Seq(SUBSET Nat)
        /\ stack \in Seq(Values) /\ Len(stack) \in Nat /\ FrameBase \in Nat /\ FrameBase <= Len(stack) /\ frames # << >>
    BY AbstractFacts DEF Inv, FramesOK, InTailPosition
  <2>4. Within
    BY CallShape DEF Lost, Calls
  <2>5. PICK args : args = SubSeq(stack, Len(stack) - n + 1, Len(stack))
    BY Zenon
  <2>6. /\ stack' = SubSeq(stack, 1, FrameBase) \o args /\ frames' = frames /\ locals' = locals
        /\ own' = [own EXCEPT ![d] = {}] /\ ip' = Instr.arg
    BY <2>2, <2>3, <2>5 DEF ReplaceFrame, Goto, frameVars
  <2>7. args = A!Suffix(w, n) /\ n \in 0..Len(w) /\ args \in Seq(Values)
    <3>1. args = A!Suffix(w, n) /\ n \in 0..Len(w)
      <4>1. SubSeq(stack, Len(stack) - n + 1, Len(stack)) = A!Suffix(w, n) /\ n \in 0..Len(w)
        <5>1. n \in Nat /\ FrameBase + n <= Len(stack) /\ stack \in Seq(Values) /\ FrameBase \in Nat
          BY <2>2, <2>3
        <5>. QED
          BY ZenonT(30), <5>1, AboveTake
      <4>. QED
        BY Zenon, <2>5, <4>1
    <3>2. args \in Seq(Values)
      BY <2>2, <2>3, <2>5
    <3>. QED
      BY <3>1, <3>2
  <2>8. Above(stack', FrameBase) = args
    BY <2>3, <2>6, <2>7, AboveReplaced
  <2>9. d > 1 /\ d \in 1..Len(own) /\ \A k \in 1..Len(frames) : k \in 1..Len(own) /\ k # d
    BY <2>3
  <2>10. own'[d] = {} /\ \A k \in 1..Len(frames) : own'[k] = own[k]
    BY <2>3, <2>6, <2>9
  <2>11. CurrentLocals' = << >>
    <3>1. CurrentLocals' = [i \in {} |-> locals[LocalsBase + i]]
      BY <2>6, <2>10, CurrentStays DEF CurrentLocals
    <3>. QED
      BY Zenon, <3>1, NoLocals
  <2> HIDE DEF w, d
  <2>12. PICK r : r = CurrentRet
    OBVIOUS
  <2>13. A!Top.ret = r /\ A!Top.operands = w
    BY Zenon, <2>3, <2>12 DEF Current, w
  <2>14. Current' = [ret |-> r, operands |-> args, locals |-> << >>]
    <3>1. Current' = [ret |-> CurrentRet, operands |-> Above(stack', FrameBase), locals |-> CurrentLocals']
      BY Zenon, <2>6, CurrentStays DEF Current, Above
    <3>. QED
      BY <2>8, <2>11, <2>12, <3>1
  <2>15. PICK a : a = A!Entered(A!Top.ret, n)
    OBVIOUS
  <2>16. a = Current'
    BY Zenon, <2>7, <2>13, <2>14, <2>15 DEF A!Entered
  <2>17. A!Becomes(a)
    BY Zenon, <2>4, <2>10, <2>16, Becoming
  <2>18. A!TailCall
    BY Zenon, <2>2, <2>3, <2>6, <2>7, <2>9, <2>13, <2>15, <2>17 DEF A!TailCall
  <2>. QED
    BY <2>3, <2>18 DEF A!Next, Acts

\* A call that is not in tail position: Call.
<1>CallRefines. ASSUME Inv, Inv', OwnInWindow, ~Lost, ~Lost', Call, ~InTailPosition
                PROVE  A!Next
  <2> USE <1>CallRefines
  <2> DEFINE w == Above(stack, FrameBase)
  <2>1. PICK n : n = ArgCount(Instr.arg)
    OBVIOUS
  <2>2. PICK d : d = Len(frames) + 1
    OBVIOUS
  <2>3. /\ ip < Count /\ Instr.op = "CALL" /\ n \in Nat /\ FrameBase + n <= Len(stack) /\ PushFrame(n)
    BY ZenonT(30), <2>1, CallFacts
  <2>4. /\ A!Top = Current /\ Acts # << >> /\ A!Depth = d /\ Len(own) = d /\ Len(frames) \in Nat /\ own \in Seq(SUBSET Nat)
        /\ frames \in Seq(Frames) /\ TopShown /\ TopShown'
        /\ stack \in Seq(Values) /\ Len(stack) \in Nat /\ FrameBase \in Nat /\ FrameBase <= Len(stack)
        /\ localsCount \in Nat /\ ip \in Nat
    <3>1. ip \in Nat
      BY ProgramFacts DEF Inv
    <3>. QED
      BY <2>2, <3>1, AbstractFacts, ActsShown, ActsShownNext DEF Inv, FramesOK, LocalsOK
  <2>5. PICK base : base = Len(stack) - n
    OBVIOUS
  <2>6. PICK f : f = [ret |-> ip + 1, base |-> base, localsBase |-> localsCount]
    BY Zenon
  <2>7. base \in Nat /\ FrameBase <= base /\ base <= Len(stack) /\ f \in Frames /\ f.base = base /\ f.ret = ip + 1
        /\ f.localsBase = localsCount
    BY <2>3, <2>4, <2>5, <2>6 DEF Frames
  <2>8. /\ stack' = stack /\ locals' = locals /\ ip' = Instr.arg
        /\ frames' = Append(frames, f) /\ own' = Append(own, {})
    BY ZenonT(30), <2>3, <2>5, <2>6 DEF PushFrame, Fail, Goto, stackVars, localVars, Lost
  <2>9. /\ Len(frames') = d /\ frames'[d] = f /\ d \in Nat /\ d # 0 /\ Len(frames) = d - 1
        /\ \A k \in 1..Len(frames) : frames'[k] = frames[k]
    BY <2>2, <2>4, <2>7, <2>8
  <2>10. Len(own') = d + 1 /\ own'[d + 1] = {} /\ \A k \in 1..d : own'[k] = own[k]
    BY <2>4, <2>8
  <2>11. ASSUME NEW k \in 1..Len(frames) PROVE Activation(k)' = Activation(k)
    <3>1. frames'[k] = frames[k] /\ own'[k] = own[k] /\ k <= Len(frames') /\ Len(frames') \in Nat
      BY <2>4, <2>9, <2>10
    <3>2. k # 1 => frames'[k - 1] = frames[k - 1]
      <4>1. k # 1 => k - 1 \in 1..Len(frames)
        BY <2>4
      <4>. QED
        BY <2>9, <4>1
    <3>3. frames[k].base <= Len(stack)
      <4>1. frames # << >> /\ Len(frames) \in 1..Len(frames) /\ k <= Len(frames)
        BY <2>4
      <4>2. frames[k].base \in Nat /\ frames[k].base <= frames[Len(frames)].base /\ FrameBase = frames[Len(frames)].base
        BY <4>1, FrameElements DEF Inv, FramesNested, FrameBase, Frame
      <4>. QED
        BY <2>4, <4>2
    <3>. QED
      BY ZenonT(30), <2>4, <2>8, <3>1, <3>2, <3>3, SameActivation
  <2>12. /\ w \in Seq(Values) /\ n \in 0..Len(w) /\ SubSeq(stack, FrameBase + 1, base) = A!Prefix(w, n)
         /\ Above(stack, base) = A!Suffix(w, n)
    <3>1. Above(stack, base) = SubSeq(stack, base + 1, Len(stack))
      BY ZenonT(30) DEF Above
    <3>2. /\ w \in Seq(Values) /\ n \in 0..Len(w) /\ SubSeq(stack, FrameBase + 1, Len(stack) - n) = A!Prefix(w, n)
          /\ SubSeq(stack, Len(stack) - n + 1, Len(stack)) = A!Suffix(w, n)
      BY <2>3, <2>4, AboveTake
    <3> HIDE DEF w
    <3>. QED
      BY Zenon, <2>5, <3>1, <3>2
  <2> HIDE DEF w
  <2>13. PICK r, l : r = CurrentRet /\ l = CurrentLocals
    OBVIOUS
  <2>14. A!Top = [ret |-> r, operands |-> w, locals |-> l]
    BY <2>4, <2>13 DEF Current, w
  <2>15. PICK below, entered : below = [ret |-> r, operands |-> A!Prefix(w, n), locals |-> l] /\ entered = A!Entered(ip + 1, n)
    BY Zenon
  <2>16. Activation(d)' = below
    <3>1. /\ (d = 1 <=> frames = << >>) /\ ~(d > Len(frames')) /\ d \in 1..d
      BY <2>4, <2>9
    <3>2. d # 1 => d - 1 = Len(frames) /\ frames'[d - 1] = Frame
      <4>1. d # 1 => Len(frames) \in 1..Len(frames)
        BY <2>9
      <4>. QED
        BY <2>9, <4>1 DEF Frame
    <3>3. /\ OperandsStart(d)' = FrameBase /\ LocalsStart(d)' = LocalsBase /\ OperandsEnd(d)' = base
          /\ (IF d = 1 THEN 0 ELSE frames'[d - 1].ret) = r
      BY Zenon, <2>7, <2>9, <2>13, <3>1, <3>2 DEF OperandsStart, LocalsStart, OperandsEnd, FrameBase, LocalsBase, CurrentRet
    <3>4. l = [i \in own'[d] |-> locals[LocalsBase + i]]
      BY Zenon, <2>2, <2>10, <2>13, <3>1 DEF CurrentLocals
    <3>5. Activation(d)' = [ret |-> IF d = 1 THEN 0 ELSE frames'[d - 1].ret,
                            operands |-> SubSeq(stack', OperandsStart(d)' + 1, OperandsEnd(d)'),
                            locals |-> [i \in own'[d] |-> locals'[LocalsStart(d)' + i]]]
      BY Zenon DEF Activation, OperandsStart, OperandsEnd, LocalsStart
    <3>. QED
      BY ZenonT(30), <2>8, <2>12, <2>15, <3>3, <3>4, <3>5
  <2>17. Current' = entered
    <3>1. frames' # << >> /\ Frame' = f
      BY <2>9 DEF Frame
    <3>2. FrameBase' = base /\ CurrentRet' = ip + 1
      BY <2>7, <3>1 DEF FrameBase, CurrentRet
    <3>3. CurrentLocals' = << >>
      <4>1. CurrentLocals' = [i \in {} |-> locals'[LocalsBase' + i]]
        BY Zenon, <2>9, <2>10 DEF CurrentLocals
      <4>. QED
        BY Zenon, <4>1, NoLocals
    <3>4. Current' = [ret |-> ip + 1, operands |-> Above(stack, base), locals |-> << >>]
      BY Zenon, <2>8, <3>2, <3>3 DEF Current, Above
    <3>. QED
      BY Zenon, <2>12, <2>14, <2>15, <3>4 DEF A!Entered
  <2>18. PICK old : old = [Acts EXCEPT ![d].operands = A!Prefix(@, n)]
    BY Zenon
  <2>19. old = [k \in 1..d |-> IF k = d THEN below ELSE Acts[k]]
    <3>1. Acts = [k \in 1..d |-> Acts[k]] /\ Acts[d] = [ret |-> r, operands |-> w, locals |-> l] /\ d \in 1..d
      BY <2>2, <2>4, <2>9, <2>14 DEF TopShown
    <3>2. old = [k \in 1..d |-> IF k = d THEN [Acts[d] EXCEPT !.operands = A!Prefix(@, n)] ELSE Acts[k]]
      BY Zenon, <2>18, <3>1
    <3>3. [Acts[d] EXCEPT !.operands = A!Prefix(@, n)] = below
      BY <2>15, <3>1
    <3>. QED
      BY ZenonT(30), <3>2, <3>3
  <2>20. Acts' = Append(old, entered)
    <3>1. Acts' = [k \in 1..(d + 1) |-> Activation(k)'] /\ Acts'[d + 1] = entered
      BY Zenon, <2>4, <2>9, <2>17 DEF TopShown
    <3>2. \A k \in 1..d : k # d => k \in 1..Len(frames)
      BY <2>9
    <3>3. \A k \in 1..d : Acts[k] = Activation(k)
      BY Zenon, <2>2, <2>4 DEF TopShown
    <3>4. ASSUME NEW k \in 1..d PROVE Acts'[k] = old[k]
      <4>1. Acts'[k] = Activation(k)' /\ old[k] = IF k = d THEN below ELSE Activation(k)
        BY <2>9, <2>19, <3>1, <3>3
      <4>. QED
        BY ZenonT(30), <2>11, <2>16, <3>2, <4>1
    <3>5. Append(old, entered) = [k \in 1..(d + 1) |-> IF k = d + 1 THEN entered ELSE old[k]]
      <4>1. PICK S : S = {old[k] : k \in 1..d} \union {entered}
        BY Zenon
      <4>2. old \in Seq(S) /\ entered \in S /\ Len(old) = d
        BY <2>9, <2>19, <4>1
      <4>. QED
        BY <2>9, <4>2, AppendIs
    <3>6. ASSUME NEW k \in 1..(d + 1) PROVE Acts'[k] = IF k = d + 1 THEN entered ELSE old[k]
      <4>1. k # d + 1 => k \in 1..d
        BY <2>9
      <4>. QED
        BY Zenon, <3>1, <3>4, <4>1
    <3>. QED
      BY <3>1, <3>5, <3>6
  <2>21. A!Call
    <3>1. n \in 0..Len(A!Top.operands)
      BY <2>12, <2>14
    <3>2. Acts' = Append([Acts EXCEPT ![A!Depth].operands = A!Prefix(@, n)], A!Entered(ip + 1, n))
      BY Zenon, <2>4, <2>15, <2>18, <2>20
    <3>. QED
      BY Zenon, <2>3, <2>8, <3>1, <3>2 DEF A!Call, Acts
  <2>. QED
    BY <2>4, <2>21 DEF A!Next, Acts

\* RET in a function: Return.
<1>ReturnRefines. ASSUME Inv, Inv', OwnInWindow, ~Lost, ~Lost', Return, frames # << >>
                  PROVE  A!Next
  <2> USE <1>ReturnRefines
  <2> DEFINE w == Above(stack, FrameBase)
  <2>1. PICK d : d = Len(frames)
    BY Zenon
  <2>2. /\ A!Top = Current /\ Acts # << >> /\ A!Depth = d + 1 /\ Len(own) = d + 1 /\ d \in Nat /\ d # 0
        /\ frames \in Seq(Frames) /\ own \in Seq(SUBSET Nat) /\ TopShown /\ TopShown'
        /\ stack \in Seq(Values) /\ Len(stack) \in Nat /\ FrameBase \in Nat /\ FrameBase <= Len(stack)
    BY <2>1, AbstractFacts, ActsShown, ActsShownNext DEF Inv, FramesOK
  <2>3. /\ ip < Count /\ Instr.op = "RET" /\ StateError(stack) = "none" /\ ReturnError = "none"
    BY DEF Return, Runs, Refuse, Fail, Lost
  <2>4. /\ frames' = SubSeq(frames, 1, d - 1) /\ own' = SubSeq(own, 1, Len(own) - 1) /\ RestoreCaller
    BY Zenon, <2>1, <2>3 DEF Return
  <2>5. locals' = locals /\ ip' = Frame.ret
    BY <2>4 DEF RestoreCaller, Goto
  <2>6. stack' = stack /\ FrameBase = Frame.base /\ Len(stack) <= FrameBase + 1
    BY Zenon, <2>3, <2>4, ReturnStack DEF FrameBase
  <2>7. Len(frames') = d - 1 /\ \A k \in 1..(d - 1) : frames'[k] = frames[k]
    <3>1. frames \in Seq(Frames) /\ d \in Nat /\ d # 0
      BY Zenon, <2>2
    <3>. QED
      BY <2>1, <2>4, <3>1
  <2>8. \A k \in 1..d : own'[k] = own[k]
    BY <2>2, <2>4
  <2>9. ASSUME NEW k \in 1..(d - 1) PROVE Activation(k)' = Activation(k)
    <3>1. /\ k \in 1..Len(frames) /\ frames'[k] = frames[k] /\ own'[k] = own[k] /\ k <= Len(frames') /\ Len(frames') \in Nat
      BY <2>1, <2>2, <2>7, <2>8
    <3>2. k # 1 => frames'[k - 1] = frames[k - 1]
      <4>1. k # 1 => k - 1 \in 1..(d - 1)
        BY <2>2
      <4>. QED
        BY <2>7, <4>1
    <3>3. frames[k].base <= Len(stack)
      <4>1. Len(frames) \in 1..Len(frames) /\ k <= Len(frames)
        BY <2>1, <2>2
      <4>2. frames[k].base \in Nat /\ frames[k].base <= frames[Len(frames)].base /\ FrameBase = frames[Len(frames)].base
        BY Zenon, <2>6, <3>1, <4>1, FrameElements DEF Inv, FramesNested, Frame
      <4>. QED
        BY <2>2, <4>2
    <3>. QED
      BY Zenon, <2>2, <2>5, <2>6, <3>1, <3>2, <3>3, SameActivation
  <2>10. PICK c : c = OperandsStart(d)
    OBVIOUS
  <2>11. c \in Nat /\ c <= FrameBase /\ FrameBase' = c /\ LocalsBase' = LocalsStart(d)
         /\ CurrentRet' = IF d = 1 THEN 0 ELSE frames[d - 1].ret
    <3>1. frames' = << >> <=> d = 1
      BY <2>2, <2>7
    <3>2. CASE d = 1
      BY <2>2, <2>10, <3>1, <3>2 DEF OperandsStart, LocalsStart, FrameBase, LocalsBase, CurrentRet
    <3>3. CASE d # 1
      <4>1. d - 1 \in 1..(d - 1) /\ d - 1 \in 1..Len(frames) /\ d \in 1..Len(frames) /\ d - 1 <= d
        BY <2>1, <2>2, <3>3
      <4>2. Frame' = frames[d - 1]
        BY Zenon, <2>7, <4>1 DEF Frame
      <4>3. frames[d - 1].base \in Nat /\ frames[d - 1].base <= frames[d].base /\ FrameBase = frames[d].base
        BY Zenon, <2>1, <2>6, <4>1, FrameElements DEF Inv, FramesNested, Frame
      <4>. QED
        BY Zenon, <2>10, <3>1, <3>3, <4>2, <4>3 DEF OperandsStart, LocalsStart, FrameBase, LocalsBase, CurrentRet
    <3>. QED
      BY Zenon, <3>2, <3>3
  <2>12. PICK o, l, r : /\ o = SubSeq(stack, c + 1, FrameBase) /\ r = (IF d = 1 THEN 0 ELSE frames[d - 1].ret)
                        /\ l = [i \in own[d] |-> locals[LocalsStart(d) + i]]
    BY ZenonT(30)
  <2>13. Activation(d) = [ret |-> r, operands |-> o, locals |-> l]
    <3>1. OperandsEnd(d) = FrameBase
      BY <2>1, <2>2, <2>6 DEF OperandsEnd, Frame
    <3>. QED
      BY Zenon, <2>10, <2>12, <3>1, ActivationIs
  <2>14. Current' = [ret |-> r, operands |-> o \o w, locals |-> l]
    <3>1. Above(stack, c) = o \o w
      BY ZenonT(30), <2>2, <2>11, <2>12, AboveJoined
    <3>2. CurrentLocals' = l
      <4>1. d - 1 + 1 = d /\ d \in 1..d
        BY <2>2
      <4>. QED
        BY <2>5, <2>7, <2>8, <2>11, <2>12, <4>1 DEF CurrentLocals
    <3> HIDE DEF w
    <3>. QED
      BY ZenonT(30), <2>6, <2>11, <2>12, <3>1, <3>2 DEF Current, Above
  <2>15. A!Top.operands = w /\ A!Top.ret = Frame.ret /\ Len(w) <= 1
    <3>1. Len(w) = Len(stack) - FrameBase
      BY <2>2, PartFacts DEF Above
    <3>2. A!Top.operands = w /\ A!Top.ret = Frame.ret
      BY <2>2 DEF Current, CurrentRet
    <3> HIDE DEF w
    <3>. QED
      BY <2>2, <2>6, <3>1, <3>2
  <2> HIDE DEF w
  <2>16. PICK old, res : old = SubSeq(Acts, 1, d) /\ res = [old EXCEPT ![d].operands = @ \o w]
    BY Zenon
  <2>17. old = [k \in 1..d |-> Activation(k)]
    BY <2>1, <2>2, <2>16 DEF TopShown
  <2>18. res = [k \in 1..d |-> IF k = d THEN Current' ELSE Activation(k)]
    <3>1. d \in 1..d /\ old[d] = [ret |-> r, operands |-> o, locals |-> l]
      BY <2>2, <2>13, <2>17
    <3>2. res = [k \in 1..d |-> IF k = d THEN [old[d] EXCEPT !.operands = @ \o w] ELSE old[k]]
      BY Zenon, <2>16, <2>17, <3>1
    <3>3. [old[d] EXCEPT !.operands = @ \o w] = Current'
      <4>1. PICK t, j : t = old[d] /\ j = o \o w
        BY ZenonT(30)
      <4>2. t = [ret |-> r, operands |-> o, locals |-> l] /\ Current' = [ret |-> r, operands |-> j, locals |-> l]
        BY <2>14, <3>1, <4>1
      <4>3. [t EXCEPT !.operands = @ \o w] = [t EXCEPT !.operands = j]
        BY <4>1, <4>2
      <4>4. [t EXCEPT !.operands = j] = Current'
        BY <4>2
      <4>. QED
        BY Zenon, <4>1, <4>3, <4>4
    <3>. QED
      BY Zenon, <2>17, <3>2, <3>3
  <2>19. Acts' = res
    <3>1. Acts' = [k \in 1..d |-> Activation(k)'] /\ Acts'[d] = Current'
      BY <2>2, <2>7 DEF TopShown
    <3>2. ASSUME NEW k \in 1..d PROVE Acts'[k] = IF k = d THEN Current' ELSE Activation(k)
      <4>1. k # d => k \in 1..(d - 1)
        BY <2>2
      <4>. QED
        BY Zenon, <2>9, <3>1, <4>1
    <3>. QED
      BY Zenon, <2>18, <3>1, <3>2
  <2>20. A!Return
    <3>1. A!Depth - 1 = d /\ A!Depth > 1
      BY <2>2
    <3>2. Acts' = [SubSeq(Acts, 1, A!Depth - 1) EXCEPT ![A!Depth - 1].operands = @ \o A!Top.operands]
      BY Zenon, <2>15, <2>16, <2>19, <3>1
    <3>. QED
      BY Zenon, <2>3, <2>5, <2>15, <3>1, <3>2 DEF A!Return, Acts
  <2>. QED
    BY <2>2, <2>20 DEF A!Next, Acts

\* RET of the outermost activation: Finish.
<1>FinishRefines. ASSUME Inv, Inv', ~Lost, ~Lost', Return, frames = << >>
                  PROVE  A!Next
  <2> USE <1>FinishRefines
  <2>1. ip < Count /\ Instr.op = "RET" /\ UNCHANGED memory
    BY ZenonT(30) DEF Return, Runs, Halted
  <2>2. Acts' = Acts
    BY <2>1 DEF Acts, Activation, memory, stackVars, frameVars, localVars
  <2>3. A!Depth = 1 /\ Acts # << >>
    BY AbstractFacts
  <2>4. A!Finish
    BY <2>1, <2>2, <2>3 DEF A!Finish, Acts
  <2>. QED
    BY Zenon, <2>3, <2>4 DEF A!Next, Acts
<1> SUFFICES ASSUME Inv, Inv', OwnInWindow, [Next]_vars PROVE [A!Next]_(A!vars)
  OBVIOUS
<1>1. CASE Lost'
  <2>1. Acts' = << >>
    BY ZenonT(30), <1>1 DEF Acts
  <2>. QED
    BY <2>1 DEF A!Next, A!Lose, Acts
<1>2. CASE UNCHANGED vars
  BY <1>2 DEF vars, memory, stackVars, frameVars, localVars, A!vars, Lost, Activation, Count, Instr
<1>3. CASE ~Lost' /\ Reset
  <2>1. frames' = << >> /\ stack' = << >> /\ own' = << {} >> /\ ip' = 0
    BY Zenon, <1>3 DEF Reset
  <2>2. Acts' = A!Start
    BY <1>3, <2>1, StartShownNext DEF A!Start
  <2>. QED
    BY <2>1, <2>2 DEF A!Next, A!Restart, Acts
<1>4. CASE ~Lost' /\ Next /\ ~Reset
  <2>1. status \notin {"halted", "error"}
    BY ZenonT(30), <1>4 DEF Next, StepAtEnd, Nop, Halt, Stub, Unknown, PushConstant, Pop, Arithmetic, Jump, JumpIfFalse,
                StoreLocal, LoadLocal, Call, Return, Runs
  <2>2. ~Lost
    BY <1>4, <2>1, Shapes DEF Lost
  <2>3. ~Stub /\ ~Unknown
    BY Zenon, <1>4 DEF Lost, Stub, Unknown, Refuse, Fail
  <2>4. CASE StepAtEnd
    BY Zenon, <1>4, <2>2, <2>4 DEF StepAtEnd, memory, stackVars, frameVars, localVars, A!vars, Lost, Activation, Count, Instr
  <2>5. CASE Nop \/ Halt \/ Jump \/ PushConstant \/ Pop \/ Arithmetic \/ JumpIfFalse
    BY <1>4, <2>2, <2>5, <1>PlainRefines
  <2>6. CASE LoadLocal \/ StoreLocal
    BY Zenon, <1>4, <2>2, <2>6, <1>LoadRefines, <1>StoreRefines
  <2>7. CASE Call
    BY Zenon, <1>4, <2>2, <2>7, <1>TailCallRefines, <1>CallRefines
  <2>8. CASE Return
    BY <1>4, <2>2, <2>8, <1>FinishRefines, <1>ReturnRefines
  <2>. QED
    BY ZenonT(30), <1>4, <2>3, <2>4, <2>5, <2>6, <2>7, <2>8 DEF Next
<1>. QED
  BY <1>1, <1>2, <1>3, <1>4

\* The interpreter keeps the promise of Activations: whatever the program and
\* whatever the capacities, the arrays that aivm_step shares among all frames
\* behave as operands and locals that each activation owns.
THEOREM ActivationsImplemented == Spec => ImplementsActivations
<1>1. Init => A!Init
  <2> SUFFICES ASSUME Init PROVE A!Init
    OBVIOUS
  <2>1. frames = << >> /\ stack = << >> /\ own = << {} >> /\ ~Lost /\ ip = 0
    BY DEF Init, Fresh, Lost
  <2>2. Acts = A!Start
    BY <2>1, StartShown
  <2>. QED
    BY <2>1, <2>2 DEF A!Init, Acts
<1>2. (Inv /\ OwnInWindow) /\ (Inv /\ OwnInWindow)' /\ [Next]_vars => [A!Next]_(A!vars)
  BY StepRefines
<1>. QED
  BY <1>1, <1>2, OwnInvariant, PTL DEF Spec, ImplementsActivations, A!Spec

=============================================================================
