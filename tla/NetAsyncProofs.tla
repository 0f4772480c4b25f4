--------------------------- MODULE NetAsyncProofs ---------------------------
(***************************************************************************)
(* Proofs about NetAsync for tables of any size, any number of operations  *)
(* and transfers of any length.                                            *)
(***************************************************************************)
EXTENDS NetAsync, FiniteSetTheorems, WellFoundedInduction, TLAPS

\* Prover time limits, in seconds.
USE SMTT(30), ZenonT(30)

Gens == Generations \cup {0}

Operation ==
    [used : BOOLEAN, kind : 0..3, status : {0, 1, -1, -2}, gen : Gens,
     canceled : BOOLEAN, done : BOOLEAN, joined : BOOLEAN, ok : BOOLEAN,
     sock : Gens, handle : Handles \cup {0}, result : Nat, len : Nat, off : Nat,
     stream : Gens]

\* Where a connect thread is: before it has a socket, carrying one, about to
\* write to its slot, and done with the slot's socket field.
Writing == {"canceled", "status", "socket", "done"}
Passed == {"done", "ended"}
Pcs == {"none", "connect", "slot"} \cup Writing \cup Passed

TypeOK ==
    /\ op \in [Slots -> Operation]
    /\ handle \in [Handles -> Gens]
    /\ nextGeneration \in 1..(MaxStarts + 1)
    /\ spent \in Nat
    /\ thread \in [Generations -> [pc : Pcs, slot : Slots \cup {0}, sock : Gens]]
    /\ open \subseteq Generations
    /\ torn \subseteq Generations
    /\ wire \in [Generations -> [Generations -> Seq(Nat)]]

\* A thread exists for generations already given out, works on a slot, and
\* has no socket but its own.
ThreadsNamed ==
    \A g \in Generations :
        /\ thread[g].pc # "none" => thread[g].slot \in Slots /\ g < nextGeneration
        /\ thread[g].sock \in {0, g}
        /\ thread[g].pc \in {"none", "connect"} => thread[g].sock = 0

\* A slot in use has a generation of its own; the thread of that generation
\* works on that slot.
SlotsNamed ==
    /\ \A i \in Slots : op[i].used =>
        /\ op[i].gen \in 1..(nextGeneration - 1)
        /\ thread[op[i].gen].pc # "none" => thread[op[i].gen].slot = i /\ op[i].kind = 1
    /\ \A i, j \in Slots : op[i].used /\ op[j].used /\ op[i].gen = op[j].gen => i = j

\* A socket that a thread has handed over is in its slot or in one handle,
\* and never again in the slot once it was in a handle.
HandedOver(s) ==
    /\ thread[s].pc \in Passed
    /\ \A i \in Slots : op[i].sock # s

SocketsPlaced ==
    /\ \A i \in Slots : op[i].sock # 0 =>
        LET g == op[i].sock
        IN  thread[g].pc \in Passed /\ thread[g].slot = i /\ thread[g].sock = g
    /\ \A h \in Handles : handle[h] # 0 => HandedOver(handle[h])
    /\ \A h, k \in Handles : handle[h] # 0 /\ handle[h] = handle[k] => h = k

\* What a handle, a slot in use or a thread holds is open.
HoldersOpen ==
    /\ \A h \in Handles : handle[h] # 0 => handle[h] \in open
    /\ \A i \in Slots : op[i].used /\ op[i].sock # 0 => op[i].sock \in open
    /\ \A g \in Generations :
        thread[g].pc \in Carriers /\ thread[g].sock # 0 => g \in open

\* Unless a reset overtook a thread: a thread that is writing has the slot to
\* itself, a slot holds nothing but what its own thread wrote, nothing open is
\* without a holder, and a settled connect will not be finalized again.
OwnSlots ==
    /\ \A g \in Generations : thread[g].pc \in Writing => SlotIsMine(g)
    /\ \A i \in Slots : ~op[i].used => op[i].sock = 0
    /\ \A i \in Slots : op[i].used =>
        /\ op[i].sock \in {0, op[i].gen}
        /\ op[i].done => op[i].kind = 1 /\ thread[op[i].gen].pc = "ended"
        /\ op[i].kind = 1 /\ op[i].status \in {1, -1} =>
             op[i].joined \/ thread[op[i].gen].pc = "none"
        /\ op[i].kind = 1 /\ op[i].status = 1 =>
             op[i].stream = op[i].gen /\ thread[op[i].gen].sock = op[i].gen

Held(s) ==
    \/ \E h \in Handles : handle[h] = s
    \/ \E i \in Slots : op[i].used /\ op[i].sock = s
    \/ thread[s].pc \in Carriers /\ thread[s].sock = s

NothingLost == \A s \in open : Held(s)

\* The first n bytes of a buffer, and those a write operation has sent.
Bytes(n) == [k \in 1..n |-> k]

Sent(o) == Bytes(IF o.status = 0 THEN o.off ELSE o.result)

\* A write operation whose handle still is the stream it was started on has
\* put the first off bytes of its buffer there.
WriteCounted(o) ==
    /\ o.handle \in Handles /\ o.stream # 0
    /\ o.off <= o.len
    /\ handle[o.handle] = o.stream => wire[o.stream][o.gen] = Sent(o)

\* This holds of all of them, and the stream is a socket that cannot come
\* back to a handle once it has left it.
WritesCounted ==
    /\ \A i \in Slots : op[i].used /\ op[i].kind \in {2, 3} /\ op[i].stream # 0 =>
        HandedOver(op[i].stream)
    /\ \A i \in Slots :
        op[i].used /\ op[i].kind = 3 /\ op[i].status \in {0, 1} =>
            WriteCounted(op[i])
    /\ \A s, g \in Generations : g >= nextGeneration => wire[s][g] = <<>>

Inv ==
    /\ TypeOK
    /\ ThreadsNamed
    /\ SlotsNamed
    /\ SocketsPlaced
    /\ HoldersOpen
    /\ torn = {} => OwnSlots /\ NothingLost
    /\ WritesCounted

LEMMA Distinct == 1 # -1 /\ 0 # 1 /\ 0 # -1
  OBVIOUS

LEMMA NoGenerationZero == 0 \notin Generations
  BY DEF Generations

\* What a slot or a handle names is 0 or a generation.
LEMMA SocketField ==
    ASSUME TypeOK, NEW j \in Slots
    PROVE  /\ op[j].sock # 0 => op[j].sock \in Generations
           /\ op[j].stream # 0 => op[j].stream \in Generations
<1>1. op[j] \in Operation
  BY Zenon DEF TypeOK
<1> QED
  BY <1>1 DEF Operation, Gens

LEMMA SocketHandle ==
    ASSUME TypeOK, NEW h \in Handles, handle[h] # 0
    PROVE  handle[h] \in Generations
  BY Zenon DEF TypeOK, Gens

LEMMA NamedGeneration ==
    ASSUME TypeOK, SlotsNamed, NEW j \in Slots, op[j].used
    PROVE  op[j].gen \in Generations
<1>1. op[j].gen \in 1..(nextGeneration - 1) /\ nextGeneration \in 1..(MaxStarts + 1)
  BY Zenon DEF TypeOK, SlotsNamed
<1>2. MaxStarts \in Nat
  BY NetConstants
<1> QED
  BY <1>1, <1>2 DEF Generations

\* What the concatenation of two sequences is, and when two are the same.
LEMMA ConcatFacts ==
    ASSUME NEW a \in Seq(Nat), NEW c \in Seq(Nat), NEW m \in Nat, NEW n \in Nat,
           Len(a) = m, Len(c) = n
    PROVE  a \o c \in Seq(Nat) /\ Len(a \o c) = m + n
  OBVIOUS

LEMMA ConcatElement ==
    ASSUME NEW a \in Seq(Nat), NEW c \in Seq(Nat), NEW m \in Nat, NEW n \in Nat,
           Len(a) = m, Len(c) = n, \A k \in 1..m : a[k] = k, \A k \in 1..n : c[k] = m + k,
           NEW k \in 1..(m + n)
    PROVE  (a \o c)[k] = k
<1>1. CASE k <= m
  BY <1>1
<1>2. CASE k > m
  <2>1. k - m \in 1..n /\ m + (k - m) = k
    BY <1>2
  <2>2. (a \o c)[k] = c[k - m]
    BY <1>2
  <2> QED
    BY <2>1, <2>2
<1> QED
  BY <1>1, <1>2

LEMMA SameSequence ==
    ASSUME NEW m \in Nat, NEW n \in Nat, NEW s \in Seq(Nat), NEW u \in Seq(Nat),
           Len(s) = m + n, Len(u) = m + n,
           \A k \in 1..(m + n) : s[k] = k, \A k \in 1..(m + n) : u[k] = k
    PROVE  s = u
  OBVIOUS

\* The first free entry of a table exists when any is free.
LEMMA LeastNat ==
    ASSUME NEW S \in SUBSET Nat, S # {}
    PROVE  Min(S) \in S
<1> DEFINE Less == OpToRel(<, Nat)
<1>1. IsWellFoundedOn(Less, Nat)
  BY Zenon, NatLessThanWellFounded
<1> HIDE DEF Less
<1>2. PICK x \in S : \A y \in S : ~(<<y, x>> \in Less)
  BY Zenon, <1>1, WFMin
<1>3. Less = {p \in Nat \X Nat : p[1] < p[2]}
  BY Zenon DEF Less, OpToRel
<1>4. ASSUME NEW y \in S PROVE x <= y
  <2>1. <<y, x>> \in Nat \X Nat /\ <<y, x>>[1] = y /\ <<y, x>>[2] = x
    OBVIOUS
  <2>2. ~(y < x)
    BY <1>2, <1>3, <2>1
  <2> QED
    BY <2>2
<1> QED
  BY Zenon, <1>4 DEF Min

USE NetConstants

-----------------------------------------------------------------------------
(* What the updates of a slot leave alone.                                 *)

\* The slot keeps its operation: only the outcome, the progress and the socket
\* change.
Like(n, o) ==
    /\ n \in Operation
    /\ n.used = o.used /\ n.kind = o.kind /\ n.gen = o.gen /\ n.done = o.done

SameSocket(n, o) == n.sock = o.sock

LEMMA ReleasedFields ==
    ASSUME NEW o \in Operation
    PROVE  /\ Like(Released(o), o)
           /\ SameSocket(Released(o), o)
           /\ Released(o).joined = o.joined /\ Released(o).status = o.status
           /\ Released(o).stream = o.stream /\ Released(o).handle = o.handle
  BY Zenon DEF Released, Operation, Like, SameSocket

LEMMA SucceededFields ==
    ASSUME NEW o \in Operation, NEW value \in Nat
    PROVE  /\ Like(Succeeded(o, value), o)
           /\ SameSocket(Succeeded(o, value), o)
           /\ Succeeded(o, value).joined = o.joined /\ Succeeded(o, value).status = 1
           /\ Succeeded(o, value).result = value
           /\ Succeeded(o, value).stream = o.stream /\ Succeeded(o, value).handle = o.handle
           /\ Succeeded(o, value).off = 0 /\ Succeeded(o, value).len = 0
  BY Zenon DEF Succeeded, Released, Operation, Like, SameSocket

LEMMA FailedFields ==
    ASSUME NEW o \in Operation
    PROVE  /\ Like(Failed(o), o)
           /\ SameSocket(Failed(o), o)
           /\ Failed(o).joined = o.joined /\ Failed(o).status = -1
           /\ Failed(o).stream = o.stream /\ Failed(o).handle = o.handle
  BY Zenon DEF Failed, Released, Operation, Like, SameSocket

LEMMA ClosedFields ==
    ASSUME NEW o \in Operation
    PROVE  /\ Like(WorkerSocketClosed(o), o)
           /\ WorkerSocketClosed(o).sock = 0
           /\ WorkerSocketClosed(o).joined = o.joined
           /\ WorkerSocketClosed(o).status = o.status /\ WorkerSocketClosed(o).result = o.result
           /\ WorkerSocketClosed(o).stream = o.stream /\ WorkerSocketClosed(o).handle = o.handle
  BY DEF WorkerSocketClosed, Operation, Like, Gens

LEMMA JoinedFields ==
    ASSUME NEW o \in Operation
    PROVE  LET j == [o EXCEPT !.joined = TRUE]
           IN  /\ Like(j, o) /\ SameSocket(j, o) /\ j.joined
               /\ j.status = o.status /\ j.result = o.result
               /\ j.stream = o.stream /\ j.handle = o.handle
  BY Zenon DEF Operation, Like, SameSocket

LEMMA AdoptedFields ==
    ASSUME NEW o \in Operation, NEW h \in Handles
    PROVE  /\ Like(Adopted(o, h), o)
           /\ Adopted(o, h).sock = 0 /\ Adopted(o, h).stream = o.sock
           /\ Adopted(o, h).joined = o.joined /\ Adopted(o, h).status = 1
<1> DEFINE a == [o EXCEPT !.sock = 0, !.handle = h, !.stream = o.sock]
<1>1. Like(a, o) /\ a.sock = 0 /\ a.stream = o.sock /\ a.joined = o.joined
  BY Zenon DEF Operation, Like, Gens
<1>2. Adopted(o, h) = Succeeded(a, h) /\ h \in Nat
  BY DEF Adopted, Handles
<1> HIDE DEF a
<1>3. a \in Operation
  BY <1>1 DEF Like
<1>4. /\ Like(Succeeded(a, h), a) /\ SameSocket(Succeeded(a, h), a)
      /\ Succeeded(a, h).stream = a.stream /\ Succeeded(a, h).joined = a.joined
      /\ Succeeded(a, h).status = 1
  BY <1>2, <1>3, SucceededFields
<1> QED
  BY <1>1, <1>2, <1>4 DEF Like, SameSocket

\* What a finished connect becomes: dropped with its socket closed, failed, or
\* adopted as a handle.
FinalizedTo(i, n) ==
    LET o == op[i]
    IN  /\ op' = [op EXCEPT ![i] = n]
        /\ Like(n, o)
        /\ n.joined
        /\ \/ /\ Dropped(o) /\ n.sock = 0 /\ n.status = o.status /\ n.result = o.result
              /\ n.stream = o.stream
              /\ open' = open \ {o.sock} /\ UNCHANGED handle
           \/ /\ ~Dropped(o) /\ n.status = -1
              /\ \/ SameSocket(n, o) /\ UNCHANGED <<handle, open>>
                 \/ n.sock = 0 /\ open' = open \ {o.sock} /\ UNCHANGED handle
           \/ /\ ~Dropped(o) /\ n.status = 1
              /\ o.sock # 0 /\ n.sock = 0 /\ n.stream = o.sock
              /\ \E h \in Handles : handle[h] = 0 /\ handle' = [handle EXCEPT ![h] = o.sock]
              /\ UNCHANGED open

LEMMA FinalizeEffect ==
    ASSUME TypeOK, NEW i \in Slots, NEW blocking, MustFinalize(op[i]),
           Finalize(i, op[i], blocking)
    PROVE  \E n \in Operation : FinalizedTo(i, n)
<1> DEFINE o == op[i]
           j == [o EXCEPT !.joined = TRUE]
<1>1. o \in Operation
  BY DEF TypeOK
<1>2. /\ Like(j, o) /\ SameSocket(j, o) /\ j.joined
      /\ j.status = o.status /\ j.result = o.result
      /\ j.stream = o.stream /\ j.handle = o.handle
  BY <1>1, JoinedFields
<1>3. j \in Operation
  BY <1>2 DEF Like
<1>4. CASE Dropped(o)
  <2>1. /\ op' = [op EXCEPT ![i] = WorkerSocketClosed(j)]
        /\ open' = open \ {o.sock} /\ UNCHANGED handle
    BY <1>4 DEF Finalize
  <2> HIDE DEF j
  <2>2. FinalizedTo(i, WorkerSocketClosed(j))
    BY <1>2, <1>3, <1>4, <2>1, ClosedFields DEF FinalizedTo, Like
  <2> QED
    BY <2>2, <1>3, ClosedFields DEF Like
<1>5. CASE ~Dropped(o) /\ ~o.ok
  <2>1. op' = [op EXCEPT ![i] = Failed(j)] /\ UNCHANGED <<handle, open>>
    BY <1>5 DEF Finalize
  <2> HIDE DEF j
  <2>2. FinalizedTo(i, Failed(j))
    BY <1>2, <1>3, <1>5, <2>1, FailedFields DEF FinalizedTo, Like, SameSocket
  <2> QED
    BY <2>2, <1>3, FailedFields DEF Like
<1>6. CASE ~Dropped(o) /\ o.ok /\ (blocking \/ FreeHandles = {} \/ o.sock = 0)
  <2>1. /\ op' = [op EXCEPT ![i] = Failed(WorkerSocketClosed(j))]
        /\ open' = open \ {o.sock} /\ UNCHANGED handle
    BY <1>6 DEF Finalize
  <2> HIDE DEF j
  <2>2. WorkerSocketClosed(j) \in Operation
    BY <1>3, ClosedFields DEF Like
  <2>3. FinalizedTo(i, Failed(WorkerSocketClosed(j)))
    BY <1>2, <1>3, <1>6, <2>1, <2>2, FailedFields, ClosedFields DEF FinalizedTo, Like, SameSocket
  <2> QED
    BY <2>3, <2>2, FailedFields DEF Like
<1>7. CASE ~Dropped(o) /\ o.ok /\ ~(blocking \/ FreeHandles = {} \/ o.sock = 0)
  <2> DEFINE h == Min(FreeHandles)
  <2>1. /\ op' = [op EXCEPT ![i] = Adopted(j, h)]
        /\ handle' = [handle EXCEPT ![h] = o.sock] /\ UNCHANGED open
    BY <1>7 DEF Finalize
  <2>2. h \in FreeHandles
    <3>1. FreeHandles \in SUBSET Nat /\ FreeHandles # {}
      BY <1>7 DEF FreeHandles, Handles
    <3> HIDE DEF FreeHandles
    <3> QED
      BY <3>1, LeastNat
  <2>3. h \in Handles /\ handle[h] = 0
    BY <2>2 DEF FreeHandles
  <2> HIDE DEF j, h
  <2>4. FinalizedTo(i, Adopted(j, h))
    BY Zenon, <1>2, <1>3, <1>7, <2>1, <2>3, AdoptedFields DEF FinalizedTo, Like, SameSocket
  <2> QED
    BY <2>3, <2>4, <1>3, AdoptedFields DEF Like
<1> QED
  BY <1>4, <1>5, <1>6, <1>7

\* A chunk continues the bytes already sent.
LEMMA BytesAppend ==
    ASSUME NEW m \in Nat, NEW n \in Nat
    PROVE  Bytes(m) \o [k \in 1..n |-> m + k] = Bytes(m + n)
<1> DEFINE a == Bytes(m)
           c == [k \in 1..n |-> m + k]
<1>1. a \in Seq(Nat) /\ Len(a) = m /\ \A k \in 1..m : a[k] = k
  BY DEF Bytes
<1>2. c \in Seq(Nat) /\ Len(c) = n /\ \A k \in 1..n : c[k] = m + k
  OBVIOUS
<1>3. Bytes(m + n) \in Seq(Nat) /\ Len(Bytes(m + n)) = m + n /\ \A k \in 1..(m + n) : Bytes(m + n)[k] = k
  BY DEF Bytes
<1> HIDE DEF a, c
<1>4. a \o c \in Seq(Nat) /\ Len(a \o c) = m + n
  BY <1>1, <1>2, ConcatFacts
<1>5. \A k \in 1..(m + n) : (a \o c)[k] = k
  <2> SUFFICES ASSUME NEW k \in 1..(m + n) PROVE (a \o c)[k] = k
    BY Zenon
  <2> QED
    BY <1>1, <1>2, ConcatElement
<1>6. a \o c = Bytes(m + n)
  BY Zenon, <1>3, <1>4, <1>5, SameSequence
<1> QED
  BY Zenon, <1>6 DEF a, c

\* What a read or write operation o of slot i becomes: its outcome and its
\* progress change, and nothing goes out but its next bytes, on the socket
\* that its handle has now.
ProcessedTo(i, o, n) ==
    /\ op' = [op EXCEPT ![i] = n]
    /\ Like(n, o) /\ SameSocket(n, o)
    /\ n.joined = o.joined /\ n.stream = o.stream /\ n.handle = o.handle
    /\ UNCHANGED <<handle, open>>
    /\ spent' \in Nat
    /\ wire' \in [Generations -> [Generations -> Seq(Nat)]]
    /\ \A s, g \in Generations : g # o.gen => wire'[s][g] = wire[s][g]
    /\ n.status \in {0, 1} /\ o.kind = 3 => n.off <= n.len
    /\ /\ n.status \in {0, 1} /\ o.kind = 3
       /\ handle[o.handle] = o.stream
       /\ wire[o.stream][o.gen] = Bytes(o.off)
       => wire'[o.stream][o.gen] = Sent(n)

LEMMA ProcessEffect ==
    ASSUME TypeOK, NEW i \in Slots, NEW o \in Operation, NEW io \in Outcomes,
           o.gen \in Generations, o.status = 0,
           o.kind = 3 => o.handle \in Handles /\ o.stream # 0 /\ o.off <= o.len,
           Process(i, o, io)
    PROVE  \E n \in Operation : ProcessedTo(i, o, n)
<1> DEFINE s == IF o.handle \in Handles THEN handle[o.handle] ELSE 0
<1>1. s \in Gens /\ (o.kind = 3 => s = handle[o.handle]) /\ UNCHANGED <<handle, open>>
  BY Zenon DEF TypeOK, Process, Gens
<1> HIDE DEF s
<1>2. ASSUME op' = [op EXCEPT ![i] = Failed(o)], spent' \in Nat,
             wire' \in [Generations -> [Generations -> Seq(Nat)]],
             \A t, g \in Generations : g # o.gen => wire'[t][g] = wire[t][g]
      PROVE  \E n \in Operation : ProcessedTo(i, o, n)
  <2>1. ProcessedTo(i, o, Failed(o))
    BY <1>1, <1>2, FailedFields DEF ProcessedTo
  <2> QED
    BY <2>1, FailedFields DEF Like
<1>3. ASSUME op' = [op EXCEPT ![i] = Succeeded(o, o.len)], o.off = o.len, UNCHANGED <<spent, wire>>
      PROVE  \E n \in Operation : ProcessedTo(i, o, n)
  <2>1. o.len \in Nat
    BY DEF Operation
  <2>2. ProcessedTo(i, o, Succeeded(o, o.len))
    BY <1>1, <1>3, <2>1, SucceededFields DEF ProcessedTo, TypeOK, Sent
  <2> QED
    BY Zenon, <2>1, <2>2, SucceededFields DEF Like
<1>4. CASE s = 0
  BY <1>2, <1>4 DEF Process, TypeOK, s
<1>5. CASE s # 0 /\ io = Idle
  <2>1. op' = [op EXCEPT ![i] = o] /\ UNCHANGED <<spent, wire>>
    BY <1>5 DEF Process, s
  <2>2. ProcessedTo(i, o, o)
    BY <1>1, <2>1 DEF ProcessedTo, TypeOK, Like, SameSocket, Sent
  <2> QED
    BY <2>2
<1>6. CASE s # 0 /\ io # Idle /\ o.kind = 3 /\ o.off = o.len
  BY <1>3, <1>6 DEF Process, s
<1>7. CASE /\ s # 0 /\ io # Idle /\ ~(o.kind = 3 /\ o.off = o.len)
           /\ io = Broken \/ (o.kind = 3 /\ io = 0)
  <2>1. op' = [op EXCEPT ![i] = Failed(o)] /\ UNCHANGED <<spent, wire>>
    BY Zenon, <1>7 DEF Process, s
  <2> QED
    BY <1>2, <2>1 DEF TypeOK
<1>8. CASE /\ s # 0 /\ io # Idle /\ ~(o.kind = 3 /\ o.off = o.len)
           /\ ~(io = Broken \/ (o.kind = 3 /\ io = 0))
           /\ o.kind = 2
  <2>1. op' = [op EXCEPT ![i] = Succeeded(o, 0)] /\ UNCHANGED <<spent, wire>>
    BY <1>8 DEF Process, s
  <2>2. ProcessedTo(i, o, Succeeded(o, 0))
    BY <1>1, <1>8, <2>1, SucceededFields DEF ProcessedTo, TypeOK
  <2> QED
    BY <2>2, SucceededFields DEF Like
<1>9. CASE /\ s # 0 /\ io # Idle /\ ~(o.kind = 3 /\ o.off = o.len)
           /\ ~(io = Broken \/ (o.kind = 3 /\ io = 0))
           /\ o.kind # 2
  <2>1. /\ io <= o.len - o.off
        /\ wire' = [wire EXCEPT ![s][o.gen] = @ \o Chunk(o, io)]
        /\ IF WithinBudget(io)
             THEN op' = [op EXCEPT ![i] = Written(o, io)] /\ spent' = spent + io
             ELSE op' = [op EXCEPT ![i] = Failed(o)] /\ UNCHANGED spent
    BY Zenon, <1>9 DEF Process, s
  <2>2. io \in Nat /\ s \in Generations /\ o.off \in Nat /\ o.len \in Nat
    BY <1>1, <1>9 DEF Outcomes, Idle, Broken, Gens, Operation
  <2>3. Chunk(o, io) \in Seq(Nat)
    BY <2>2 DEF Chunk
  <2>4. /\ wire' \in [Generations -> [Generations -> Seq(Nat)]]
        /\ \A t, g \in Generations : g # o.gen => wire'[t][g] = wire[t][g]
        /\ wire'[s][o.gen] = wire[s][o.gen] \o Chunk(o, io)
    <3> DEFINE c == Chunk(o, io)
    <3> HIDE DEF c
    <3>1. wire[s][o.gen] \o c \in Seq(Nat)
      BY <2>2, <2>3 DEF TypeOK, c
    <3> DEFINE new == wire[s][o.gen] \o c
    <3>2. wire' = [wire EXCEPT ![s][o.gen] = new]
      BY <2>1 DEF c
    <3> HIDE DEF new
    <3>3. new \in Seq(Nat)
      BY <3>1 DEF new
    <3>4. /\ wire' \in [Generations -> [Generations -> Seq(Nat)]]
          /\ \A t, g \in Generations : g # o.gen => wire'[t][g] = wire[t][g]
          /\ wire'[s][o.gen] = new
      BY Zenon, <2>2, <3>2, <3>3 DEF TypeOK
    <3> QED
      BY Zenon, <3>4 DEF new, c
  <2>5. CASE ~WithinBudget(io)
    BY Zenon, <1>2, <2>1, <2>4, <2>5 DEF TypeOK
  <2>6. CASE WithinBudget(io)
    <3> DEFINE n == Written(o, io)
    <3>1. op' = [op EXCEPT ![i] = n] /\ spent' \in Nat
      BY <2>1, <2>2, <2>6 DEF TypeOK
    <3>2. wire[s][o.gen] = Bytes(o.off) => wire'[s][o.gen] = Bytes(o.off + io)
      <4>1. Bytes(o.off) \o Chunk(o, io) = Bytes(o.off + io)
        BY Zenon, <2>2, BytesAppend DEF Chunk
      <4> QED
        BY <2>4, <4>1
    <3>3. CASE o.off + io >= o.len
      <4>1. n = Succeeded(o, o.len) /\ o.off + io = o.len
        BY <2>1, <2>2, <3>3 DEF Written
      <4> HIDE DEF n
      <4>2. /\ Like(n, o) /\ SameSocket(n, o) /\ n.joined = o.joined /\ n.stream = o.stream
            /\ n.handle = o.handle /\ n.status = 1 /\ n.result = o.len
            /\ n.off = 0 /\ n.len = 0
        BY Zenon, <2>2, <4>1, SucceededFields
      <4>3. Sent(n) = Bytes(o.off + io) /\ n.off <= n.len
        BY <4>1, <4>2 DEF Sent
      <4>4. ProcessedTo(i, o, n)
        BY Zenon, <1>1, <2>4, <3>1, <3>2, <4>2, <4>3 DEF ProcessedTo
      <4> QED
        BY Zenon, <4>4 DEF ProcessedTo, Like
    <3>4. CASE ~(o.off + io >= o.len)
      <4>1. n = [o EXCEPT !.off = o.off + io]
        BY <3>4 DEF Written
      <4>2. Like(n, o) /\ SameSocket(n, o) /\ n.joined = o.joined /\ n.stream = o.stream
            /\ n.handle = o.handle /\ n.status = 0 /\ n.off = o.off + io /\ n.len = o.len
        BY <2>2, <4>1 DEF Operation, Like, SameSocket
      <4> HIDE DEF n
      <4>3. Sent(n) = Bytes(o.off + io) /\ n.off <= n.len
        BY <2>2, <3>4, <4>2 DEF Sent
      <4>4. ProcessedTo(i, o, n)
        BY Zenon, <1>1, <2>4, <3>1, <3>2, <4>2, <4>3 DEF ProcessedTo
      <4> QED
        BY Zenon, <4>4 DEF ProcessedTo, Like
    <3> QED
      BY <3>3, <3>4
  <2> QED
    BY <2>5, <2>6
<1> QED
  BY <1>4, <1>5, <1>6, <1>7, <1>8, <1>9

-----------------------------------------------------------------------------
(* How the parts of the invariant survive a step of the program's thread.  *)

LEMMA NamesKept ==
    ASSUME TypeOK, ThreadsNamed, SlotsNamed, UNCHANGED <<thread, nextGeneration>>,
           \A j \in Slots : /\ op'[j].used = op[j].used /\ op'[j].gen = op[j].gen
                            /\ op'[j].kind = op[j].kind
    PROVE  ThreadsNamed' /\ SlotsNamed'
  BY DEF ThreadsNamed, SlotsNamed

\* Closing the sockets of C wherever they are held.
LEMMA ClosingStep ==
    ASSUME TypeOK, ThreadsNamed, SocketsPlaced, HoldersOpen, UNCHANGED thread, NEW C,
           \A g \in Generations : thread[g].pc \in Carriers /\ thread[g].sock # 0 => g \notin C,
           op' \in [Slots -> Operation],
           handle' \in [Handles -> Gens],
           \A h \in Handles : handle'[h] = IF handle[h] \in C THEN 0 ELSE handle[h],
           \A j \in Slots : /\ op'[j].used = op[j].used
                            /\ op'[j].sock = IF op[j].sock \in C THEN 0 ELSE op[j].sock,
           open' = open \ C
    PROVE  SocketsPlaced' /\ HoldersOpen' /\ (NothingLost => NothingLost')
<1>1. SocketsPlaced'
  BY DEF SocketsPlaced, HandedOver
<1>2. HoldersOpen'
  BY DEF HoldersOpen
<1>3. ASSUME NothingLost, NEW s \in open' PROVE Held(s)'
  <2>1. s \in open /\ s \notin C /\ Held(s)
    BY <1>3 DEF NothingLost
  <2> QED
    BY <2>1 DEF Held
<1> QED
  BY Zenon, <1>1, <1>2, <1>3 DEF NothingLost

LEMMA SocketsKept ==
    ASSUME UNCHANGED <<thread, handle, open>>, SocketsPlaced, HoldersOpen,
           \A j \in Slots : op'[j].used = op[j].used /\ op'[j].sock = op[j].sock
    PROVE  SocketsPlaced' /\ HoldersOpen' /\ (NothingLost => NothingLost')
<1>1. SocketsPlaced' /\ HoldersOpen'
  BY DEF SocketsPlaced, HandedOver, HoldersOpen
<1>2. NothingLost => NothingLost'
  BY DEF NothingLost, Held
<1> QED
  BY Zenon, <1>1, <1>2

\* The socket of slot i becomes handle h.
LEMMA AdoptingStep ==
    ASSUME TypeOK, ThreadsNamed, SocketsPlaced, HoldersOpen, UNCHANGED <<thread, open>>,
           NEW i \in Slots, NEW h \in Handles, handle[h] = 0, op[i].used, op[i].sock # 0,
           handle' = [handle EXCEPT ![h] = op[i].sock],
           \A j \in Slots : /\ op'[j].used = op[j].used
                            /\ op'[j].sock = IF j = i THEN 0 ELSE op[j].sock
    PROVE  SocketsPlaced' /\ HoldersOpen' /\ (NothingLost => NothingLost')
<1>1. /\ handle'[h] = op[i].sock
      /\ \A k \in Handles : k # h => handle'[k] = handle[k]
  BY DEF TypeOK
<1>2. /\ thread[op[i].sock].pc \in Passed
      /\ \A j \in Slots : op[j].sock = op[i].sock => j = i
      /\ \A k \in Handles : handle[k] # op[i].sock
  BY DEF SocketsPlaced, HandedOver
<1>3. SocketsPlaced'
  BY <1>1, <1>2 DEF SocketsPlaced, HandedOver
<1>4. HoldersOpen'
  BY <1>1 DEF HoldersOpen
<1>5. ASSUME NothingLost, NEW s \in open PROVE Held(s)'
  <2>1. Held(s)
    BY <1>5 DEF NothingLost
  <2>2. s # 0
    BY DEF TypeOK, Generations
  <2> QED
    BY <1>1, <2>1, <2>2 DEF Held
<1> QED
  BY <1>3, <1>4, <1>5 DEF NothingLost

\* An update of slot i keeps every writing thread's slot its own.
LEMMA OwnKept ==
    ASSUME TypeOK, OwnSlots, ThreadsNamed, UNCHANGED thread, NEW i \in Slots, NEW n,
           op' = [op EXCEPT ![i] = n], Like(n, op[i]), op[i].used,
           n.sock \in {0, op[i].sock},
           n.kind = 1 /\ n.status \in {1, -1} => n.joined \/ thread[n.gen].pc = "none",
           n.kind = 1 /\ n.status = 1 => n.stream = n.gen /\ thread[n.gen].sock = n.gen
    PROVE  OwnSlots'
<1>1. op'[i] = n /\ \A j \in Slots : j # i => op'[j] = op[j]
  BY DEF TypeOK
<1>2. \A j \in Slots : op'[j].used = op[j].used /\ op'[j].gen = op[j].gen
  BY Zenon, <1>1 DEF Like
<1>3. \A g \in Generations : thread[g].pc \in Writing => SlotIsMine(g)'
  <2>1. \A g \in Generations : thread[g].pc \in Writing => thread[g].slot \in Slots
    BY DEF ThreadsNamed, Writing
  <2> QED
    BY <1>2, <2>1 DEF OwnSlots, SlotIsMine
<1>4. ASSUME NEW j \in Slots, ~op'[j].used PROVE op'[j].sock = 0
  BY <1>1, <1>2, <1>4 DEF OwnSlots, Like
<1>5. ASSUME NEW j \in Slots, op'[j].used
      PROVE  LET o == op'[j]
             IN  /\ o.sock \in {0, o.gen}
                 /\ o.done => o.kind = 1 /\ thread[o.gen].pc = "ended"
                 /\ o.kind = 1 /\ o.status \in {1, -1} => o.joined \/ thread[o.gen].pc = "none"
                 /\ o.kind = 1 /\ o.status = 1 => o.stream = o.gen /\ thread[o.gen].sock = o.gen
  <2>1. CASE j = i
    BY <1>1, <2>1 DEF OwnSlots, Like
  <2>2. CASE j # i
    BY <1>1, <1>5, <2>2 DEF OwnSlots
  <2> QED
    BY Zenon, <2>1, <2>2
<1> QED
  BY Zenon, <1>3, <1>4, <1>5 DEF OwnSlots

\* No step of the program's thread on slot i disturbs the writes of another
\* slot: a handle that changes is closed, or gets a socket no stream has had.
LEMMA WritesKept ==
    ASSUME TypeOK, SlotsNamed, WritesCounted, UNCHANGED <<thread, nextGeneration>>,
           NEW i \in Slots, NEW n,
           op' = [op EXCEPT ![i] = n], Like(n, op[i]), op[i].used,
           n.sock \in {0, op[i].sock},
           n.kind \in {2, 3} => n.stream = op[i].stream,
           \A h \in Handles : handle'[h] \in {handle[h], 0, op[i].sock},
           \A s, g \in Generations : g # op[i].gen => wire'[s][g] = wire[s][g],
           n.kind = 3 /\ n.status \in {0, 1} =>
             /\ n.handle \in Handles /\ n.stream # 0
             /\ n.off <= n.len
             /\ handle'[n.handle] = n.stream => wire'[n.stream][n.gen] = Sent(n)
    PROVE  WritesCounted'
<1>1. op'[i] = n /\ \A j \in Slots : j # i => op'[j] = op[j]
  BY DEF TypeOK
<1>2. \A s : s # 0 /\ HandedOver(s) => HandedOver(s)'
  BY Zenon, <1>1 DEF HandedOver, TypeOK
<1>3. ASSUME NEW j \in Slots, op'[j].used, op'[j].kind \in {2, 3}, op'[j].stream # 0
      PROVE  HandedOver(op[j].stream)'
  BY <1>1, <1>2, <1>3 DEF WritesCounted, Like
<1>4. ASSUME NEW j \in Slots, op'[j].used, op'[j].kind = 3, op'[j].status \in {0, 1}
      PROVE  WriteCounted(op[j])'
  <2>1. CASE j = i
    BY <1>1, <1>4, <2>1 DEF WriteCounted, Sent
  <2>2. CASE j # i
    <3>1. op'[j] = op[j] /\ WriteCounted(op[j]) /\ HandedOver(op[j].stream)
      BY <1>1, <1>4, <2>2 DEF WritesCounted, WriteCounted
    <3>2. handle'[op[j].handle] = op[j].stream => handle[op[j].handle] = op[j].stream
      BY Zenon, <3>1 DEF WriteCounted, HandedOver
    <3>3. op[j].gen # op[i].gen /\ op[j].gen \in Generations /\ op[j].stream \in Generations
      BY ZenonT(30), <1>4, <2>2, <3>1, NamedGeneration, SocketField DEF SlotsNamed, WriteCounted
    <3> QED
      BY <3>1, <3>2, <3>3 DEF WriteCounted, Sent
  <2> QED
    BY Zenon, <2>1, <2>2
<1>5. \A s, g \in Generations : g >= nextGeneration => wire'[s][g] = <<>>
  <2>1. op[i].gen \in 1..(nextGeneration - 1)
    BY DEF SlotsNamed
  <2> QED
    <3>1. \A g \in Generations : g >= nextGeneration => g # op[i].gen
      BY <2>1 DEF TypeOK, Generations
    <3> QED
      BY <3>1 DEF WritesCounted
<1> QED
  BY Zenon, <1>3, <1>4, <1>5 DEF WritesCounted

-----------------------------------------------------------------------------
(* The steps of the program's thread.                                      *)

\* The types of what every step on one slot changes.
LEMMA TypeKept ==
    ASSUME TypeOK, NEW i \in Slots, NEW n \in Operation, op' = [op EXCEPT ![i] = n],
           handle' \in [Handles -> Gens], open' \subseteq Generations,
           nextGeneration' \in 1..(MaxStarts + 1), spent' \in Nat,
           wire' \in [Generations -> [Generations -> Seq(Nat)]], UNCHANGED <<thread, torn>>
    PROVE  TypeOK'
  BY DEF TypeOK

\* maybe_finalize_worker on a finished connect.
LEMMA FinalizeStep ==
    ASSUME Inv, NEW i \in Slots, NEW n \in Operation, FinalizedTo(i, n),
           op[i].used, MustFinalize(op[i]),
           UNCHANGED <<nextGeneration, spent, thread, wire, torn>>
    PROVE  Inv'
<1> DEFINE o == op[i]
<1> USE DEF Inv
<1>1. /\ op' = [op EXCEPT ![i] = n] /\ Like(n, o) /\ n.joined /\ o.kind = 1 /\ n.kind = 1
      /\ o \in Operation /\ op'[i] = n /\ \A j \in Slots : j # i => op'[j] = op[j]
  BY Zenon DEF FinalizedTo, MustFinalize, Like, TypeOK
<1>2. n.sock \in {0, o.sock} /\ o.sock \in Gens
  BY <1>1 DEF FinalizedTo, SameSocket, Operation
<1>3. handle' \in [Handles -> Gens] /\ open' \subseteq Generations
      /\ \A h \in Handles : handle'[h] \in {handle[h], 0, o.sock}
  BY Zenon, <1>2 DEF FinalizedTo, TypeOK
<1>4. TypeOK'
  BY Zenon, <1>1, <1>3, TypeKept DEF TypeOK
<1>5. ThreadsNamed' /\ SlotsNamed'
  BY Zenon, <1>1, NamesKept DEF Like
<1>6. SocketsPlaced' /\ HoldersOpen' /\ (NothingLost => NothingLost')
  <2>1. CASE n.sock = 0 /\ open' = open \ {o.sock} /\ UNCHANGED handle
    <3>1. \A g \in Generations : thread[g].pc \in Carriers /\ thread[g].sock # 0 => g # o.sock
      BY DEF SocketsPlaced, Passed, Carriers, Generations
    <3>2. \A h \in Handles : handle'[h] = IF handle[h] \in {o.sock} THEN 0 ELSE handle[h]
      BY <2>1 DEF SocketsPlaced, HandedOver
    <3>3. \A j \in Slots : /\ op'[j].used = op[j].used
                           /\ op'[j].sock = IF op[j].sock \in {o.sock} THEN 0 ELSE op[j].sock
      <4>1. \A j \in Slots : op[j].sock = o.sock /\ o.sock # 0 => j = i
        BY DEF SocketsPlaced
      <4>2. ASSUME NEW j \in Slots PROVE op'[j].used = op[j].used
        BY Zenon, <1>1 DEF Like
      <4>3. ASSUME NEW j \in Slots
            PROVE  op'[j].sock = IF op[j].sock = o.sock THEN 0 ELSE op[j].sock
        <5>1. CASE j = i
          BY <1>1, <2>1, <5>1
        <5>2. CASE j # i
          BY <1>1, <4>1, <5>2
        <5> QED
          BY <5>1, <5>2
      <4> QED
        BY Zenon, <4>2, <4>3
    <3> DEFINE C == {o.sock}
    <3> HIDE DEF C
    <3>4. /\ \A g \in Generations : thread[g].pc \in Carriers /\ thread[g].sock # 0 => g \notin C
          /\ \A h \in Handles : handle'[h] = IF handle[h] \in C THEN 0 ELSE handle[h]
          /\ \A j \in Slots : /\ op'[j].used = op[j].used
                              /\ op'[j].sock = IF op[j].sock \in C THEN 0 ELSE op[j].sock
          /\ open' = open \ C
      BY Zenon, <2>1, <3>1, <3>2, <3>3 DEF C
    <3>5. op' \in [Slots -> Operation]
      BY <1>4 DEF TypeOK
    <3> QED
      BY Zenon, <1>3, <3>4, <3>5, ClosingStep
  <2>2. CASE SameSocket(n, o) /\ UNCHANGED <<handle, open>>
    <3>1. \A j \in Slots : op'[j].used = op[j].used /\ op'[j].sock = op[j].sock
      BY Zenon, <1>1, <2>2 DEF Like, SameSocket
    <3> QED
      BY <2>2, <3>1, SocketsKept
  <2>3. ASSUME n.sock = 0, o.sock # 0, NEW h \in Handles, handle[h] = 0,
               handle' = [handle EXCEPT ![h] = o.sock], UNCHANGED open
        PROVE  SocketsPlaced' /\ HoldersOpen' /\ (NothingLost => NothingLost')
    <3>1. \A j \in Slots : /\ op'[j].used = op[j].used
                           /\ op'[j].sock = IF j = i THEN 0 ELSE op[j].sock
      <4>1. ASSUME NEW j \in Slots PROVE op'[j].used = op[j].used
        BY Zenon, <1>1 DEF Like
      <4>2. ASSUME NEW j \in Slots PROVE op'[j].sock = IF j = i THEN 0 ELSE op[j].sock
        BY <1>1, <2>3
      <4> QED
        BY <4>1, <4>2
    <3> QED
      BY Zenon, <2>3, <3>1, AdoptingStep
  <2> QED
    BY <2>1, <2>2, <2>3 DEF FinalizedTo
<1>7. ASSUME torn = {} PROVE OwnSlots'
  <2>1. OwnSlots
    BY Zenon, <1>7
  <2>2. n.status = 1 => n.stream = n.gen /\ thread[n.gen].sock = n.gen
    <3>1. CASE Dropped(o) /\ n.status = o.status /\ n.stream = o.stream
      <4>1. o.used /\ n.gen = o.gen
        BY Zenon, <1>1 DEF Like
      <4>2. o.status = 1 => o.stream = o.gen /\ thread[o.gen].sock = o.gen
        BY ZenonT(30), <1>1, <2>1, <4>1 DEF OwnSlots
      <4> QED
        BY Zenon, <3>1, <4>1, <4>2
    <3>2. CASE n.stream = o.sock /\ o.sock # 0
      BY <1>1, <2>1, <3>2 DEF OwnSlots, SocketsPlaced, Like
    <3>3. n.status = 1 => \/ Dropped(o) /\ n.status = o.status /\ n.stream = o.stream
                          \/ n.stream = o.sock /\ o.sock # 0
      BY Zenon, Distinct DEF FinalizedTo
    <3> QED
      BY Zenon, <3>1, <3>2, <3>3
  <2> QED
    BY Zenon, <1>1, <1>2, <2>1, <2>2, OwnKept
<1>8. WritesCounted'
  <2>1. ~(n.kind \in {2, 3})
    BY <1>1
  <2>2. \A s, g \in Generations : g # op[i].gen => wire'[s][g] = wire[s][g]
    OBVIOUS
  <2> QED
    BY Zenon, <1>1, <1>2, <1>3, <2>1, <2>2, WritesKept
<1> QED
  BY Zenon, <1>4, <1>5, <1>6, <1>7, <1>8

\* native_net_async_process on a pending read or write.
LEMMA ProcessStep ==
    ASSUME Inv, NEW i \in Slots, NEW n \in Operation, ProcessedTo(i, op[i], n),
           op[i].used, op[i].status = 0, op[i].kind # 1,
           UNCHANGED <<nextGeneration, thread, torn>>
    PROVE  Inv'
<1> DEFINE o == op[i]
<1> USE DEF Inv
<1>1. /\ op' = [op EXCEPT ![i] = n] /\ Like(n, o) /\ SameSocket(n, o) /\ n.kind # 1
      /\ o \in Operation /\ op'[i] = n /\ \A j \in Slots : j # i => op'[j] = op[j]
      /\ UNCHANGED <<handle, open>>
  BY Zenon DEF ProcessedTo, Like, TypeOK
<1>2. TypeOK'
  BY Zenon, <1>1, TypeKept DEF TypeOK, ProcessedTo
<1>3. ThreadsNamed' /\ SlotsNamed'
  BY Zenon, <1>1, NamesKept DEF Like
<1>4. SocketsPlaced' /\ HoldersOpen' /\ (NothingLost => NothingLost')
  <2>1. \A j \in Slots : op'[j].used = op[j].used /\ op'[j].sock = op[j].sock
    BY Zenon, <1>1 DEF Like, SameSocket
  <2> QED
    BY <1>1, <2>1, SocketsKept
<1>5. ASSUME torn = {} PROVE OwnSlots'
  BY Zenon, <1>1, <1>5, OwnKept DEF SameSocket
<1>6. WritesCounted'
  <2>1. n.kind = 3 /\ n.status \in {0, 1} =>
          /\ n.handle \in Handles /\ n.stream # 0
          /\ n.off <= n.len
          /\ handle'[n.handle] = n.stream => wire'[n.stream][n.gen] = Sent(n)
    <3>1. n.kind = 3 => WriteCounted(o) /\ Sent(o) = Bytes(o.off)
      BY Zenon, <1>1 DEF WritesCounted, Like, Sent
    <3> QED
      BY Zenon, <1>1, <3>1 DEF ProcessedTo, WriteCounted, Like
  <2> QED
    BY Zenon, <1>1, <2>1, WritesKept DEF ProcessedTo, SameSocket
<1> QED
  BY <1>2, <1>3, <1>4, <1>5, <1>6

LEMMA StutterStep == Inv /\ UNCHANGED vars => Inv'
<1> SUFFICES ASSUME Inv, UNCHANGED vars PROVE Inv'
  BY ZenonT(30)
<1> USE DEF Inv, vars
<1>1. TypeOK' /\ ThreadsNamed' /\ SlotsNamed'
  BY DEF TypeOK, ThreadsNamed, SlotsNamed
<1>2. SocketsPlaced' /\ HoldersOpen' /\ (NothingLost => NothingLost')
  BY ZenonT(30), SocketsKept
<1>3. torn' = {} => OwnSlots'
  BY ZenonT(30) DEF OwnSlots, SlotIsMine
<1>4. WritesCounted'
  BY DEF WritesCounted, WriteCounted, HandedOver, Sent
<1> QED
  BY <1>1, <1>2, <1>3, <1>4

\* net.async.poll, one round of net.async.await, and the calls that only
\* finalize.
LEMMA PollStep ==
    ASSUME Inv, NEW i \in Slots, NEW io \in Outcomes, NEW blocking \in BOOLEAN,
           Poll(i, io, blocking) \/ Touch(i, blocking)
    PROVE  Inv'
<1>1. TypeOK /\ op[i] \in Operation
  BY DEF Inv, TypeOK
<1>2. CASE MustFinalize(op[i])
  <2>1. op[i].used /\ Finalize(i, op[i], blocking)
        /\ UNCHANGED <<nextGeneration, spent, thread, wire, torn>>
    BY <1>2 DEF Poll, Touch, MustFinalize
  <2>2. \E n \in Operation : FinalizedTo(i, n)
    BY <1>1, <1>2, <2>1, FinalizeEffect
  <2> QED
    BY <1>2, <2>1, <2>2, FinalizeStep
<1>3. CASE ~MustFinalize(op[i]) /\ op[i].kind = 1
  <2>1. op' = [op EXCEPT ![i] = op[i]]
        /\ UNCHANGED <<handle, nextGeneration, spent, thread, open, wire, torn>>
    BY <1>3 DEF Poll, Touch, Finalize
  <2>2. UNCHANGED vars
    BY <1>1, <2>1 DEF vars, TypeOK
  <2> QED
    BY <2>2, StutterStep
<1>4. CASE ~MustFinalize(op[i]) /\ op[i].kind # 1
  <2>1. op[i].used /\ op[i].status = 0 /\ Process(i, op[i], io)
        /\ UNCHANGED <<nextGeneration, thread, torn>>
    BY <1>4 DEF Poll, Touch
  <2>2. op[i].gen \in Generations
    BY <1>1, <2>1 DEF Inv, SlotsNamed, TypeOK, Generations
  <2>3. op[i].kind = 3 => op[i].handle \in Handles /\ op[i].stream # 0 /\ op[i].off <= op[i].len
    BY Zenon, <2>1 DEF Inv, WritesCounted, WriteCounted
  <2>4. \E n \in Operation : ProcessedTo(i, op[i], n)
    BY <1>1, <2>1, <2>2, <2>3, ProcessEffect
  <2> QED
    BY ZenonT(30), <1>4, <2>1, <2>4, ProcessStep
<1> QED
  BY <1>2, <1>3, <1>4

\* net.async.cancel.
LEMMA CancelStep ==
    ASSUME Inv, NEW i \in Slots, Cancel(i)
    PROVE  Inv'
<1> USE DEF Inv
<1> DEFINE o == [op[i] EXCEPT !.canceled = TRUE]
           must == MustFinalize(op[i])
           f == IF must THEN WorkerSocketClosed([o EXCEPT !.joined = TRUE]) ELSE o
           n == [Released(f) EXCEPT !.handle = 0, !.status = -2]
           h == IF op[i].kind = 1 THEN op[i].handle ELSE 0
           C == (IF must THEN {op[i].sock} ELSE {}) \cup {handle[k] : k \in {h} \cap Handles}
<1>1. op[i] \in Operation
  BY DEF TypeOK
<1>2. /\ o \in Operation /\ Like(o, op[i]) /\ o.sock = op[i].sock /\ o.stream = op[i].stream
      /\ o.joined = op[i].joined /\ o.handle = op[i].handle
  BY Zenon, <1>1 DEF Operation, Like
<1>3. MustFinalize(o) <=> must
  BY <1>2 DEF MustFinalize, Like
<1>4. /\ op[i].used /\ op[i].status = 0
      /\ op' = [op EXCEPT ![i] = n]
      /\ open' = open \ C
      /\ handle' = [k \in Handles |-> IF k = h THEN 0 ELSE handle[k]]
      /\ UNCHANGED <<nextGeneration, spent, thread, wire, torn>>
  BY Zenon, <1>2, <1>3 DEF Cancel, Like
<1>5. f \in Operation /\ Like(f, op[i]) /\ f.stream = op[i].stream
      /\ f.sock = (IF must THEN 0 ELSE op[i].sock)
  <2>1. CASE must
    <3> DEFINE j == [o EXCEPT !.joined = TRUE]
    <3> HIDE DEF o
    <3>1. Like(j, o) /\ j.stream = o.stream
      BY Zenon, <1>2, JoinedFields
    <3> HIDE DEF j
    <3>2. Like(WorkerSocketClosed(j), j) /\ WorkerSocketClosed(j).sock = 0
          /\ WorkerSocketClosed(j).stream = j.stream
      BY <3>1, ClosedFields DEF Like
    <3>3. f = WorkerSocketClosed(j)
      BY <2>1 DEF j
    <3> HIDE DEF f, must
    <3> QED
      BY Zenon, <1>2, <2>1, <3>1, <3>2, <3>3 DEF Like
  <2>2. CASE ~must
    BY <1>2, <2>2
  <2> QED
    BY Zenon, <2>1, <2>2
<1> HIDE DEF f, o
<1>6. /\ n \in Operation /\ Like(n, op[i]) /\ n.stream = op[i].stream /\ n.status = -2
      /\ n.sock = (IF must THEN 0 ELSE op[i].sock)
  <2>1. Like(Released(f), f) /\ Released(f).stream = f.stream /\ Released(f).sock = f.sock
    BY <1>5, ReleasedFields DEF SameSocket
  <2> DEFINE r == Released(f)
  <2> HIDE DEF r, must
  <2>2. LET m == [r EXCEPT !.handle = 0, !.status = -2]
        IN  Like(m, r) /\ m.stream = r.stream /\ m.sock = r.sock /\ m.status = -2
    BY Zenon, <2>1 DEF Like, Operation, r
  <2> QED
    BY Zenon, <1>5, <2>1, <2>2 DEF Like, r
<1> HIDE DEF n, h
<1>7. op'[i] = n /\ \A j \in Slots : j # i => op'[j] = op[j]
  BY Zenon, <1>4 DEF TypeOK
<1>8. handle' \in [Handles -> Gens] /\ open' \subseteq Generations
      /\ \A k \in Handles : handle'[k] \in {handle[k], 0}
  BY <1>4 DEF TypeOK, Gens
<1>9. TypeOK'
  BY Zenon, <1>4, <1>6, <1>8, TypeKept DEF TypeOK
<1>10. ThreadsNamed' /\ SlotsNamed'
  BY Zenon, <1>4, <1>6, <1>7, NamesKept DEF Like
<1>11. SocketsPlaced' /\ HoldersOpen' /\ (NothingLost => NothingLost')
  <2> HIDE DEF must
  <2>1. \A s \in C : \/ s = 0
                     \/ must /\ s = op[i].sock /\ thread[s].pc \in Passed
                     \/ h \in Handles /\ s = handle[h] /\ thread[s].pc \in Passed
    BY DEF SocketsPlaced, HandedOver
  <2>2. \A g \in Generations : thread[g].pc \in Carriers /\ thread[g].sock # 0 => g \notin C
    BY <2>1 DEF Passed, Carriers, Generations
  <2>3. ASSUME NEW k \in Handles
        PROVE  handle'[k] = IF handle[k] \in C THEN 0 ELSE handle[k]
    <3>1. CASE k = h
      BY Zenon, <1>4, <3>1
    <3>2. CASE k # h
      <4>1. handle[k] \in C => handle[k] = 0
        BY <2>1, <3>2 DEF SocketsPlaced, HandedOver
      <4> QED
        BY Zenon, <1>4, <3>2, <4>1
    <3> QED
      BY <3>1, <3>2
  <2>4. ASSUME NEW j \in Slots
        PROVE  /\ op'[j].used = op[j].used
               /\ op'[j].sock = IF op[j].sock \in C THEN 0 ELSE op[j].sock
    <3>1. CASE j = i
      <4>1. ~must /\ op[i].sock \in C => op[i].sock = 0
        BY <2>1 DEF SocketsPlaced, HandedOver
      <4>2. must => op[i].sock \in C
        OBVIOUS
      <4> QED
        BY Zenon, <1>6, <1>7, <3>1, <4>1, <4>2 DEF Like
    <3>2. CASE j # i
      <4>1. op[j].sock \in C => op[j].sock = 0
        BY <2>1, <3>2 DEF SocketsPlaced, HandedOver
      <4> QED
        BY Zenon, <1>7, <3>2, <4>1
    <3> QED
      BY Zenon, <3>1, <3>2
  <2> HIDE DEF C
  <2>5. op' \in [Slots -> Operation]
    BY Zenon, <1>9 DEF TypeOK
  <2> QED
    BY ZenonT(30), <1>4, <1>8, <2>2, <2>3, <2>4, <2>5, ClosingStep
<1> HIDE DEF must
<1>a. n.sock \in {0, op[i].sock} /\ n.status \notin {0, 1, -1}
  BY <1>6
<1>12. ASSUME torn = {} PROVE OwnSlots'
  BY Zenon, <1>4, <1>6, <1>12, <1>a, OwnKept
<1>13. WritesCounted'
  <2>1. \A s, g \in Generations : g # op[i].gen => wire'[s][g] = wire[s][g]
    BY <1>4
  <2>2. \A k \in Handles : handle'[k] \in {handle[k], 0, op[i].sock}
    BY <1>8
  <2> QED
    BY Zenon, <1>4, <1>6, <1>a, <2>1, <2>2, WritesKept
<1> QED
  BY <1>4, <1>9, <1>10, <1>11, <1>12, <1>13

\* net.tcp.close.
LEMMA CloseStep ==
    ASSUME Inv, NEW h \in Handles, Close(h)
    PROVE  Inv'
<1> USE DEF Inv
<1> DEFINE C == {handle[h]}
<1>1. /\ handle[h] # 0 /\ open' = open \ C /\ handle' = [handle EXCEPT ![h] = 0]
      /\ UNCHANGED <<op, nextGeneration, spent, thread, wire, torn>>
  BY Zenon DEF Close
<1>2. TypeOK'
  BY <1>1 DEF TypeOK, Gens
<1>3. ThreadsNamed' /\ SlotsNamed'
  BY <1>1, NamesKept
<1>4. SocketsPlaced' /\ HoldersOpen' /\ (NothingLost => NothingLost')
  <2>1. \A g \in Generations : thread[g].pc \in Carriers /\ thread[g].sock # 0 => g \notin C
    BY Zenon, <1>1 DEF SocketsPlaced, HandedOver, Passed, Carriers
  <2>2. \A k \in Handles : handle'[k] = IF handle[k] \in C THEN 0 ELSE handle[k]
    BY Zenon, <1>1 DEF SocketsPlaced, TypeOK
  <2>3. \A j \in Slots : /\ op'[j].used = op[j].used
                         /\ op'[j].sock = IF op[j].sock \in C THEN 0 ELSE op[j].sock
    BY <1>1 DEF SocketsPlaced, HandedOver
  <2> HIDE DEF C
  <2> QED
    BY Zenon, <1>1, <1>2, <2>1, <2>2, <2>3, ClosingStep DEF TypeOK
<1>5. torn' = {} => OwnSlots'
  BY Zenon, <1>1 DEF OwnSlots, SlotIsMine
<1>6. WritesCounted'
  <2>1. \A k \in Handles : handle'[k] \in {handle[k], 0}
    BY <1>1 DEF TypeOK
  <2> QED
    BY <1>1, <2>1 DEF WritesCounted, WriteCounted, HandedOver, Sent
<1> QED
  BY Zenon, <1>1, <1>2, <1>3, <1>4, <1>5, <1>6

\* native_net_reset.
LEMMA ResetStep ==
    ASSUME Inv, Reset
    PROVE  Inv'
<1> USE DEF Inv
<1>1. /\ op' = [i \in Slots |-> NoOperation]
      /\ handle' = [h \in Handles |-> 0]
      /\ open' = open \ ({handle[h] : h \in Handles}
                         \cup {op[i].sock : i \in {k \in Slots : op[k].used}})
      /\ torn' = torn \cup {g \in Generations : thread[g].pc \in Writing}
      /\ spent' = 0
      /\ UNCHANGED <<nextGeneration, thread, wire>>
  BY Zenon DEF Reset, Writing
<1>2. /\ NoOperation \in Operation /\ ~NoOperation.used /\ NoOperation.sock = 0
  BY DEF NoOperation, Operation, Gens
<1>3. TypeOK'
  BY <1>1, <1>2 DEF TypeOK, Gens
<1>4. \A j \in Slots : op'[j].sock = 0 /\ ~op'[j].used
  BY <1>1, <1>2
<1>5. ThreadsNamed' /\ SlotsNamed'
  BY Zenon, <1>1, <1>4 DEF ThreadsNamed, SlotsNamed
<1>6. SocketsPlaced'
  BY Zenon, <1>1, <1>4 DEF SocketsPlaced
<1>7. HoldersOpen'
  <2>1. ASSUME NEW g \in Generations, thread[g].pc \in Carriers, thread[g].sock # 0
        PROVE  g \in open'
    <3>1. g \in open /\ g # 0
      BY <2>1 DEF HoldersOpen, Generations
    <3>2. \A h \in Handles : handle[h] # g
      BY Zenon, <2>1, <3>1 DEF SocketsPlaced, HandedOver, Passed, Carriers
    <3>3. \A j \in Slots : op[j].sock # g
      BY <2>1, <3>1 DEF SocketsPlaced, Passed, Carriers
    <3> QED
      BY Zenon, <1>1, <3>1, <3>2, <3>3
  <2> QED
    BY Zenon, <1>1, <1>4, <2>1 DEF HoldersOpen
<1>8. ASSUME torn' = {} PROVE OwnSlots' /\ NothingLost'
  <2>1. torn = {} /\ NothingLost /\ \A g \in Generations : thread[g].pc \notin Writing
    BY Zenon, <1>1, <1>8
  <2>2. OwnSlots'
    BY Zenon, <1>1, <1>4, <2>1 DEF OwnSlots
  <2>3. ASSUME NEW s \in open' PROVE Held(s)'
    <3>1. /\ s \in open /\ \A h \in Handles : handle[h] # s
          /\ \A j \in Slots : op[j].used => op[j].sock # s
      BY Zenon, <1>1, <2>3
    <3>2. thread[s].pc \in Carriers /\ thread[s].sock = s
      BY <2>1, <3>1 DEF NothingLost, Held
    <3> QED
      BY Zenon, <1>1, <3>2 DEF Held
  <2> QED
    BY Zenon, <2>2, <2>3 DEF NothingLost
<1>9. WritesCounted'
  BY Zenon, <1>1, <1>4 DEF WritesCounted
<1> QED
  BY Zenon, <1>3, <1>5, <1>6, <1>7, <1>8, <1>9

\* A new operation n in the free slot i, with or without a connect thread.
AllocatedTo(i, n) ==
    /\ ~op[i].used
    /\ nextGeneration \in Generations
    /\ nextGeneration' = nextGeneration + 1
    /\ op' = [op EXCEPT ![i] = n]
    /\ n \in Operation
    /\ n.used /\ n.gen = nextGeneration /\ n.sock = 0 /\ ~n.done
    /\ n.kind = 1 => n.status \in {0, -1}
    /\ \/ UNCHANGED thread
       \/ /\ n.kind = 1 /\ n.status = 0
          /\ thread' = [thread EXCEPT ![nextGeneration].pc = "connect",
                                      ![nextGeneration].slot = i]
    /\ UNCHANGED <<handle, open, torn>>
    /\ spent' \in Nat
    /\ wire' \in [Generations -> [Generations -> Seq(Nat)]]
    /\ \A s, g \in Generations : g # nextGeneration => wire'[s][g] = wire[s][g]
    /\ n.kind \in {2, 3} /\ n.stream # 0 => \E h \in Handles : n.stream = handle[h]
    /\ n.kind = 3 /\ n.status \in {0, 1} =>
         /\ n.handle \in Handles /\ n.stream # 0 /\ n.off <= n.len
         /\ handle[n.handle] = n.stream => wire'[n.stream][n.gen] = Sent(n)

LEMMA AllocateStep ==
    ASSUME Inv, NEW i \in Slots, NEW n, AllocatedTo(i, n)
    PROVE  Inv'
<1> USE DEF Inv
<1> DEFINE new == nextGeneration
<1>1. /\ op'[i] = n /\ (\A j \in Slots : j # i => op'[j] = op[j]) /\ ~op[i].used
      /\ n \in Operation /\ n.used /\ n.gen = new /\ n.sock = 0 /\ ~n.done
      /\ UNCHANGED <<handle, open, torn>>
  BY DEF AllocatedTo, TypeOK
<1>2. new \in Generations /\ new \in Nat /\ nextGeneration' = new + 1 /\ thread[new].pc = "none"
      /\ thread[new].sock = 0
  <2>1. new \in Generations /\ nextGeneration' = new + 1
    BY DEF AllocatedTo
  <2>2. new \in Nat /\ ~(new < nextGeneration)
    BY <2>1 DEF Generations
  <2> QED
    BY <2>1, <2>2 DEF ThreadsNamed
<1>3. /\ \A g \in Generations : g # new => thread'[g] = thread[g]
      /\ thread'[new].pc \in {"none", "connect"} /\ thread'[new].sock = 0
      /\ thread'[new].pc # "none" => thread'[new].slot = i /\ n.kind = 1 /\ n.status = 0
      /\ thread' \in [Generations -> [pc : Pcs, slot : Slots \cup {0}, sock : Gens]]
  <2>1. CASE UNCHANGED thread
    BY Zenon, <1>2, <2>1 DEF TypeOK
  <2>2. CASE /\ n.kind = 1 /\ n.status = 0
             /\ thread' = [thread EXCEPT ![new].pc = "connect", ![new].slot = i]
    <3>1. thread \in [Generations -> [pc : Pcs, slot : Slots \cup {0}, sock : Gens]]
      BY Zenon DEF TypeOK
    <3>2. /\ thread' \in [Generations -> [pc : Pcs, slot : Slots \cup {0}, sock : Gens]]
          /\ thread'[new].pc = "connect" /\ thread'[new].slot = i /\ thread'[new].sock = 0
          /\ \A k \in Generations : k # new => thread'[k] = thread[k]
      BY Zenon, <1>2, <2>2, <3>1 DEF Pcs
    <3> QED
      BY Zenon, <2>2, <3>2
  <2> QED
    BY Zenon, <2>1, <2>2 DEF AllocatedTo
<1>4. TypeOK'
  <2>1. nextGeneration' \in 1..(MaxStarts + 1)
    BY <1>2 DEF Generations
  <2> QED
    BY Zenon, <1>1, <1>3, <2>1 DEF AllocatedTo, TypeOK
<1>5. ThreadsNamed'
  <2> SUFFICES ASSUME NEW g \in Generations
               PROVE  /\ thread'[g].pc # "none" => thread'[g].slot \in Slots /\ g < nextGeneration'
                      /\ thread'[g].sock \in {0, g}
                      /\ thread'[g].pc \in {"none", "connect"} => thread'[g].sock = 0
    BY DEF ThreadsNamed
  <2>1. CASE g = new
    <3>1. g < nextGeneration'
      BY <1>2, <2>1
    <3> QED
      BY <1>3, <2>1, <3>1
  <2>2. CASE g # new
    <3>1. g < nextGeneration => g < nextGeneration'
      BY <1>2 DEF Generations
    <3> QED
      BY <1>3, <2>2, <3>1 DEF ThreadsNamed
  <2> QED
    BY <2>1, <2>2
<1>6. \A j \in Slots : op[j].used => j # i /\ op[j].gen # new /\ op[j].gen \in Generations
                                     /\ op[j].gen \in 1..(new - 1)
  BY <1>1, <1>2 DEF SlotsNamed, TypeOK, Generations
<1>7. SlotsNamed'
  <2>1. ASSUME NEW j \in Slots, op'[j].used
        PROVE  /\ op'[j].gen \in 1..(nextGeneration' - 1)
               /\ thread'[op'[j].gen].pc # "none" =>
                    thread'[op'[j].gen].slot = j /\ op'[j].kind = 1
    <3>1. CASE j = i
      <4>1. new \in 1..(nextGeneration' - 1)
        BY <1>2 DEF Generations
      <4> QED
        BY <1>1, <1>3, <3>1, <4>1
    <3>2. CASE j # i
      <4>1. op'[j] = op[j]
        BY Zenon, <1>1, <3>2 DEF AllocatedTo, TypeOK
      <4>2. op[j].used /\ op[j].gen # new /\ op[j].gen \in Generations /\ op[j].gen \in 1..(new - 1)
        BY Zenon, <1>6, <2>1, <4>1
      <4>3. thread'[op[j].gen] = thread[op[j].gen]
        BY Zenon, <1>3, <4>2
      <4>4. thread[op[j].gen].pc # "none" => thread[op[j].gen].slot = j /\ op[j].kind = 1
        BY Zenon, <4>2 DEF SlotsNamed
      <4>5. op[j].gen \in 1..(nextGeneration' - 1)
        BY <1>2, <4>2 DEF Generations
      <4> QED
        BY Zenon, <4>1, <4>3, <4>4, <4>5
    <3> QED
      BY <3>1, <3>2
  <2>2. \A j, k \in Slots : op'[j].used /\ op'[k].used /\ op'[j].gen = op'[k].gen => j = k
    BY <1>1, <1>6 DEF SlotsNamed
  <2> QED
    BY Zenon, <2>1, <2>2 DEF SlotsNamed
<1>8. \A s : s \in Generations /\ HandedOver(s) => s # new /\ HandedOver(s)'
  BY <1>1, <1>2, <1>3 DEF HandedOver, Passed, Generations
<1>9. SocketsPlaced'
  <2>1. ASSUME NEW j \in Slots, op'[j].sock # 0
        PROVE  LET g == op'[j].sock
               IN  thread'[g].pc \in Passed /\ thread'[g].slot = j /\ thread'[g].sock = g
    <3>1. j # i /\ op'[j] = op[j]
      BY <1>1, <2>1
    <3>2. op[j].sock # new /\ op[j].sock \in Generations
      BY Zenon, <1>2, <2>1, <3>1, SocketField DEF SocketsPlaced, Passed
    <3> QED
      BY <1>3, <2>1, <3>1, <3>2 DEF SocketsPlaced
  <2>2. \A h \in Handles : handle'[h] # 0 => HandedOver(handle[h])'
    BY ZenonT(30), <1>1, <1>8 DEF SocketsPlaced, TypeOK, Gens
  <2> QED
    BY Zenon, <1>1, <2>1, <2>2 DEF SocketsPlaced
<1>10. HoldersOpen'
  <2>1. \A g \in Generations : thread'[g].pc \in Carriers /\ thread'[g].sock # 0 => g \in open'
    BY Zenon, <1>1, <1>2, <1>3 DEF HoldersOpen
  <2> QED
    BY <1>1, <2>1 DEF HoldersOpen
<1>11. ASSUME torn = {} PROVE OwnSlots'
  <2>0. OwnSlots
    BY <1>11
  <2>1. ASSUME NEW g \in Generations, thread'[g].pc \in Writing PROVE SlotIsMine(g)'
    <3>1. g # new /\ thread'[g] = thread[g] /\ thread[g].slot \in Slots
      BY Zenon, <1>2, <1>3, <2>1 DEF Writing, ThreadsNamed
    <3>2. SlotIsMine(g)
      BY Zenon, <2>0, <2>1, <3>1 DEF OwnSlots
    <3> QED
      BY Zenon, <1>1, <3>1, <3>2 DEF SlotIsMine
  <2>2. \A j \in Slots : ~op'[j].used => op'[j].sock = 0
    BY ZenonT(30), <1>1, <2>0 DEF OwnSlots
  <2>3. ASSUME NEW j \in Slots, op'[j].used
        PROVE  LET o == op'[j]
               IN  /\ o.sock \in {0, o.gen}
                   /\ o.done => o.kind = 1 /\ thread'[o.gen].pc = "ended"
                   /\ o.kind = 1 /\ o.status \in {1, -1} => o.joined \/ thread'[o.gen].pc = "none"
                   /\ o.kind = 1 /\ o.status = 1 => o.stream = o.gen /\ thread'[o.gen].sock = o.gen
    <3>1. CASE j = i
      <4>1. n.kind = 1 => n.status \in {0, -1}
        BY Zenon DEF AllocatedTo
      <4> QED
        BY <1>1, <1>3, <3>1, <4>1
    <3>2. CASE j # i
      <4>1. op'[j] = op[j] /\ op[j].used /\ thread'[op[j].gen] = thread[op[j].gen]
        BY Zenon, <1>1, <1>3, <1>6, <2>3, <3>2
      <4>2. /\ op[j].sock \in {0, op[j].gen}
            /\ op[j].done => op[j].kind = 1 /\ thread[op[j].gen].pc = "ended"
            /\ op[j].kind = 1 /\ op[j].status \in {1, -1} =>
                 op[j].joined \/ thread[op[j].gen].pc = "none"
            /\ op[j].kind = 1 /\ op[j].status = 1 =>
                 op[j].stream = op[j].gen /\ thread[op[j].gen].sock = op[j].gen
        BY Zenon, <2>0, <4>1 DEF OwnSlots
      <4> QED
        BY <4>1, <4>2
    <3> QED
      BY Zenon, <3>1, <3>2
  <2> QED
    BY Zenon, <2>1, <2>2, <2>3 DEF OwnSlots
<1>12. ASSUME NothingLost PROVE NothingLost'
  <2>1. ASSUME NEW s \in open PROVE Held(s)'
    <3>1. Held(s) /\ s \in Generations
      BY Zenon, <1>12 DEF NothingLost, TypeOK
    <3>2. thread[s].pc \in Carriers => thread'[s] = thread[s]
      BY Zenon, <1>2, <1>3, <3>1 DEF Carriers
    <3> QED
      BY <1>1, <3>1, <3>2 DEF Held
  <2> QED
    BY Zenon, <1>1, <2>1 DEF NothingLost
<1>13. WritesCounted'
  <2>1. ASSUME NEW j \in Slots, op'[j].used, op'[j].kind \in {2, 3}, op'[j].stream # 0
        PROVE  HandedOver(op[j].stream)'
    <3>1. HandedOver(op'[j].stream) /\ op'[j].stream \in Generations
      <4>1. CASE j = i
        <5>1. PICK h \in Handles : n.stream = handle[h]
          BY ZenonT(30), <1>1, <2>1, <4>1 DEF AllocatedTo
        <5> QED
          BY <1>1, <2>1, <4>1, <5>1 DEF SocketsPlaced, TypeOK, Gens
      <4>2. CASE j # i
        <5>1. op'[j] = op[j]
          BY Zenon, <1>1, <4>2 DEF AllocatedTo, TypeOK
        <5>2. op[j].used /\ op[j].kind \in {2, 3} /\ op[j].stream # 0
          BY Zenon, <2>1, <5>1
        <5>3. HandedOver(op[j].stream)
          BY Zenon, <5>2 DEF WritesCounted
        <5>4. op[j].stream \in Generations
          BY Zenon, <5>2, SocketField
        <5> QED
          BY Zenon, <5>1, <5>3, <5>4
      <4> QED
        BY ZenonT(30), <4>1, <4>2
    <3> QED
      BY <1>8, <3>1 DEF HandedOver
  <2>2. ASSUME NEW j \in Slots, op'[j].used, op'[j].kind = 3, op'[j].status \in {0, 1}
        PROVE  WriteCounted(op[j])'
    <3>1. CASE j = i
      BY <1>1, <2>2, <3>1 DEF AllocatedTo, WriteCounted, Sent
    <3>2. CASE j # i
      <4>1. op'[j] = op[j] /\ WriteCounted(op[j]) /\ op[j].stream \in Generations
        BY <1>1, <2>2, <3>2, SocketField DEF WritesCounted, WriteCounted
      <4>2. wire'[op[j].stream][op[j].gen] = wire[op[j].stream][op[j].gen]
        BY Zenon, <1>1, <1>6, <2>2, <3>2, <4>1 DEF AllocatedTo
      <4> QED
        BY ZenonT(30), <1>1, <4>1, <4>2 DEF WriteCounted, Sent
    <3> QED
      BY <3>1, <3>2
  <2>3. ASSUME NEW s \in Generations, NEW g \in Generations, g >= nextGeneration'
        PROVE  wire'[s][g] = <<>>
    <3>1. g # new /\ g >= nextGeneration
      BY <1>2, <2>3 DEF Generations
    <3>2. wire[s][g] = <<>>
      BY Zenon, <3>1 DEF WritesCounted
    <3>3. wire'[s][g] = wire[s][g]
      BY <3>1 DEF AllocatedTo
    <3> QED
      BY <3>2, <3>3
  <2> QED
    BY Zenon, <2>1, <2>2, <2>3 DEF WritesCounted
<1> QED
  BY Zenon, <1>1, <1>4, <1>5, <1>7, <1>9, <1>10, <1>11, <1>12, <1>13

LEMMA AllocatesFree ==
    ASSUME NEW i, Allocates(i)
    PROVE  i \in Slots /\ ~op[i].used /\ nextGeneration \in Generations
                       /\ nextGeneration' = nextGeneration + 1
<1>1. FreeSlots \in SUBSET Nat
  BY DEF FreeSlots, Slots
<1>2. i \in FreeSlots
  BY <1>1, LeastNat DEF Allocates
<1> QED
  BY <1>2 DEF Allocates, FreeSlots

LEMMA AllocatedFields ==
    ASSUME nextGeneration \in Generations
    PROVE  /\ Allocated \in Operation
           /\ Allocated.used /\ Allocated.gen = nextGeneration
           /\ Allocated.sock = 0 /\ ~Allocated.done
           /\ Allocated.kind = 0 /\ Allocated.status = 0 /\ Allocated.off = 0
<1>1. 0 \in Gens /\ nextGeneration \in Gens
  BY Zenon DEF Gens
<1>2. NoOperation \in Operation
  BY <1>1 DEF NoOperation, Operation
<1> QED
  BY Zenon, <1>1, <1>2 DEF Allocated, NoOperation, Operation

LEMMA ConnectStartStep ==
    ASSUME Inv, NEW i \in Slots, NEW how \in {"refused", "failed", "started"},
           ConnectStart(i, how)
    PROVE  Inv'
<1> DEFINE o == [Allocated EXCEPT !.kind = IF how = "refused" THEN 0 ELSE 1]
           n == IF how = "started" THEN o ELSE Failed(o)
<1>1. Allocates(i) /\ ~op[i].used /\ nextGeneration \in Generations
      /\ nextGeneration' = nextGeneration + 1
  BY AllocatesFree DEF ConnectStart
<1>2. /\ o \in Operation /\ o.used /\ o.gen = nextGeneration /\ o.sock = 0 /\ ~o.done
      /\ o.status = 0 /\ o.kind \in {0, 1} /\ (how = "started" => o.kind = 1)
  BY <1>1, AllocatedFields DEF Operation
<1>3. op' = [op EXCEPT ![i] = n]
  BY DEF ConnectStart
<1>4. /\ how = "started" => thread' = [thread EXCEPT ![nextGeneration].pc = "connect",
                                                     ![nextGeneration].slot = i]
      /\ how # "started" => UNCHANGED thread
      /\ UNCHANGED <<handle, spent, open, wire, torn>>
  BY DEF ConnectStart
<1> HIDE DEF o
<1>5. /\ Failed(o) \in Operation /\ Failed(o).used /\ Failed(o).gen = nextGeneration
      /\ Failed(o).sock = 0 /\ ~Failed(o).done /\ Failed(o).status = -1
      /\ Failed(o).kind \in {0, 1}
  BY Zenon, <1>2, FailedFields DEF Like, SameSocket
<1>6. /\ n \in Operation /\ n.used /\ n.gen = nextGeneration /\ n.sock = 0 /\ ~n.done
      /\ n.kind \in {0, 1} /\ n.status \in {0, -1}
      /\ how = "started" => n.kind = 1 /\ n.status = 0
  BY <1>2, <1>5
<1> HIDE DEF n
<1>7. AllocatedTo(i, n)
  <2>1. \/ UNCHANGED thread
        \/ /\ n.kind = 1 /\ n.status = 0
           /\ thread' = [thread EXCEPT ![nextGeneration].pc = "connect",
                                       ![nextGeneration].slot = i]
    BY <1>4, <1>6
  <2>2. /\ spent' \in Nat /\ wire' \in [Generations -> [Generations -> Seq(Nat)]]
        /\ \A s, g \in Generations : g # nextGeneration => wire'[s][g] = wire[s][g]
    BY <1>4 DEF Inv, TypeOK
  <2>3. n.kind \notin {2, 3}
    BY <1>6
  <2> QED
    BY Zenon, <1>1, <1>3, <1>4, <1>6, <2>1, <2>2, <2>3 DEF AllocatedTo
<1> QED
  BY <1>7, AllocateStep

LEMMA StreamStartStep ==
    ASSUME Inv, NEW i \in Slots, NEW kind \in {2, 3}, NEW h \in Handles,
           NEW len \in Nat, NEW io \in Outcomes, StreamStart(i, kind, h, len, io)
    PROVE  Inv'
<1> DEFINE o == [Allocated EXCEPT !.kind = kind, !.handle = h, !.len = len,
                                  !.stream = handle[h]]
<1>1. Allocates(i) /\ ~op[i].used /\ nextGeneration \in Generations
      /\ nextGeneration' = nextGeneration + 1 /\ UNCHANGED <<thread, torn>>
  BY AllocatesFree DEF StreamStart
<1>2. CASE handle[h] = 0
  <2>1. op' = [op EXCEPT ![i] = Failed(Allocated)] /\ UNCHANGED <<handle, spent, open, wire>>
    BY Zenon, <1>2 DEF StreamStart
  <2> DEFINE n == Failed(Allocated)
  <2>2. /\ n \in Operation /\ n.used /\ n.gen = nextGeneration /\ n.sock = 0 /\ ~n.done
        /\ n.kind = 0
    BY <1>1, AllocatedFields, FailedFields DEF Like, SameSocket
  <2>3. op' = [op EXCEPT ![i] = n]
    BY <2>1
  <2> HIDE DEF n
  <2>4. AllocatedTo(i, n)
    BY <1>1, <2>1, <2>2, <2>3 DEF AllocatedTo, Inv, TypeOK
  <2> QED
    BY <2>4, AllocateStep
<1>3. CASE handle[h] # 0
  <2>1. Process(i, o, io)
    BY <1>3 DEF StreamStart
  <2>2. /\ o \in Operation /\ o.used /\ o.gen = nextGeneration /\ o.sock = 0 /\ ~o.done
        /\ o.status = 0 /\ o.kind = kind /\ o.off = 0 /\ o.handle = h /\ o.len = len
        /\ o.stream = handle[h]
    <3>1. handle[h] \in Gens /\ 0 \in Gens /\ nextGeneration \in Gens
      BY <1>1 DEF Inv, TypeOK, Gens
    <3>2. /\ Allocated \in Operation
          /\ Allocated.used /\ Allocated.gen = nextGeneration
          /\ Allocated.sock = 0 /\ ~Allocated.done
          /\ Allocated.kind = 0 /\ Allocated.status = 0 /\ Allocated.off = 0
      BY <1>1, AllocatedFields
    <3> DEFINE a == Allocated
               k == [a EXCEPT !.kind = kind]
               c == [k EXCEPT !.handle = h]
               d == [c EXCEPT !.len = len]
    <3> HIDE DEF a
    <3>3. /\ k \in Operation /\ k.used = a.used /\ k.gen = a.gen /\ k.sock = a.sock
          /\ k.done = a.done /\ k.status = a.status /\ k.off = a.off /\ k.kind = kind
      <4>1. a \in Operation /\ kind \in 0..3
        BY <3>2 DEF a
      <4> QED
        BY <4>1 DEF Operation
    <3> HIDE DEF k
    <3>4. /\ c \in Operation /\ c.used = k.used /\ c.gen = k.gen /\ c.sock = k.sock
          /\ c.done = k.done /\ c.status = k.status /\ c.off = k.off /\ c.kind = k.kind
          /\ c.handle = h
      BY <3>3 DEF Operation
    <3> HIDE DEF c
    <3>5. /\ d \in Operation /\ d.used = c.used /\ d.gen = c.gen /\ d.sock = c.sock
          /\ d.done = c.done /\ d.status = c.status /\ d.off = c.off /\ d.kind = c.kind
          /\ d.handle = c.handle /\ d.len = len
      BY <3>4 DEF Operation
    <3> HIDE DEF d, o
    <3>6. o = [d EXCEPT !.stream = handle[h]]
      BY DEF o, d, c, k, a
    <3>7. /\ o \in Operation /\ o.used = d.used /\ o.gen = d.gen /\ o.sock = d.sock
          /\ o.done = d.done /\ o.status = d.status /\ o.off = d.off /\ o.kind = d.kind
          /\ o.handle = d.handle /\ o.len = d.len /\ o.stream = handle[h]
      BY Zenon, <3>1, <3>5, <3>6 DEF Operation
    <3> QED
      BY ZenonT(30), <3>2, <3>3, <3>4, <3>5, <3>7 DEF a
  <2> HIDE DEF o
  <2>3. o.gen \in Generations /\ (o.kind = 3 => o.handle \in Handles /\ o.stream # 0 /\ o.off <= o.len)
    BY <1>1, <1>3, <2>2
  <2>4. TypeOK /\ handle[h] \in Generations
    BY Zenon, <1>3 DEF Inv, TypeOK, Gens
  <2>5. PICK n \in Operation : ProcessedTo(i, o, n)
    BY Zenon, <2>1, <2>2, <2>3, <2>4, ProcessEffect
  <2>6. wire[o.stream][o.gen] = Bytes(o.off)
    <3>1. wire[handle[h]][nextGeneration] = <<>>
      BY <1>1, <2>4 DEF Inv, WritesCounted, Generations
    <3>2. Bytes(0) = <<>>
      BY DEF Bytes
    <3> QED
      BY Zenon, <2>2, <3>1, <3>2
  <2>7. /\ n.used /\ n.gen = nextGeneration /\ n.sock = 0 /\ ~n.done /\ n.kind \in {2, 3}
        /\ op' = [op EXCEPT ![i] = n] /\ UNCHANGED <<handle, open>>
        /\ n.stream = handle[h] /\ n.handle = h
    BY Zenon, <2>2, <2>5 DEF ProcessedTo, Like, SameSocket
  <2>8. /\ spent' \in Nat
        /\ wire' \in [Generations -> [Generations -> Seq(Nat)]]
        /\ \A s, g \in Generations : g # nextGeneration => wire'[s][g] = wire[s][g]
    BY Zenon, <2>2, <2>5 DEF ProcessedTo
  <2>9. n.kind = 3 /\ n.status \in {0, 1} =>
          n.off <= n.len /\ wire'[n.stream][n.gen] = Sent(n)
    BY Zenon, <2>2, <2>5, <2>6, <2>7 DEF ProcessedTo, Like
  <2>10. AllocatedTo(i, n)
    <3>1. n.kind # 1
      BY <2>7
    <3> QED
      BY Zenon, <1>1, <1>3, <2>7, <2>8, <2>9, <3>1 DEF AllocatedTo
  <2> QED
    BY <2>10, AllocateStep
<1> QED
  BY <1>2, <1>3

-----------------------------------------------------------------------------
(* The steps of a connect thread.                                          *)

\* What a slot keeps whatever its thread writes to it.
SameOperation(n, o) ==
    /\ n \in Operation
    /\ n.used = o.used /\ n.kind = o.kind /\ n.gen = o.gen /\ n.status = o.status
    /\ n.joined = o.joined /\ n.handle = o.handle /\ n.stream = o.stream
    /\ n.result = o.result /\ n.len = o.len /\ n.off = o.off

\* The thread of generation g becomes t and its slot n.
ThreadMoves(g, t, n) ==
    LET i == thread[g].slot
    IN  /\ thread[g].pc \in {"connect", "slot"} \cup Writing
        /\ thread' = [thread EXCEPT ![g] = t]
        /\ t.pc \in {"slot", "ended"} \cup Writing
        /\ t.slot = i
        /\ t.sock = thread[g].sock \/ (thread[g].pc = "connect" /\ t.sock \in {0, g})
        /\ thread[g].pc = "done" => t.pc = "ended"
        /\ op' = [op EXCEPT ![i] = n]
        /\ SameOperation(n, op[i])
        /\ \/ n.sock = op[i].sock
           \/ thread[g].pc = "socket" /\ t.pc = "done" /\ n.sock = thread[g].sock
        /\ n.done = op[i].done \/ (thread[g].pc = "done" /\ t.pc = "ended")
        /\ t.pc \in Writing => thread[g].pc \in Writing \/ SlotIsMine(g)
        /\ UNCHANGED <<handle, nextGeneration, spent, wire, torn>>

\* What a thread may have open: nothing changes, or it connects or discards, or
\* it has put its socket into the slot.
ThreadOpens(g, t, n) ==
    \/ thread[g].pc = "connect" /\ t.pc = "slot"
        /\ open' = open \cup ({t.sock} \cap Generations)
    \/ thread[g].pc \in Carriers /\ t.pc = "ended" /\ open' = open \ {thread[g].sock}
    \/ thread[g].pc \in Carriers /\ t.pc \in Carriers /\ UNCHANGED open
    \/ thread[g].pc = "socket" /\ t.pc = "done" /\ n.sock = thread[g].sock /\ UNCHANGED open
    \/ thread[g].pc = "done" /\ t.pc = "ended" /\ n.sock = op[thread[g].slot].sock
        /\ UNCHANGED open

LEMMA ThreadStep ==
    ASSUME Inv, NEW g \in Generations, NEW t \in [pc : Pcs, slot : Slots \cup {0}, sock : Gens],
           NEW n, ThreadMoves(g, t, n), ThreadOpens(g, t, n)
    PROVE  Inv'
<1> DEFINE i == thread[g].slot
           o == op[i]
<1> USE DEF Inv
<1>1. /\ thread[g].pc \in {"connect", "slot"} \cup Writing
      /\ t.pc \in {"slot", "ended"} \cup Writing /\ t.slot = i
      /\ thread[g].pc = "done" => t.pc = "ended"
      /\ SameOperation(n, o) /\ UNCHANGED <<handle, nextGeneration, spent, wire, torn>>
  BY ZenonT(30) DEF ThreadMoves
<1>2. i \in Slots /\ g < nextGeneration /\ thread[g].sock \in {0, g} /\ thread[g].pc # "none"
      /\ thread[g].pc # "ended" /\ g # 0
  BY <1>1 DEF ThreadsNamed, Writing, Generations
<1>3. /\ op'[i] = n /\ \A j \in Slots : j # i => op'[j] = op[j]
      /\ thread'[g] = t /\ \A k \in Generations : k # g => thread'[k] = thread[k]
  BY Zenon, <1>2 DEF ThreadMoves, TypeOK
<1>4. /\ t.sock \in {0, g} /\ (t.sock = thread[g].sock \/ (thread[g].pc = "connect" /\ thread[g].sock = 0))
  BY Zenon, <1>2 DEF ThreadMoves, ThreadsNamed
<1>5. n \in Operation /\ n.sock \in {o.sock, thread[g].sock}
      /\ (n.sock = o.sock \/ (thread[g].pc = "socket" /\ t.pc = "done" /\ n.sock = thread[g].sock))
  BY Zenon DEF ThreadMoves, SameOperation
<1>6. open' \subseteq Generations /\ (\A s : s # g => (s \in open' <=> s \in open))
  <2>1. open \subseteq Generations
    BY DEF TypeOK
  <2>2. 0 \notin Generations
    BY Zenon, NoGenerationZero
  <2>3. \/ open' = open \cup ({t.sock} \cap Generations)
        \/ open' = open \ {thread[g].sock}
        \/ open' = open
    BY DEF ThreadOpens
  <2> QED
    BY ZenonT(30), <1>2, <1>4, <2>1, <2>2, <2>3
<1> HIDE DEF i, o
<1>7. TypeOK'
  <2>1. op' = [op EXCEPT ![i] = n] /\ thread' = [thread EXCEPT ![g] = t]
    BY Zenon DEF ThreadMoves, i
  <2> QED
    BY Zenon, <1>1, <1>2, <1>5, <1>6, <2>1 DEF TypeOK
<1>8. ThreadsNamed'
  <2> SUFFICES ASSUME NEW k \in Generations
               PROVE  /\ thread'[k].pc # "none" => thread'[k].slot \in Slots /\ k < nextGeneration'
                      /\ thread'[k].sock \in {0, k}
                      /\ thread'[k].pc \in {"none", "connect"} => thread'[k].sock = 0
    BY DEF ThreadsNamed
  <2>1. CASE k = g
    BY ZenonT(30), <1>1, <1>2, <1>3, <1>4, <2>1 DEF Writing
  <2>2. CASE k # g
    BY ZenonT(30), <1>1, <1>3, <2>2 DEF ThreadsNamed
  <2> QED
    BY ZenonT(30), <2>1, <2>2
<1>9. \A j \in Slots : /\ op'[j].used = op[j].used /\ op'[j].gen = op[j].gen
                       /\ op'[j].kind = op[j].kind /\ op'[j].status = op[j].status
                       /\ op'[j].stream = op[j].stream /\ op'[j].joined = op[j].joined
                       /\ op'[j].handle = op[j].handle /\ op'[j].result = op[j].result
                       /\ op'[j].len = op[j].len /\ op'[j].off = op[j].off
  BY Zenon, <1>1, <1>3 DEF SameOperation, o
<1>10. SlotsNamed'
  <2>1. ASSUME NEW j \in Slots, op'[j].used
        PROVE  /\ op'[j].gen \in 1..(nextGeneration' - 1)
               /\ thread'[op'[j].gen].pc # "none" =>
                    thread'[op'[j].gen].slot = j /\ op'[j].kind = 1
    <3>1. op[j].used /\ op[j].gen \in 1..(nextGeneration - 1) /\ op[j].gen \in Generations
      BY Zenon, <1>9, <2>1, NamedGeneration DEF SlotsNamed
    <3>2. CASE op[j].gen = g
      <4>1. thread[g].slot = j /\ op[j].kind = 1
        BY Zenon, <1>2, <3>1, <3>2 DEF SlotsNamed
      <4> QED
        BY Zenon, <1>1, <1>3, <1>9, <3>1, <3>2, <4>1 DEF i
    <3>3. CASE op[j].gen # g
      <4>1. thread'[op[j].gen] = thread[op[j].gen] /\ nextGeneration' = nextGeneration
        BY Zenon, <1>1, <1>3, <3>1, <3>3
      <4>2. thread[op[j].gen].pc # "none" => thread[op[j].gen].slot = j /\ op[j].kind = 1
        BY ZenonT(30), <3>1 DEF SlotsNamed
      <4> QED
        BY ZenonT(30), <1>9, <3>1, <4>1, <4>2
    <3> QED
      BY Zenon, <3>2, <3>3
  <2>2. \A j, k \in Slots : op'[j].used /\ op'[k].used /\ op'[j].gen = op'[k].gen => j = k
    <3>1. \A j, k \in Slots : op[j].used /\ op[k].used /\ op[j].gen = op[k].gen => j = k
      BY Zenon DEF SlotsNamed
    <3>2. ASSUME NEW j \in Slots, NEW k \in Slots, op'[j].used, op'[k].used, op'[j].gen = op'[k].gen
          PROVE  j = k
      <4>1. op[j].used /\ op[k].used
        BY Zenon, <1>9, <3>2
      <4>2. op[j].gen = op[k].gen
        BY Zenon, <1>9, <3>2
      <4> QED
        BY Zenon, <3>1, <4>1, <4>2
    <3> QED
      BY Zenon, <3>2
  <2> QED
    BY Zenon, <2>1, <2>2 DEF SlotsNamed
<1>11. ASSUME NEW s \in Generations, HandedOver(s)
       PROVE  HandedOver(s)'
  <2>1. thread'[s].pc \in Passed
    BY Zenon, <1>1, <1>2, <1>3, <1>11 DEF HandedOver, Passed
  <2>2. ASSUME NEW j \in Slots PROVE op'[j].sock # s
    <3>1. CASE j = i /\ n.sock # o.sock
      <4>1. thread[g].pc = "socket" /\ n.sock \in {0, g}
        BY Zenon, <1>2, <1>5, <3>1
      <4>2. s # g
        BY ZenonT(30), <1>11, <4>1 DEF HandedOver, Passed
      <4> QED
        BY Zenon, <1>3, <3>1, <4>1, <4>2, NoGenerationZero
    <3>2. CASE ~(j = i /\ n.sock # o.sock)
      BY ZenonT(30), <1>3, <1>11, <3>2 DEF HandedOver, o
    <3> QED
      BY Zenon, <3>1, <3>2
  <2> QED
    BY Zenon, <2>1, <2>2 DEF HandedOver
<1>12. SocketsPlaced'
  <2>1. ASSUME NEW j \in Slots, op'[j].sock # 0
        PROVE  LET k == op'[j].sock
               IN  thread'[k].pc \in Passed /\ thread'[k].slot = j /\ thread'[k].sock = k
    <3>1. CASE j = i /\ n.sock # o.sock
      <4>1. thread[g].pc = "socket" /\ t.pc = "done" /\ n.sock = g /\ thread[g].sock = g
        BY Zenon, <1>2, <1>3, <1>5, <2>1, <3>1
      <4> QED
        BY Zenon, <1>1, <1>3, <1>4, <3>1, <4>1 DEF Passed
    <3>2. CASE ~(j = i /\ n.sock # o.sock)
      <4>1. op'[j].sock = op[j].sock /\ op[j].sock \in Generations
        BY Zenon, <1>3, <2>1, <3>2, SocketField DEF o
      <4>2. /\ thread[op[j].sock].pc \in Passed /\ thread[op[j].sock].slot = j
            /\ thread[op[j].sock].sock = op[j].sock
        BY Zenon, <2>1, <4>1 DEF SocketsPlaced
      <4>3. CASE op[j].sock = g
        BY ZenonT(30), <1>1, <1>2, <1>3, <1>4, <4>1, <4>2, <4>3 DEF Passed, Writing, i
      <4>4. CASE op[j].sock # g
        BY Zenon, <1>3, <4>1, <4>2, <4>4
      <4> QED
        BY Zenon, <4>3, <4>4
    <3> QED
      BY Zenon, <3>1, <3>2
  <2>2. \A h \in Handles : handle'[h] # 0 => HandedOver(handle[h])'
    <3>1. \A h \in Handles : handle[h] # 0 => handle[h] \in Generations /\ HandedOver(handle[h])
      BY Zenon, SocketHandle DEF SocketsPlaced
    <3>2. \A h \in Handles : handle'[h] = handle[h]
      BY Zenon, <1>1
    <3> QED
      BY ZenonT(30), <1>11, <3>1, <3>2 DEF HandedOver
  <2> QED
    BY Zenon, <1>1, <2>1, <2>2 DEF SocketsPlaced
<1>13. thread[g].pc # "done" =>
         /\ \A h \in Handles : handle[h] # g
         /\ \A j \in Slots : op[j].sock # g
  <2>1. thread[g].pc # "done" => thread[g].pc \notin Passed
    BY Zenon, <1>2 DEF Passed
  <2> QED
    BY Zenon, <1>2, <2>1 DEF SocketsPlaced, HandedOver
<1>14. HoldersOpen'
  <2>0. thread[g].pc = "done" => UNCHANGED open
    BY Zenon DEF ThreadOpens, Carriers
  <2>1. ASSUME NEW h \in Handles, handle'[h] # 0 PROVE handle'[h] \in open'
    <3>1. handle'[h] = handle[h] /\ handle[h] \in open
      BY ZenonT(30), <1>1, <2>1 DEF HoldersOpen
    <3>2. CASE thread[g].pc = "done"
      BY <2>0, <3>1, <3>2
    <3>3. CASE thread[g].pc # "done"
      BY ZenonT(30), <1>6, <1>13, <3>1, <3>3
    <3> QED
      BY <3>2, <3>3
  <2>2. ASSUME NEW j \in Slots, op'[j].used, op'[j].sock # 0 PROVE op'[j].sock \in open'
    <3>1. CASE j = i /\ n.sock # o.sock
      <4>1. thread[g].pc = "socket" /\ t.pc = "done" /\ n.sock = g /\ thread[g].sock = g
        BY ZenonT(30), <1>2, <1>3, <1>5, <2>2, <3>1
      <4>2. g \in open /\ UNCHANGED open
        BY <1>2, <4>1 DEF HoldersOpen, Carriers, ThreadOpens
      <4> QED
        BY ZenonT(30), <1>3, <3>1, <4>1, <4>2
    <3>2. CASE ~(j = i /\ n.sock # o.sock)
      <4>1. op'[j].sock = op[j].sock /\ op[j].sock \in open
        BY ZenonT(30), <1>3, <1>9, <2>2, <3>2 DEF HoldersOpen, o
      <4>2. CASE thread[g].pc = "done"
        BY <2>0, <4>1, <4>2
      <4>3. CASE thread[g].pc # "done"
        BY Zenon, <1>6, <1>13, <4>1, <4>3
      <4> QED
        BY <4>2, <4>3
    <3> QED
      BY ZenonT(30), <3>1, <3>2
  <2>3. ASSUME NEW k \in Generations, thread'[k].pc \in Carriers, thread'[k].sock # 0
        PROVE  k \in open'
    <3>1. CASE k = g
      <4>1. t.pc \in Carriers /\ t.sock = g
        BY Zenon, <1>3, <1>4, <2>3, <3>1
      <4>2. CASE thread[g].pc = "connect"
        BY Zenon, <3>1, <4>1, <4>2 DEF ThreadOpens, Carriers
      <4>3. CASE thread[g].pc # "connect"
        <5>1. thread[g].sock = g
          BY Zenon, <1>4, <4>1, <4>3
        <5>2. thread[g].pc \in Carriers /\ UNCHANGED open
          BY Zenon, <4>1, <4>3 DEF ThreadOpens, Carriers
        <5> QED
          BY Zenon, <1>2, <3>1, <5>1, <5>2 DEF HoldersOpen
      <4> QED
        BY Zenon, <4>2, <4>3
    <3>2. CASE k # g
      BY Zenon, <1>3, <1>6, <2>3, <3>2 DEF HoldersOpen
    <3> QED
      BY Zenon, <3>1, <3>2
  <2> QED
    BY Zenon, <2>1, <2>2, <2>3 DEF HoldersOpen
<1>15. ASSUME torn = {} PROVE OwnSlots'
  <2>0. OwnSlots
    BY <1>15
  <2>1. ASSUME NEW k \in Generations, thread'[k].pc \in Writing PROVE SlotIsMine(k)'
    <3>1. thread'[k].slot = thread[k].slot /\ thread[k].slot \in Slots
      BY Zenon, <1>1, <1>2, <1>3, <1>8, <2>1 DEF ThreadsNamed, Writing, i
    <3>2. SlotIsMine(k)
      <4>1. CASE k = g
        BY Zenon, <1>3, <2>0, <2>1, <4>1 DEF ThreadMoves, OwnSlots
      <4>2. CASE k # g
        BY Zenon, <1>3, <2>0, <2>1, <4>2 DEF OwnSlots
      <4> QED
        BY <4>1, <4>2
    <3> QED
      BY ZenonT(30), <1>9, <3>1, <3>2 DEF SlotIsMine
  <2>2. thread[g].pc \in Writing => o.used /\ o.gen = g /\ o.kind = 1
    <3>1. thread[g].pc \in Writing => o.used /\ o.gen = g
      BY Zenon, <2>0 DEF OwnSlots, SlotIsMine, o, i
    <3> QED
      BY ZenonT(30), <1>2, <3>1 DEF SlotsNamed, o, i
  <2>3. ASSUME NEW j \in Slots, ~op'[j].used PROVE op'[j].sock = 0
    <3>1. op[j].sock = 0
      BY Zenon, <1>9, <2>0, <2>3 DEF OwnSlots
    <3>2. CASE j = i
      <4>1. thread[g].pc \notin Writing
        BY ZenonT(30), <1>9, <2>2, <2>3, <3>2 DEF o
      <4> QED
        BY Zenon, <1>3, <1>5, <3>1, <3>2, <4>1 DEF Writing, o
    <3>3. CASE j # i
      BY ZenonT(30), <1>3, <3>1, <3>3
    <3> QED
      BY <3>2, <3>3
  <2>4. ASSUME NEW j \in Slots, op'[j].used
        PROVE  /\ op'[j].sock \in {0, op'[j].gen}
               /\ op'[j].done => op'[j].kind = 1 /\ thread'[op'[j].gen].pc = "ended"
    <3>0. op[j].used /\ op[j].gen \in Generations
      BY Zenon, <1>9, <2>4, NamedGeneration
    <3>1. op[j].sock \in {0, op[j].gen} /\ (op[j].done => op[j].kind = 1 /\ thread[op[j].gen].pc = "ended")
      BY Zenon, <2>0, <3>0 DEF OwnSlots
    <3>2. CASE j = i
      <4>1. n.sock \in {0, n.gen}
        BY ZenonT(30), <1>2, <1>3, <1>5, <1>9, <2>2, <3>1, <3>2 DEF Writing, o
      <4>2. ASSUME n.done PROVE n.kind = 1 /\ thread'[n.gen].pc = "ended"
        <5>1. n.gen = o.gen /\ n.kind = o.kind /\ o = op[j]
          BY Zenon, <1>1, <3>2 DEF SameOperation, o
        <5>2. CASE o.done
          BY ZenonT(30), <1>2, <1>3, <3>0, <3>1, <5>1, <5>2
        <5>3. CASE ~o.done
          <6>1. thread[g].pc = "done" /\ t.pc = "ended"
            BY Zenon, <4>2, <5>3 DEF ThreadMoves, o, i
          <6> QED
            BY Zenon, <1>3, <2>2, <5>1, <6>1 DEF Writing
        <5> QED
          BY <5>2, <5>3
      <4> QED
        BY Zenon, <1>3, <3>2, <4>1, <4>2
    <3>3. CASE j # i
      <4>1. op'[j] = op[j] /\ (thread[op[j].gen].pc = "ended" => thread'[op[j].gen] = thread[op[j].gen])
        BY ZenonT(30), <1>2, <1>3, <3>0, <3>3
      <4> QED
        BY Zenon, <3>1, <4>1
    <3> QED
      BY <3>2, <3>3
  <2>5. ASSUME NEW j \in Slots, op'[j].used, op'[j].kind = 1
        PROVE  /\ op'[j].status \in {1, -1} => op'[j].joined \/ thread'[op'[j].gen].pc = "none"
               /\ op'[j].status = 1 =>
                    op'[j].stream = op'[j].gen /\ thread'[op'[j].gen].sock = op'[j].gen
    <3>0. op[j].used /\ op[j].gen \in Generations /\ op[j].kind = 1
      BY Zenon, <1>9, <2>5, NamedGeneration
    <3>1. /\ op[j].status \in {1, -1} => op[j].joined \/ thread[op[j].gen].pc = "none"
          /\ op[j].status = 1 => op[j].stream = op[j].gen /\ thread[op[j].gen].sock = op[j].gen
      BY Zenon, <2>0, <3>0 DEF OwnSlots
    <3>2. /\ op'[j].status = op[j].status /\ op'[j].joined = op[j].joined
          /\ op'[j].gen = op[j].gen /\ op'[j].stream = op[j].stream
      BY Zenon, <1>9
    <3>3. CASE op[j].gen = g
      <4>1. op[j].status \in {1, -1} => op[j].joined
        BY Zenon, <1>2, <3>1, <3>3
      <4>2. op[j].status = 1 => op[j].stream = g /\ t.sock = g
        BY Zenon, <1>2, <1>4, <3>1, <3>3
      <4>3. thread'[g] = t
        BY Zenon, <1>3
      <4> QED
        BY Zenon, <3>2, <3>3, <4>1, <4>2, <4>3
    <3>4. CASE op[j].gen # g
      <4>1. thread'[op[j].gen] = thread[op[j].gen]
        BY Zenon, <1>3, <3>0, <3>4
      <4> QED
        BY Zenon, <3>1, <3>2, <4>1
    <3> QED
      BY Zenon, <3>3, <3>4
  <2> QED
    BY Zenon, <2>1, <2>3, <2>4, <2>5 DEF OwnSlots
<1>16. ASSUME torn = {} PROVE NothingLost'
  <2> SUFFICES ASSUME NEW s \in open' PROVE Held(s)'
    BY DEF NothingLost
  <2>0. OwnSlots /\ NothingLost
    BY <1>16
  <2>1. n.sock # o.sock => o.sock = 0 /\ n.sock = g /\ n.used
    <3>1. thread[g].pc = "socket" => o.used /\ o.gen = g /\ o.sock \in {0, g}
      BY Zenon, <1>2, <2>0 DEF OwnSlots, SlotIsMine, Writing, o, i
    <3>2. thread[g].pc = "socket" => o.sock # g
      BY Zenon, <1>2, <1>13 DEF o
    <3> QED
      BY Zenon, <1>1, <1>2, <1>5, <3>1, <3>2 DEF SameOperation
  <2>2. \A j \in Slots : op[j].used /\ op[j].sock = s => op'[j].used /\ op'[j].sock = s
    <3>1. s # 0
      BY Zenon, <1>6, NoGenerationZero
    <3> QED
      BY Zenon, <1>2, <1>3, <1>9, <2>1, <3>1 DEF o
  <2>3. CASE s # g
    <3>1. Held(s) /\ s \in Generations
      BY Zenon, <1>6, <2>0, <2>3 DEF NothingLost, TypeOK
    <3> QED
      BY ZenonT(30), <1>1, <1>3, <2>2, <2>3, <3>1 DEF Held
  <2>4. CASE s = g
    <3>1. CASE thread[g].pc = "connect"
      <4>1. t.pc = "slot" /\ (g \in open \/ t.sock = g)
        BY Zenon, <2>4, <3>1 DEF ThreadOpens, Carriers
      <4>2. g \notin open
        <5>1. ~Held(g)
          BY Zenon, <1>13, <3>1 DEF Held, Carriers
        <5> QED
          BY Zenon, <2>0, <5>1 DEF NothingLost
      <4> QED
        BY ZenonT(30), <1>3, <2>4, <4>1, <4>2 DEF Held, Carriers
    <3>2. CASE thread[g].pc \in Carriers
      <4>1. g \in open
        BY Zenon, <2>4, <3>2 DEF ThreadOpens, Carriers
      <4>2. Held(g)
        BY Zenon, <2>0, <4>1 DEF NothingLost
      <4>3. thread[g].sock = g /\ t.sock = g
        BY ZenonT(30), <1>2, <1>4, <1>13, <3>2, <4>2 DEF Held, Carriers
      <4>4. t.pc \in Carriers \/ (t.pc = "done" /\ n.sock = g /\ thread[g].pc = "socket")
        BY Zenon, <2>4, <3>2, <4>3 DEF ThreadOpens, Carriers
      <4>5. CASE t.pc \in Carriers
        BY ZenonT(30), <1>3, <2>4, <4>3, <4>5 DEF Held
      <4>6. CASE t.pc = "done" /\ n.sock = g /\ thread[g].pc = "socket"
        <5>1. n.used
          BY Zenon, <1>2, <1>13, <2>1, <4>6 DEF o
        <5> QED
          BY ZenonT(30), <1>2, <1>3, <2>4, <4>6, <5>1 DEF Held
      <4> QED
        BY Zenon, <4>4, <4>5, <4>6
    <3>3. CASE thread[g].pc = "done"
      <4>1. g \in open
        BY Zenon, <2>4, <3>3 DEF ThreadOpens, Carriers
      <4>2. Held(g)
        BY <2>0, <4>1 DEF NothingLost
      <4> QED
        BY Zenon, <1>1, <2>2, <2>4, <3>3, <4>2 DEF Held, Carriers
    <3> QED
      BY Zenon, <1>1, <3>1, <3>2, <3>3 DEF Writing, Carriers
  <2> QED
    BY <2>3, <2>4
<1>17. WritesCounted'
  <2>1. ASSUME NEW j \in Slots, op'[j].used, op'[j].kind \in {2, 3}, op'[j].stream # 0
        PROVE  HandedOver(op[j].stream)'
    <3>1. HandedOver(op[j].stream) /\ op[j].stream \in Generations /\ op'[j].stream = op[j].stream
      BY ZenonT(30), <1>9, <2>1 DEF WritesCounted, TypeOK, Operation, Gens
    <3> QED
      BY <1>11, <3>1 DEF HandedOver
  <2>2. ASSUME NEW j \in Slots, op'[j].used, op'[j].kind = 3, op'[j].status \in {0, 1}
        PROVE  WriteCounted(op[j])'
    <3>1. WriteCounted(op[j])
      BY Zenon, <1>9, <2>2 DEF WritesCounted
    <3> QED
      BY Zenon, <1>1, <1>9, <3>1 DEF WriteCounted, Sent
  <2> QED
    BY ZenonT(30), <1>1, <2>1, <2>2 DEF WritesCounted
<1> QED
  BY Zenon, <1>1, <1>7, <1>8, <1>10, <1>12, <1>14, <1>15, <1>16, <1>17

\* What Goto and a write to the slot make of the records.
LEMMA GotoFields ==
    ASSUME TypeOK, NEW g \in Generations, NEW pc \in Pcs
    PROVE  LET t == [thread[g] EXCEPT !.pc = pc]
           IN  /\ t \in [pc : Pcs, slot : Slots \cup {0}, sock : Gens]
               /\ t.pc = pc /\ t.slot = thread[g].slot /\ t.sock = thread[g].sock
               /\ Goto(g, pc) => thread' = [thread EXCEPT ![g] = t]
<1>1. thread[g] \in [pc : Pcs, slot : Slots \cup {0}, sock : Gens]
  BY DEF TypeOK
<1> QED
  BY Zenon, <1>1 DEF TypeOK, Goto

LEMMA OkWritten ==
    ASSUME NEW o \in Operation, NEW b \in BOOLEAN
    PROVE  /\ SameOperation([o EXCEPT !.ok = b], o)
           /\ [o EXCEPT !.ok = b].sock = o.sock /\ [o EXCEPT !.ok = b].done = o.done
  BY DEF SameOperation, Operation

LEMMA DoneWritten ==
    ASSUME NEW o \in Operation
    PROVE  /\ SameOperation([o EXCEPT !.done = TRUE], o)
           /\ [o EXCEPT !.done = TRUE].sock = o.sock
  BY Zenon DEF SameOperation, Operation

LEMMA SocketWritten ==
    ASSUME NEW o \in Operation, NEW s \in Gens
    PROVE  /\ SameOperation([o EXCEPT !.sock = s], o)
           /\ [o EXCEPT !.sock = s].done = o.done /\ [o EXCEPT !.sock = s].sock = s
  BY DEF SameOperation, Operation

\* The slot of a running thread.
LEMMA ThreadSlot ==
    ASSUME Inv, NEW g \in Generations, thread[g].pc # "none"
    PROVE  thread[g].slot \in Slots /\ op[thread[g].slot] \in Operation /\ thread[g].sock \in {0, g}
           /\ SameOperation(op[thread[g].slot], op[thread[g].slot])
           /\ (UNCHANGED op => op' = [op EXCEPT ![thread[g].slot] = op[thread[g].slot]])
<1>1. thread[g].slot \in Slots /\ thread[g].sock \in {0, g}
  BY Zenon DEF Inv, ThreadsNamed
<1>2. op[thread[g].slot] \in Operation
  BY Zenon, <1>1 DEF Inv, TypeOK
<1> QED
  BY Zenon, <1>1, <1>2 DEF Inv, TypeOK, SameOperation

LEMMA ConnectStep ==
    ASSUME Inv, NEW g \in Generations, NEW ok \in BOOLEAN, Connect(g, ok)
    PROVE  Inv'
<1> DEFINE sock == IF ok THEN g ELSE 0
           t == [thread[g] EXCEPT !.pc = "slot", !.sock = sock]
           n == op[thread[g].slot]
<1>1. sock \in Gens /\ sock \in {0, g}
  BY DEF Gens
<1>2. /\ thread[g].pc = "connect" /\ open' = IF ok THEN open \cup {g} ELSE open
      /\ UNCHANGED <<op, handle, nextGeneration, spent, wire, torn>>
      /\ thread' = [thread EXCEPT ![g].pc = "slot", ![g].sock = sock]
  BY DEF Connect
<1>3. open' = open \cup ({sock} \cap Generations)
  BY <1>2 DEF Generations
<1> HIDE DEF sock
<1>4. /\ t \in [pc : Pcs, slot : Slots \cup {0}, sock : Gens]
      /\ t.pc = "slot" /\ t.slot = thread[g].slot /\ t.sock = sock
      /\ thread' = [thread EXCEPT ![g] = t]
  <2>1. thread[g] \in [pc : Pcs, slot : Slots \cup {0}, sock : Gens]
    BY Zenon DEF Inv, TypeOK
  <2> QED
    BY Zenon, <1>1, <1>2, <2>1 DEF Inv, TypeOK, Pcs
<1>5. SameOperation(n, n) /\ op' = [op EXCEPT ![thread[g].slot] = n]
  BY Zenon, <1>2, ThreadSlot
<1> HIDE DEF t
<1>6. ThreadMoves(g, t, n)
  BY Zenon, <1>1, <1>2, <1>4, <1>5 DEF ThreadMoves, Writing
<1>7. ThreadOpens(g, t, n)
  BY Zenon, <1>2, <1>3, <1>4 DEF ThreadOpens
<1> QED
  BY Zenon, <1>4, <1>6, <1>7, ThreadStep

\* The two tests of the thread, which discard its result or let it go on.
LEMMA TestStep ==
    ASSUME Inv, NEW g \in Generations, NEW pc \in {"canceled", "status", "ended"},
           thread[g].pc \in {"slot", "canceled"}, Goto(g, pc),
           open' = IF pc = "ended" THEN open \ {thread[g].sock} ELSE open,
           pc = "canceled" => SlotIsMine(g),
           pc = "status" => thread[g].pc = "canceled",
           UNCHANGED <<op, handle, nextGeneration, spent, wire, torn>>
    PROVE  Inv'
<1> DEFINE t == [thread[g] EXCEPT !.pc = pc]
           n == op[thread[g].slot]
<1>0. pc \in Pcs /\ TypeOK
  BY Zenon DEF Pcs, Writing, Passed, Inv
<1>1. /\ t \in [pc : Pcs, slot : Slots \cup {0}, sock : Gens]
      /\ t.pc = pc /\ t.slot = thread[g].slot /\ t.sock = thread[g].sock
      /\ thread' = [thread EXCEPT ![g] = t]
  BY Zenon, <1>0, GotoFields
<1>2. SameOperation(n, n) /\ op' = [op EXCEPT ![thread[g].slot] = n]
  BY ThreadSlot
<1> HIDE DEF t
<1>3. ThreadMoves(g, t, n)
  BY Zenon, <1>1, <1>2 DEF ThreadMoves, Writing
<1>4. ThreadOpens(g, t, n)
  BY Zenon, <1>1 DEF ThreadOpens, Carriers
<1> QED
  BY Zenon, <1>1, <1>3, <1>4, ThreadStep

LEMMA TestSlotStep ==
    ASSUME Inv, NEW g \in Generations, TestSlot(g)
    PROVE  Inv'
<1>1. CASE SlotIsMine(g)
  <2>1. thread[g].pc = "slot" /\ Goto(g, "canceled") /\ UNCHANGED open
        /\ UNCHANGED <<op, handle, nextGeneration, spent, wire, torn>>
    BY <1>1 DEF TestSlot
  <2> QED
    BY Zenon, <1>1, <2>1, TestStep
<1>2. CASE ~SlotIsMine(g)
  <2>1. thread[g].pc = "slot" /\ Goto(g, "ended") /\ open' = open \ {thread[g].sock}
        /\ UNCHANGED <<op, handle, nextGeneration, spent, wire, torn>>
    BY Zenon, <1>2 DEF TestSlot, Discard
  <2> QED
    BY Zenon, <1>2, <2>1, TestStep
<1> QED
  BY <1>1, <1>2

LEMMA TestCanceledStep ==
    ASSUME Inv, NEW g \in Generations, TestCanceled(g)
    PROVE  Inv'
<1>1. CASE op[thread[g].slot].canceled
  <2>1. thread[g].pc = "canceled" /\ Goto(g, "ended") /\ open' = open \ {thread[g].sock}
        /\ UNCHANGED <<op, handle, nextGeneration, spent, wire, torn>>
    BY Zenon, <1>1 DEF TestCanceled, Discard
  <2> QED
    BY Zenon, <2>1, TestStep
<1>2. CASE ~op[thread[g].slot].canceled
  <2>1. thread[g].pc = "canceled" /\ Goto(g, "status") /\ UNCHANGED open
        /\ UNCHANGED <<op, handle, nextGeneration, spent, wire, torn>>
    BY Zenon, <1>2 DEF TestCanceled
  <2> QED
    BY Zenon, <2>1, TestStep
<1> QED
  BY Zenon, <1>1, <1>2

LEMMA WriteStatusStep ==
    ASSUME Inv, NEW g \in Generations, WriteStatus(g)
    PROVE  Inv'
<1> DEFINE i == thread[g].slot
           ok == thread[g].sock # 0
           t == [thread[g] EXCEPT !.pc = "socket"]
           n == [op[i] EXCEPT !.ok = ok]
<1>1. /\ thread[g].pc = "status" /\ op' = [op EXCEPT ![i].ok = ok] /\ Goto(g, "socket")
      /\ UNCHANGED <<handle, nextGeneration, spent, open, wire, torn>>
  BY Zenon DEF WriteStatus
<1>2. "socket" \in Pcs /\ TypeOK /\ ok \in BOOLEAN
  BY DEF Pcs, Writing, Inv
<1>3. /\ t \in [pc : Pcs, slot : Slots \cup {0}, sock : Gens]
      /\ t.pc = "socket" /\ t.slot = thread[g].slot /\ t.sock = thread[g].sock
      /\ thread' = [thread EXCEPT ![g] = t]
  BY Zenon, <1>1, <1>2, GotoFields
<1>4. i \in Slots /\ op[i] \in Operation
  BY Zenon, <1>1, ThreadSlot
<1>5. op' = [op EXCEPT ![i] = n]
  BY <1>1
<1> HIDE DEF t, ok
<1>6. SameOperation(n, op[i]) /\ n.sock = op[i].sock /\ n.done = op[i].done
  BY Zenon, <1>2, <1>4, OkWritten
<1> HIDE DEF n
<1>7. ThreadMoves(g, t, n)
  BY Zenon, <1>1, <1>3, <1>5, <1>6 DEF ThreadMoves, Writing
<1>8. ThreadOpens(g, t, n)
  BY ZenonT(30), <1>1, <1>3 DEF ThreadOpens, Carriers
<1> QED
  BY ZenonT(30), <1>3, <1>7, <1>8, ThreadStep

LEMMA WriteSocketStep ==
    ASSUME Inv, NEW g \in Generations, WriteSocket(g)
    PROVE  Inv'
<1> DEFINE i == thread[g].slot
           t == [thread[g] EXCEPT !.pc = "done"]
           n == [op[i] EXCEPT !.sock = thread[g].sock]
<1>1. /\ thread[g].pc = "socket" /\ op' = [op EXCEPT ![i].sock = thread[g].sock]
      /\ Goto(g, "done") /\ UNCHANGED <<handle, nextGeneration, spent, open, wire, torn>>
  BY DEF WriteSocket
<1>2. "done" \in Pcs /\ TypeOK
  BY DEF Pcs, Writing, Inv
<1>3. /\ t \in [pc : Pcs, slot : Slots \cup {0}, sock : Gens]
      /\ t.pc = "done" /\ t.slot = thread[g].slot /\ t.sock = thread[g].sock
      /\ thread' = [thread EXCEPT ![g] = t]
  BY <1>1, <1>2, GotoFields
<1>4. i \in Slots /\ op[i] \in Operation /\ thread[g].sock \in Gens
  BY Zenon, <1>1, ThreadSlot DEF Gens
<1>5. op' = [op EXCEPT ![i] = n]
  BY <1>1
<1> HIDE DEF t
<1>6. SameOperation(n, op[i]) /\ n.sock = thread[g].sock /\ n.done = op[i].done
  BY Zenon, <1>4, SocketWritten
<1> HIDE DEF n
<1>7. ThreadMoves(g, t, n)
  BY Zenon, <1>1, <1>3, <1>5, <1>6 DEF ThreadMoves, Writing
<1>8. ThreadOpens(g, t, n)
  BY ZenonT(30), <1>1, <1>3, <1>6 DEF ThreadOpens
<1> QED
  BY ZenonT(30), <1>3, <1>7, <1>8, ThreadStep

LEMMA WriteDoneStep ==
    ASSUME Inv, NEW g \in Generations, WriteDone(g)
    PROVE  Inv'
<1> DEFINE i == thread[g].slot
           t == [thread[g] EXCEPT !.pc = "ended"]
           n == [op[i] EXCEPT !.done = TRUE]
<1>1. /\ thread[g].pc = "done" /\ op' = [op EXCEPT ![i].done = TRUE]
      /\ Goto(g, "ended") /\ UNCHANGED <<handle, nextGeneration, spent, open, wire, torn>>
  BY DEF WriteDone
<1>2. "ended" \in Pcs /\ TypeOK
  BY DEF Pcs, Passed, Inv
<1>3. /\ t \in [pc : Pcs, slot : Slots \cup {0}, sock : Gens]
      /\ t.pc = "ended" /\ t.slot = thread[g].slot /\ t.sock = thread[g].sock
      /\ thread' = [thread EXCEPT ![g] = t]
  BY <1>1, <1>2, GotoFields
<1>4. i \in Slots /\ op[i] \in Operation
  BY Zenon, <1>1, ThreadSlot
<1>5. op' = [op EXCEPT ![i] = n]
  BY <1>1
<1> HIDE DEF t
<1>6. SameOperation(n, op[i]) /\ n.sock = op[i].sock
  BY Zenon, <1>4, DoneWritten
<1> HIDE DEF n
<1>7. ThreadMoves(g, t, n)
  BY Zenon, <1>1, <1>3, <1>5, <1>6 DEF ThreadMoves, Writing
<1>8. ThreadOpens(g, t, n)
  BY <1>1, <1>3, <1>6 DEF ThreadOpens
<1> QED
  BY ZenonT(30), <1>3, <1>7, <1>8, ThreadStep

-----------------------------------------------------------------------------
(* The induction, and the theorems.                                        *)

LEMMA InitInv ==
    Init => Inv
<1> SUFFICES ASSUME Init PROVE Inv
  BY ZenonT(30)
<1>1. NoOperation \in Operation /\ ~NoOperation.used /\ NoOperation.sock = 0
  BY DEF NoOperation, Operation, Gens
<1>2. \A i \in Slots : op[i] = NoOperation
  BY DEF Init
<1>3. \A g \in Generations : thread[g].pc = "none" /\ thread[g].slot = 0 /\ thread[g].sock = 0
  BY ZenonT(30) DEF Init
<1>4. TypeOK
  <2>1. thread \in [Generations -> [pc : Pcs, slot : Slots \cup {0}, sock : Gens]]
    BY DEF Init, Pcs, Gens
  <2>2. wire \in [Generations -> [Generations -> Seq(Nat)]]
    BY DEF Init
  <2>3. MaxStarts \in Nat /\ nextGeneration \in 1..(MaxStarts + 1)
    BY DEF Init
  <2> QED
    BY ZenonT(30), <1>1, <2>1, <2>2, <2>3 DEF Init, TypeOK, Gens
<1>5. ThreadsNamed /\ SlotsNamed
  BY ZenonT(30), <1>1, <1>2, <1>3 DEF ThreadsNamed, SlotsNamed
<1>6. SocketsPlaced /\ HoldersOpen
  BY ZenonT(30), <1>1, <1>2, <1>3 DEF Init, SocketsPlaced, HoldersOpen
<1>7. OwnSlots /\ NothingLost
  BY <1>1, <1>2, <1>3 DEF Init, OwnSlots, Writing, NothingLost
<1>8. WritesCounted
  BY Zenon, <1>1, <1>2 DEF Init, WritesCounted
<1> QED
  BY ZenonT(30), <1>4, <1>5, <1>6, <1>7, <1>8 DEF Inv

LEMMA InductiveStep ==
    Inv /\ [Next]_vars => Inv'
<1> SUFFICES ASSUME Inv, [Next]_vars PROVE Inv'
  BY Zenon
<1>1. CASE Program
  <2>1. ASSUME NEW i \in Slots, NEW how \in {"refused", "failed", "started"}, ConnectStart(i, how)
        PROVE  Inv'
    BY Zenon, <2>1, ConnectStartStep
  <2>2. ASSUME NEW i \in Slots, NEW h \in Handles, NEW io \in Outcomes, ReadStart(i, h, io)
        PROVE  Inv'
    BY Zenon, <2>2, StreamStartStep DEF ReadStart
  <2>3. ASSUME NEW i \in Slots, NEW h \in Handles, NEW len \in 0..MaxLen, NEW io \in Outcomes,
               WriteStart(i, h, len, io)
        PROVE  Inv'
    BY <2>3, StreamStartStep DEF WriteStart
  <2>4. ASSUME NEW i \in Slots, NEW io \in Outcomes, NEW blocking \in BOOLEAN,
               Poll(i, io, blocking)
        PROVE  Inv'
    BY Zenon, <2>4, PollStep
  <2>5. ASSUME NEW i \in Slots, NEW blocking \in BOOLEAN, Touch(i, blocking)
        PROVE  Inv'
    <3>1. Idle \in Outcomes
      BY Zenon DEF Outcomes
    <3> QED
      BY Zenon, <2>5, <3>1, PollStep
  <2> QED
    BY ZenonT(30), <1>1, <2>1, <2>2, <2>3, <2>4, <2>5, CancelStep, CloseStep, ResetStep DEF Program
<1>2. ASSUME NEW g \in Generations, Thread(g) PROVE Inv'
  BY ZenonT(30), <1>2, ConnectStep, TestSlotStep, TestCanceledStep, WriteStatusStep, WriteSocketStep,
     WriteDoneStep DEF Thread
<1>3. CASE UNCHANGED vars
  BY <1>3, StutterStep
<1> QED
  BY Zenon, <1>1, <1>2, <1>3 DEF Next

LEMMA Invariance ==
    Spec => []Inv
  BY InitInv, InductiveStep, PTL DEF Spec

\* A socket with an owner has just one.
LEMMA OneOwner ==
    ASSUME Inv, NEW s \in Generations
    PROVE  Cardinality(Owners(s)) <= 1
<1>0. SocketsPlaced /\ ThreadsNamed
  BY Zenon DEF Inv
<1>1. s # 0
  BY ZenonT(30), NoGenerationZero
<1>2. ASSUME NEW x \in Owners(s), NEW y \in Owners(s) PROVE x = y
  <2>1. \A z \in Owners(s) :
          \/ \E h \in Handles : z = <<"handle", h>> /\ handle[h] = s
          \/ \E i \in Slots : z = <<"slot", i>> /\ op[i].used /\ op[i].sock = s
          \/ z = <<"thread", s>> /\ thread[s].pc \in Carriers
    <3> TAKE z \in Owners(s)
    <3>1. \/ z \in {"handle"} \X {h \in Handles : handle[h] = s}
          \/ z \in {"slot"} \X {i \in Slots : op[i].used /\ op[i].sock = s}
          \/ z \in {"thread"} \X {g \in Generations : thread[g].pc \in Carriers /\ thread[g].sock = s}
      BY Zenon DEF Owners
    <3>2. \A g \in Generations : thread[g].sock = s => g = s
      BY Zenon, <1>0, <1>1 DEF ThreadsNamed
    <3>3. CASE z \in {"handle"} \X {h \in Handles : handle[h] = s}
      BY <3>3
    <3>4. CASE z \in {"slot"} \X {i \in Slots : op[i].used /\ op[i].sock = s}
      BY <3>4
    <3>5. CASE z \in {"thread"} \X {g \in Generations : thread[g].pc \in Carriers
                                                     /\ thread[g].sock = s}
      BY <3>2, <3>5
    <3> QED
      BY ZenonT(30), <3>1, <3>3, <3>4, <3>5
  <2>2. thread[s].pc \in Carriers =>
          /\ \A h \in Handles : handle[h] # s
          /\ \A i \in Slots : op[i].sock # s
    <3>1. thread[s].pc \in Carriers => thread[s].pc \notin Passed
      BY ZenonT(30) DEF Carriers, Passed
    <3> QED
      BY ZenonT(30), <1>0, <1>1, <3>1 DEF SocketsPlaced, HandedOver
  <2>3. \A h \in Handles : handle[h] = s => \A i \in Slots : op[i].sock # s
    <3> SUFFICES ASSUME NEW h \in Handles, handle[h] = s PROVE \A i \in Slots : op[i].sock # s
      BY Zenon
    <3>1. HandedOver(s)
      BY Zenon, <1>0, <1>1 DEF SocketsPlaced
    <3> QED
      BY Zenon, <3>1 DEF HandedOver
  <2>4. \A h, k \in Handles : handle[h] = s /\ handle[k] = s => h = k
    BY ZenonT(30), <1>0, <1>1 DEF SocketsPlaced
  <2>5. \A i, j \in Slots : op[i].sock = s /\ op[j].sock = s => i = j
    BY <1>0, <1>1 DEF SocketsPlaced
  <2> QED
    BY <2>1, <2>2, <2>3, <2>4, <2>5
<1>3. CASE Owners(s) = {}
  BY <1>3, FS_EmptySet
<1>4. CASE Owners(s) # {}
  <2>1. PICK x : x \in Owners(s)
    BY Zenon, <1>4
  <2>2. Owners(s) = {x}
    BY Zenon, <1>2, <2>1
  <2> QED
    <3>1. Cardinality({x}) = 1
      BY Zenon, FS_Singleton
    <3> QED
      BY <2>2, <3>1
<1> QED
  BY Zenon, <1>3, <1>4

LEMMA InvSockets ==
    Inv => SocketsOwnedOnce
<1> SUFFICES ASSUME Inv, NEW s \in Generations
             PROVE  /\ Cardinality(Owners(s)) <= 1
                    /\ Owners(s) # {} => s \in open
                    /\ torn = {} /\ s \in open => Owners(s) # {}
  BY DEF SocketsOwnedOnce
<1> USE DEF Inv
<1>1. s # 0
  BY ZenonT(30), NoGenerationZero
<1>2. ASSUME Owners(s) # {} PROVE s \in open
  <2>1. \/ \E h \in Handles : handle[h] = s
        \/ \E i \in Slots : op[i].used /\ op[i].sock = s
        \/ \E g \in Generations : thread[g].pc \in Carriers /\ thread[g].sock = s
    BY <1>2, Zenon DEF Owners
  <2> QED
    BY <1>1, <2>1 DEF HoldersOpen, ThreadsNamed
<1>3. ASSUME torn = {}, s \in open PROVE Owners(s) # {}
  <2>1. Held(s)
    BY Zenon, <1>3 DEF NothingLost
  <2>2. ASSUME NEW h \in Handles, handle[h] = s PROVE <<"handle", h>> \in Owners(s)
    BY Zenon, <2>2 DEF Owners
  <2>3. ASSUME NEW i \in Slots, op[i].used, op[i].sock = s PROVE <<"slot", i>> \in Owners(s)
    BY ZenonT(30), <2>3 DEF Owners
  <2>4. ASSUME thread[s].pc \in Carriers, thread[s].sock = s PROVE <<"thread", s>> \in Owners(s)
    BY <2>4 DEF Owners
  <2> QED
    BY Zenon, <2>1, <2>2, <2>3, <2>4 DEF Held
<1> QED
  BY ZenonT(30), <1>2, <1>3, OneOwner

\* No socket has two owners, whatever an owner holds is open, and unless a
\* reset overtook a connect thread every open socket has an owner: however
\* connects, polls, cancels, closes and resets interleave with the threads.
THEOREM SocketsAlwaysOwnedOnce == Spec => []SocketsOwnedOnce
  BY Invariance, InvSockets, PTL

\* A successful connect holds the socket that its own thread connected, for any
\* number of slots, threads and reuses of a slot.
THEOREM OwnConnectionDelivered == Spec => []DeliversOwnConnection
<1>1. Inv => DeliversOwnConnection
  BY DEF Inv, OwnSlots, DeliversOwnConnection
<1> QED
  BY <1>1, Invariance, PTL

\* A write that reports n bytes put its first n bytes on the stream, in order,
\* however often it was polled and however the network split it.
THEOREM WritesAlwaysWhole == Spec => []WritesAreWhole
<1>1. Inv => WritesAreWhole
  <2> SUFFICES ASSUME Inv, NEW i \in Slots, op[i].used, op[i].kind = 3, op[i].status = 1,
                      op[i].handle \in Handles => handle[op[i].handle] = op[i].stream
               PROVE  wire[op[i].stream][op[i].gen] = [k \in 1..op[i].result |-> k]
    BY Zenon DEF WritesAreWhole
  <2>1. WriteCounted(op[i])
    BY Zenon DEF Inv, WritesCounted
  <2> QED
    BY <2>1 DEF WriteCounted, Sent, Bytes
<1> QED
  BY <1>1, Invariance, PTL

\* A step that keeps the outcome of every operation that has one.
Settled(i) ==
    op[i].used /\ op[i].status # 0 /\ op'[i].gen = op[i].gen
        => op'[i].status = op[i].status /\ op'[i].result = op[i].result

LEMMA FinalAt ==
    ASSUME TypeOK, NEW i \in Slots, NEW j \in Slots, NEW n, op' = [op EXCEPT ![j] = n],
           ~op[j].used \/ op[j].status = 0 \/ (n.status = op[j].status /\ n.result = op[j].result)
    PROVE  Settled(i)
<1>1. op'[i] = IF j = i THEN n ELSE op[i]
  BY Zenon DEF TypeOK
<1> QED
  BY Zenon, <1>1 DEF Settled

\* maybe_finalize_worker leaves a settled operation settled: what it may still
\* do is close the socket of a cancelled connect.
LEMMA FinalizeFinal ==
    ASSUME Inv, torn = {}, NEW i \in Slots, NEW j \in Slots, NEW blocking \in BOOLEAN, op[j].used,
           MustFinalize(op[j]), Finalize(j, op[j], blocking)
    PROVE  Settled(i)
<1>1. op[j] \in Operation /\ op[j].done /\ ~op[j].joined /\ op[j].kind = 1
  BY Zenon DEF Inv, TypeOK, MustFinalize
<1>2. op[j].status \notin {1, -1}
  BY Zenon, <1>1 DEF Inv, OwnSlots
<1>3. op[j].status \in {0, -2}
  BY Zenon, <1>1, <1>2 DEF Operation
<1>4. CASE op[j].status = 0
  <2>1. \E n : op' = [op EXCEPT ![j] = n]
    BY Zenon DEF Finalize
  <2> QED
    BY Zenon, <1>4, <2>1, FinalAt DEF Inv
<1>5. CASE op[j].status = -2
  <2> DEFINE n == WorkerSocketClosed([op[j] EXCEPT !.joined = TRUE])
  <2>1. Dropped(op[j])
    BY <1>5 DEF Dropped
  <2>2. op' = [op EXCEPT ![j] = n]
    BY <2>1, Zenon DEF Finalize
  <2>3. n.status = op[j].status /\ n.result = op[j].result
    BY <1>1 DEF WorkerSocketClosed, Operation
  <2> HIDE DEF n
  <2> QED
    BY ZenonT(30), <2>2, <2>3, FinalAt DEF Inv
<1> QED
  BY Zenon, <1>3, <1>4, <1>5

LEMMA ProcessFinal ==
    ASSUME Inv, NEW i \in Slots, NEW j \in Slots, NEW o, NEW io,
           ~op[j].used \/ op[j].status = 0, Process(j, o, io)
    PROVE  Settled(i)
<1>1. \E n : op' = [op EXCEPT ![j] = n]
  BY Zenon DEF Process
<1> QED
  BY Zenon, <1>1, FinalAt DEF Inv

LEMMA ProgramFinal ==
    ASSUME Inv, torn = {}, Program, NEW i \in Slots
    PROVE  Settled(i)
<1>1. ASSUME NEW j \in Slots, NEW how, ConnectStart(j, how)
      PROVE  Settled(i)
  <2>1. \E n : op' = [op EXCEPT ![j] = n]
    BY <1>1, Zenon DEF ConnectStart
  <2>2. ~op[j].used
    BY Zenon, <1>1, AllocatesFree DEF ConnectStart
  <2> QED
    BY Zenon, <2>1, <2>2, FinalAt DEF Inv
<1>2. ASSUME NEW j \in Slots, NEW kind, NEW h, NEW len, NEW io, StreamStart(j, kind, h, len, io)
      PROVE  Settled(i)
  <2>1. ~op[j].used
    BY <1>2, AllocatesFree DEF StreamStart
  <2>2. \/ \E n : op' = [op EXCEPT ![j] = n]
        \/ \E o : Process(j, o, io)
    BY <1>2, Zenon DEF StreamStart
  <2> QED
    BY Zenon, <2>1, <2>2, FinalAt, ProcessFinal DEF Inv
<1>3. ASSUME NEW j \in Slots, NEW io, NEW blocking \in BOOLEAN, Poll(j, io, blocking)
      PROVE  Settled(i)
  <2>1. op[j].status = 0
    BY <1>3 DEF Poll
  <2>2. \/ \E n : op' = [op EXCEPT ![j] = n]
        \/ Process(j, op[j], io)
    BY <1>3, ZenonT(30) DEF Poll, Finalize
  <2> QED
    BY ZenonT(30), <2>1, <2>2, FinalAt, ProcessFinal DEF Inv
<1>4. ASSUME NEW j \in Slots, NEW blocking \in BOOLEAN, Touch(j, blocking)
      PROVE  Settled(i)
  BY <1>4, FinalizeFinal DEF Touch
<1>5. ASSUME NEW j \in Slots, Cancel(j)
      PROVE  Settled(i)
  <2>1. op[j].status = 0
    BY <1>5 DEF Cancel
  <2>2. \E n : op' = [op EXCEPT ![j] = n]
    BY <1>5, Zenon DEF Cancel
  <2> QED
    BY Zenon, <2>1, <2>2, FinalAt DEF Inv
<1>6. ASSUME NEW h \in Handles, Close(h)
      PROVE  Settled(i)
  BY Zenon, <1>6 DEF Close, Settled
<1>7. CASE Reset
  <2>1. op'[i].gen = 0
    BY Zenon, <1>7 DEF Reset, NoOperation
  <2>2. op[i].used => op[i].gen # 0
    BY DEF Inv, SlotsNamed
  <2> QED
    BY <2>1, <2>2 DEF Settled
<1> QED
  BY ZenonT(30), <1>1, <1>2, <1>3, <1>4, <1>5, <1>6, <1>7 DEF Program, ReadStart, WriteStart

LEMMA ThreadFinal ==
    ASSUME Inv, NEW g \in Generations, Thread(g), NEW i \in Slots
    PROVE  Settled(i)
<1>1. CASE UNCHANGED op
  BY <1>1 DEF Settled
<1>2. CASE WriteStatus(g) \/ WriteSocket(g) \/ WriteDone(g)
  <2> DEFINE j == thread[g].slot
  <2>1. j \in Slots /\ op[j] \in Operation
    BY Zenon, <1>2, ThreadSlot DEF WriteStatus, WriteSocket, WriteDone
  <2>2. \/ op' = [op EXCEPT ![j] = [op[j] EXCEPT !.ok = (thread[g].sock # 0)]]
        \/ op' = [op EXCEPT ![j] = [op[j] EXCEPT !.sock = thread[g].sock]]
        \/ op' = [op EXCEPT ![j] = [op[j] EXCEPT !.done = TRUE]]
    BY <1>2 DEF WriteStatus, WriteSocket, WriteDone
  <2>3. ASSUME NEW n, op' = [op EXCEPT ![j] = n], n.status = op[j].status, n.result = op[j].result
        PROVE  Settled(i)
    BY Zenon, <2>1, <2>3, FinalAt DEF Inv
  <2> DEFINE ok == thread[g].sock # 0
             a == [op[j] EXCEPT !.ok = ok]
             c == [op[j] EXCEPT !.sock = thread[g].sock]
             d == [op[j] EXCEPT !.done = TRUE]
  <2>4. op' = [op EXCEPT ![j] = a] \/ op' = [op EXCEPT ![j] = c] \/ op' = [op EXCEPT ![j] = d]
    BY <2>2
  <2> HIDE DEF ok
  <2>5. a.status = op[j].status /\ a.result = op[j].result
    BY <2>1 DEF Operation
  <2>6. c.status = op[j].status /\ c.result = op[j].result
    BY <2>1 DEF Operation
  <2>7. d.status = op[j].status /\ d.result = op[j].result
    BY <2>1 DEF Operation
  <2> HIDE DEF a, c, d
  <2> QED
    BY Zenon, <2>3, <2>4, <2>5, <2>6, <2>7
<1> QED
  BY Zenon, <1>1, <1>2 DEF Thread, Connect, TestSlot, TestCanceled

\* Once an operation succeeded, failed or was cancelled, no step of a thread and
\* no call of the program changes its status or its result.
THEOREM OutcomesAreFinal == Spec => OutcomeFinal
<1>1. Inv /\ [Next]_vars =>
        [torn = {} =>
            \A i \in Slots : op[i].used /\ op[i].status # 0 /\ op'[i].gen = op[i].gen
                => op'[i].status = op[i].status /\ op'[i].result = op[i].result]_vars
  <2> SUFFICES ASSUME Inv, Next, torn = {}, NEW i \in Slots
               PROVE  Settled(i)
    BY DEF Settled
  <2> QED
    BY Zenon, ProgramFinal, ThreadFinal DEF Next
<1> QED
  BY <1>1, Invariance, PTL DEF Spec, OutcomeFinal

=============================================================================
