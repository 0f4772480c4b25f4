------------------------------ MODULE NetAsync ------------------------------
(***************************************************************************)
(* Asynchronous network operations of the native host: the table of        *)
(* operations, the table of stream handles, and one connect thread per     *)
(* connect operation.  The table of operations is plain memory that the    *)
(* program's thread and the connect threads touch without a lock, so each  *)
(* racing access of a connect thread is a step of its own.  A handler of   *)
(* the program's thread is one step: a connect thread reads or writes only *)
(* its own slot, in an order that makes every interleaving with the inside *)
(* of a handler equal to one before or after it.                           *)
(*                                                                         *)
(* A connect thread and the socket it opens are named by the generation of *)
(* the operation that started the thread.                                  *)
(***************************************************************************)
EXTENDS Integers, Sequences, FiniteSets, FiniteSetsExt

CONSTANTS
    AsyncCapacity,   \* NATIVE_NET_ASYNC_CAPACITY
    HandleCapacity,  \* NATIVE_NET_HANDLE_CAPACITY
    Limit,           \* network_write_bytes of the runtime profile
    MaxLen,          \* bound: bytes of one read or write
    MaxStarts        \* bound: operations ever started

ASSUME NetConstants ==
    /\ AsyncCapacity \in Nat \ {0}
    /\ HandleCapacity \in Nat \ {0}
    /\ {Limit, MaxLen, MaxStarts} \subseteq Nat

VARIABLES
    op,              \* g_native_net_async_ops
    handle,          \* g_native_net_handles: the socket of each handle, or 0
    nextGeneration,  \* g_native_net_async_next_generation
    spent,           \* network_write_bytes_used of the active VM
    thread,          \* the connect threads, by generation: [pc, slot, sock];
                     \*   pc: connecting, before the tests of the slot and of
                     \*   canceled, before each of three writes, at its end
    open,            \* the sockets the operating system holds open
    wire,            \* history: the bytes of each operation, by their place in
                     \*   its buffer, that were written to each socket
    torn             \* history: threads whose slot was reset under them

vars == <<op, handle, nextGeneration, spent, thread, open, wire, torn>>

Slots == 1..AsyncCapacity
Handles == 1..HandleCapacity
Generations == 1..MaxStarts

\* Kinds: 1 connect, 2 read, 3 write, 0 an operation that failed to start.
\* Statuses: 0 pending, 1 succeeded, -1 failed, -2 canceled.
NoOperation ==
    [used |-> FALSE, kind |-> 0, status |-> 0, gen |-> 0, canceled |-> FALSE,
     done |-> FALSE, joined |-> FALSE, ok |-> FALSE, sock |-> 0, handle |-> 0,
     result |-> 0, len |-> 0, off |-> 0, stream |-> 0]

Init ==
    /\ op = [i \in Slots |-> NoOperation]
    /\ handle = [h \in Handles |-> 0]
    /\ nextGeneration = 1
    /\ spent = 0
    /\ thread = [g \in Generations |-> [pc |-> "none", slot |-> 0, sock |-> 0]]
    /\ open = {}
    /\ wire = [s \in Generations |-> [g \in Generations |-> <<>>]]
    /\ torn = {}

-----------------------------------------------------------------------------
(* Helpers of the program's thread.                                        *)

FreeHandles == {h \in Handles : handle[h] = 0}
FreeSlots == {i \in Slots : ~op[i].used}

\* release_pending_bytes
Released(o) == [o EXCEPT !.len = 0, !.off = 0]

Succeeded(o, value) == [Released(o) EXCEPT !.status = 1, !.result = value]

Failed(o) == [Released(o) EXCEPT !.status = -1, !.result = 0]

WorkerSocketClosed(o) == [o EXCEPT !.sock = 0]

\* The connected socket becomes handle h.
Adopted(o, h) ==
    Succeeded([o EXCEPT !.sock = 0, !.handle = h, !.stream = o.sock], h)

MustFinalize(o) == o.kind = 1 /\ o.done /\ ~o.joined

\* Faulty variant: the result of a cancelled connect is taken all the same.
NeverDropped(o) == FALSE

\* A finished connect whose operation was cancelled is dropped.
Dropped(o) == o.status = -2 \/ o.canceled

\* maybe_finalize_worker on slot i, whose contents are o: join the thread, then
\* fail, drop or adopt what it brought back.  Joining waits for the thread's
\* end; blocking says whether the socket refused non-blocking mode.
Finalize(i, o, blocking) ==
    LET j == [o EXCEPT !.joined = TRUE]
        Become(n) == op' = [op EXCEPT ![i] = n]
    IN  IF ~MustFinalize(o)
        THEN Become(o) /\ UNCHANGED <<handle, open>>
        ELSE /\ thread[o.gen].pc \in {"none", "ended"}
             /\ IF Dropped(o)
                THEN /\ Become(WorkerSocketClosed(j))
                     /\ open' = open \ {o.sock}
                     /\ UNCHANGED handle
                ELSE IF ~o.ok
                THEN Become(Failed(j)) /\ UNCHANGED <<handle, open>>
                ELSE IF blocking \/ FreeHandles = {} \/ o.sock = 0
                THEN /\ Become(Failed(WorkerSocketClosed(j)))
                     /\ open' = open \ {o.sock}
                     /\ UNCHANGED handle
                ELSE LET h == Min(FreeHandles)
                     IN  /\ Become(Adopted(j, h))
                         /\ handle' = [handle EXCEPT ![h] = o.sock]
                         /\ UNCHANGED open

-----------------------------------------------------------------------------
(* One attempt of a read or a write.  Its outcome io is chosen by the      *)
(* network: Idle when the stream is not ready, Broken when the call fails,  *)
(* or the number of bytes moved.                                           *)

Idle == -2
Broken == -1
Outcomes == {Idle, Broken} \cup (0..MaxLen)

\* try_consume_write_bytes
WithinBudget(n) == spent + n <= Limit

\* The bytes with which a write operation o goes on, n of them.
Chunk(o, n) == [k \in 1..n |-> o.off + k]

\* Faulty variant: a partial write completes the operation.
WrittenAfterAnyProgress(o, n) == Succeeded(o, o.len)

\* The write operation o after n more bytes went out within the budget.
Written(o, n) ==
    IF o.off + n >= o.len THEN Succeeded(o, o.len)
                          ELSE [o EXCEPT !.off = o.off + n]

\* native_net_async_process for kinds 2 and 3, on slot i with contents o.
Process(i, o, io) ==
    LET s == IF o.handle \in Handles THEN handle[o.handle] ELSE 0
        Become(n) == op' = [op EXCEPT ![i] = n]
    IN  /\ UNCHANGED <<handle, open>>
        /\ IF s = 0
           THEN Become(Failed(o)) /\ UNCHANGED <<spent, wire>>
           ELSE IF io = Idle
           THEN Become(o) /\ UNCHANGED <<spent, wire>>
           ELSE IF o.kind = 3 /\ o.off = o.len
           THEN Become(Succeeded(o, o.len)) /\ UNCHANGED <<spent, wire>>
           ELSE IF io = Broken \/ (o.kind = 3 /\ io = 0)
           THEN Become(Failed(o)) /\ UNCHANGED <<spent, wire>>
           ELSE IF o.kind = 2
           THEN Become(Succeeded(o, 0)) /\ UNCHANGED <<spent, wire>>
           ELSE /\ io <= o.len - o.off
                /\ wire' = [wire EXCEPT ![s][o.gen] = @ \o Chunk(o, io)]
                /\ IF WithinBudget(io)
                   THEN Become(Written(o, io)) /\ spent' = spent + io
                   ELSE Become(Failed(o)) /\ UNCHANGED spent

-----------------------------------------------------------------------------
(* Calls of the program.                                                   *)

\* async_allocate: a zeroed slot with a fresh generation.  When no slot is free
\* the call returns -1 and changes nothing.
Allocated == [NoOperation EXCEPT !.used = TRUE, !.gen = nextGeneration]

Allocates(i) ==
    /\ FreeSlots # {}
    /\ i = Min(FreeSlots)
    /\ nextGeneration \in Generations
    /\ nextGeneration' = nextGeneration + 1

\* net.tcp.connectStart and connectTlsStart.  They fail at once on an argument
\* ("refused"), or in the name lookup or the creation of the thread ("failed").
ConnectStart(i, how) ==
    /\ Allocates(i)
    /\ LET o == [Allocated EXCEPT !.kind = IF how = "refused" THEN 0 ELSE 1]
       IN  op' = [op EXCEPT ![i] = IF how = "started" THEN o ELSE Failed(o)]
    /\ thread' = IF how = "started"
                 THEN [thread EXCEPT ![nextGeneration].pc = "connect",
                                     ![nextGeneration].slot = i]
                 ELSE thread
    /\ UNCHANGED <<handle, spent, open, wire, torn>>

\* net.tcp.readStart and writeStart on handle h: a first attempt is made at once.
StreamStart(i, kind, h, len, io) ==
    /\ Allocates(i)
    /\ LET o == [Allocated EXCEPT !.kind = kind, !.handle = h, !.len = len,
                                  !.stream = handle[h]]
       IN  IF handle[h] = 0
           THEN /\ op' = [op EXCEPT ![i] = Failed(Allocated)]
                /\ UNCHANGED <<handle, spent, open, wire>>
           ELSE Process(i, o, io)
    /\ UNCHANGED <<thread, torn>>

ReadStart(i, h, io) == StreamStart(i, 2, h, 0, io)

WriteStart(i, h, len, io) == len <= Limit /\ StreamStart(i, 3, h, len, io)

\* Faulty variant: polling a connect does not look at its thread.
PollWithoutFinalize(i, io, blocking) ==
    /\ op[i].used
    /\ op[i].status = 0
    /\ op[i].kind # 1
    /\ Process(i, op[i], io)
    /\ UNCHANGED <<nextGeneration, thread, torn>>

\* net.async.poll, and each round of the loop of net.async.await.
Poll(i, io, blocking) ==
    /\ op[i].used
    /\ op[i].status = 0
    /\ IF op[i].kind = 1
       THEN Finalize(i, op[i], blocking) /\ UNCHANGED <<spent, wire>>
       ELSE Process(i, op[i], io)
    /\ UNCHANGED <<nextGeneration, thread, torn>>

\* net.async.resultInt, resultBytes and error, and the end of net.async.await:
\* each finalizes a finished connect, whatever the operation's status.
Touch(i, blocking) ==
    /\ op[i].used
    /\ MustFinalize(op[i])
    /\ Finalize(i, op[i], blocking)
    /\ UNCHANGED <<nextGeneration, spent, thread, wire, torn>>

\* net.async.cancel of a pending operation.
Cancel(i) ==
    LET o == [op[i] EXCEPT !.canceled = TRUE]
        f == IF MustFinalize(o)
             THEN WorkerSocketClosed([o EXCEPT !.joined = TRUE]) ELSE o
        h == IF o.kind = 1 THEN o.handle ELSE 0
    IN  /\ op[i].used
        /\ op[i].status = 0
        /\ MustFinalize(o) => thread[o.gen].pc \in {"none", "ended"}
        /\ op' = [op EXCEPT ![i] = [Released(f) EXCEPT !.handle = 0, !.status = -2]]
        /\ open' = open \ ((IF MustFinalize(o) THEN {o.sock} ELSE {})
                           \cup {handle[k] : k \in {h} \cap Handles})
        /\ handle' = [k \in Handles |-> IF k = h THEN 0 ELSE handle[k]]
        /\ UNCHANGED <<nextGeneration, spent, thread, wire, torn>>

\* net.tcp.close.
Close(h) ==
    /\ handle[h] # 0
    /\ open' = open \ {handle[h]}
    /\ handle' = [handle EXCEPT ![h] = 0]
    /\ UNCHANGED <<op, nextGeneration, spent, thread, wire, torn>>

\* native_net_reset when a program ends, and the next program's fresh counters.
\* Threads that still run are not waited for, only those that reported.
Reset ==
    /\ \A i \in Slots : op[i].used /\ MustFinalize(op[i])
                            => thread[op[i].gen].pc \in {"none", "ended"}
    /\ op' = [i \in Slots |-> NoOperation]
    /\ handle' = [h \in Handles |-> 0]
    /\ open' = open \ ({handle[h] : h \in Handles}
                       \cup {op[i].sock : i \in {k \in Slots : op[k].used}})
    /\ torn' = torn \cup {g \in Generations :
                            thread[g].pc \in {"canceled", "status", "socket", "done"}}
    /\ spent' = 0
    /\ UNCHANGED <<nextGeneration, thread, wire>>

-----------------------------------------------------------------------------
(* The connect thread of generation g.                                     *)

Goto(g, pc) == thread' = [thread EXCEPT ![g].pc = pc]

\* Resolve, connect and shake hands: a connected socket, or none.
Connect(g, ok) ==
    /\ thread[g].pc = "connect"
    /\ thread' = [thread EXCEPT ![g].pc = "slot", ![g].sock = IF ok THEN g ELSE 0]
    /\ open' = IF ok THEN open \cup {g} ELSE open
    /\ UNCHANGED <<op, handle, nextGeneration, spent, wire, torn>>

\* Faulty variant: a result nobody waits for is dropped with its socket open.
DiscardWithoutClosing(g) ==
    /\ Goto(g, "ended")
    /\ UNCHANGED open

\* A result nobody waits for: the socket is closed, worker_done stays unset.
Discard(g) ==
    /\ Goto(g, "ended")
    /\ open' = open \ {thread[g].sock}

\* Faulty variant: the generation of the slot is not compared.
SlotStillUsed(g) == op[thread[g].slot].used

SlotIsMine(g) ==
    /\ op[thread[g].slot].used
    /\ op[thread[g].slot].gen = g

\* The reads of used and generation.
TestSlot(g) ==
    /\ thread[g].pc = "slot"
    /\ IF SlotIsMine(g) THEN Goto(g, "canceled") /\ UNCHANGED open ELSE Discard(g)
    /\ UNCHANGED <<op, handle, nextGeneration, spent, wire, torn>>

\* The read of canceled.
TestCanceled(g) ==
    /\ thread[g].pc = "canceled"
    /\ IF op[thread[g].slot].canceled
       THEN Discard(g)
       ELSE Goto(g, "status") /\ UNCHANGED open
    /\ UNCHANGED <<op, handle, nextGeneration, spent, wire, torn>>

\* The writes of worker_result_status, worker_socket and worker_done.
WriteStatus(g) ==
    /\ thread[g].pc = "status"
    /\ op' = [op EXCEPT ![thread[g].slot].ok = (thread[g].sock # 0)]
    /\ Goto(g, "socket")
    /\ UNCHANGED <<handle, nextGeneration, spent, open, wire, torn>>

WriteSocket(g) ==
    /\ thread[g].pc = "socket"
    /\ op' = [op EXCEPT ![thread[g].slot].sock = thread[g].sock]
    /\ Goto(g, "done")
    /\ UNCHANGED <<handle, nextGeneration, spent, open, wire, torn>>

WriteDone(g) ==
    /\ thread[g].pc = "done"
    /\ op' = [op EXCEPT ![thread[g].slot].done = TRUE]
    /\ Goto(g, "ended")
    /\ UNCHANGED <<handle, nextGeneration, spent, open, wire, torn>>

-----------------------------------------------------------------------------

Program ==
    \/ \E i \in Slots, how \in {"refused", "failed", "started"} : ConnectStart(i, how)
    \/ \E i \in Slots, h \in Handles, io \in Outcomes : ReadStart(i, h, io)
    \/ \E i \in Slots, h \in Handles, len \in 0..MaxLen, io \in Outcomes :
            WriteStart(i, h, len, io)
    \/ \E i \in Slots, io \in Outcomes, blocking \in BOOLEAN : Poll(i, io, blocking)
    \/ \E i \in Slots, blocking \in BOOLEAN : Touch(i, blocking)
    \/ \E i \in Slots : Cancel(i)
    \/ \E h \in Handles : Close(h)
    \/ Reset

Thread(g) ==
    \/ \E ok \in BOOLEAN : Connect(g, ok)
    \/ TestSlot(g)
    \/ TestCanceled(g)
    \/ WriteStatus(g)
    \/ WriteSocket(g)
    \/ WriteDone(g)

Next == Program \/ \E g \in Generations : Thread(g)

Spec == Init /\ [][Next]_vars

\* The program keeps polling its pending connects, as net.async.await does; a
\* round that finds the thread still at work changes nothing.  What the socket
\* calls return matters to no connect.
PollConnect(i) ==
    /\ MustFinalize(op[i])
    /\ \E blocking \in BOOLEAN : Poll(i, CHOOSE io \in Outcomes : TRUE, blocking)

\* The operating system runs some connect thread whenever one can run and lets
\* every connect return; as a thread ends after a few steps, all get their turn.
FairSpec ==
    /\ Spec
    /\ WF_vars(\E g \in Generations : Thread(g))
    /\ \A i \in Slots : WF_vars(PollConnect(i))

-----------------------------------------------------------------------------
(* Properties.                                                             *)

Carriers == {"slot", "canceled", "status", "socket"}

\* Everything that would close socket s: a handle, a slot in use, a thread.
Owners(s) ==
    ({"handle"} \X {h \in Handles : handle[h] = s})
        \cup ({"slot"} \X {i \in Slots : op[i].used /\ op[i].sock = s})
        \cup ({"thread"} \X {g \in Generations : thread[g].pc \in Carriers
                                                  /\ thread[g].sock = s})

\* No socket is closed twice: handing a connected socket from the thread to the
\* slot to a handle leaves at most one of them responsible for it, and what any
\* of them holds is still open, even when a reset overtakes the thread.  And no
\* socket leaks: whatever is open belongs to a handle, to a slot that reset will
\* clear or to a thread that will hand it over or close it.  The one exception
\* is a reset that overtakes a thread between its tests and its writes.
SocketsOwnedOnce ==
    \A s \in Generations :
        /\ Cardinality(Owners(s)) <= 1
        /\ Owners(s) # {} => s \in open
        /\ torn = {} /\ s \in open => Owners(s) # {}

\* A connect that succeeds gives the program the very socket its own thread
\* connected, also when the slot was used before by an operation whose thread
\* is still running.
DeliversOwnConnection ==
    torn = {} =>
        \A i \in Slots : op[i].used /\ op[i].kind = 1 /\ op[i].status = 1
            => op[i].stream = op[i].gen /\ thread[op[i].gen].sock = op[i].gen

\* A write that reports n bytes has put exactly its n bytes on the stream, in
\* order, whatever partial writes it took.  Only a program that closes the
\* handle under a pending write and lets it be given out again can break this.
WritesAreWhole ==
    \A i \in Slots : op[i].used /\ op[i].kind = 3 /\ op[i].status = 1
                        /\ (op[i].handle \in Handles => handle[op[i].handle] = op[i].stream)
        => wire[op[i].stream][op[i].gen] = [k \in 1..op[i].result |-> k]

\* The outcome of an operation is final: once it succeeded, failed or was
\* cancelled, no late thread and no later call changes what the program sees.
OutcomeFinal ==
    [][torn = {} =>
        \A i \in Slots : op[i].used /\ op[i].status # 0 /\ op'[i].gen = op[i].gen
            => op'[i].status = op[i].status /\ op'[i].result = op[i].result]_vars

\* A pending connect is settled in the end: its thread reports, and the program
\* that polls it sees a success, a failure or its own cancellation.
ConnectsSettle ==
    \A g \in Generations :
        LET Pending == \E i \in Slots :
                          op[i].gen = g /\ op[i].kind = 1 /\ op[i].status = 0
        IN  Pending ~> ~Pending
=============================================================================
