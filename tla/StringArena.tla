----------------------------- MODULE StringArena -----------------------------
(***************************************************************************)
(* The two arenas in which the virtual machine keeps texts and byte        *)
(* buffers (aivm_vm_arena.c, aivm_vm_string_copy.c and the compaction code *)
(* of aivm_vm.c), as functions from machine states to machine states.      *)
(*                                                                         *)
(* A machine state m is a record.  m.text lists the texts of the string    *)
(* arena in address order (each is followed by a NUL), m.base tells the    *)
(* two allocations apart between which compaction moves, m.limit is how    *)
(* far the arena has been opened.  A pointer is <<"arena", offset, base>>  *)
(* or <<"const", k, 0>>; a value is [t, p, n] with its type, its pointer   *)
(* or handle, and its length or number.  m.heap is the bytes arena.  The   *)
(* capacities of the arenas come with the runtime profile (m.program).     *)
(*                                                                         *)
(* m.fault names the one thing the host refuses during a step: a temporary *)
(* copy, the workspace of a compaction, a larger intern table, or growth   *)
(* (the tooling profile preserves a reserve of host memory).               *)
(***************************************************************************)
EXTENDS TextCodec, FiniteSetsExt

CONSTANTS StringInitial, StringStep,   \* AIVM_VM_STRING_ARENA_INITIAL_CAPACITY, _GROWTH_STEP
          BytesInitial, BytesStep,     \* AIVM_VM_BYTES_ARENA_INITIAL_CAPACITY, _GROWTH_STEP
          Reuse    \* whether the allocator may hand out a freed arena's address again

ASSUME ArenaSizes ==
    /\ {StringInitial, StringStep, BytesInitial, BytesStep} \subseteq Nat \ {0}
    /\ Reuse \in BOOLEAN

NoPtr == <<"none", 0, 0>>
Freed == <<"freed", 0, 0>>
Str(p) == [t |-> "string", p |-> p, n |-> 0]
Buf(p, n) == [t |-> "bytes", p |-> p, n |-> n]
Num(n) == [t |-> "int", p |-> NoPtr, n |-> n]
NoValue == [t |-> "none", p |-> NoPtr, n |-> 0]
HeldKinds == <<"local", "task", "par">>

\* aivm_set_vm_error; a later error replaces an earlier one
Fail(m, code) == [m EXCEPT !.status = code]

-----------------------------------------------------------------------------
(* Addresses. *)

\* how many bytes the texts take with their terminators; a text is [at, s]
Used(text) == IF text = <<>> THEN 0 ELSE LET last == text[Len(text)] IN last.at + Len(last.s) + 1

Starts(text) == {e.at : e \in ToSet(text)}

Place(text, s) == Append(text, [at |-> Used(text), s |-> s])

aivm_pointer_in_string_arena(m, p) ==
    p[1] = "arena" /\ p[3] = m.base /\ p[2] < Used(m.text)

\* storage that was given back holds anything
Garbage == <<0>>

\* what a read through p yields
Read(m, p) ==
    CASE p[1] = "const" -> m.program.texts[p[2]]
      [] aivm_pointer_in_string_arena(m, p) /\ p[2] \in Starts(m.text)
           -> (CHOOSE e \in ToSet(m.text) : e.at = p[2]).s
      [] OTHER -> Garbage

PtrTo(m, offset) == <<"arena", offset, m.base>>

\* the offset of the first text equal to s, -1 when there is none
OffsetOf(text, s) ==
    LET same == {e.at : e \in {x \in ToSet(text) : x.s = s}} IN IF same = {} THEN -1 ELSE Min(same)

-----------------------------------------------------------------------------
(* Roots: everything compaction relocates, in the order it does. *)

\* aivm_vm_mark_live_scratch_pair_handles and aivm_vm_mark_live_node_handles for the
\* one pair and the one node a state has
Mentions(m, kind) == kind \in {v.t : v \in ToSet(m.stack)} \cup {m.held[h].t : h \in DOMAIN m.held}

LivePair(m) == Mentions(m, "pair")

LiveNode(m) ==
    Mentions(m, "node") \/ (LivePair(m) /\ \E i \in 1..Len(m.pair) : m.pair[i].t = "node")

RootValues(m) ==
    m.stack \o [i \in 1..Len(HeldKinds) |-> m.held[HeldKinds[i]]]
            \o (IF LivePair(m) THEN m.pair ELSE <<>>)

RootPointers(m) ==
    LET strings == SelectSeq(RootValues(m), LAMBDA v : v.t = "string")
    IN  [i \in 1..Len(strings) |-> strings[i].p] \o (IF LiveNode(m) THEN m.node ELSE <<>>)

ArenaRoots(m) ==
    SelectSeq(RootPointers(m), LAMBDA p : aivm_pointer_in_string_arena(m, p))

\* the distinct live texts, each once, in the order compaction meets them
\* (compact_lookup_or_copy_string)
LiveTexts(m) ==
    FoldLeft(LAMBDA kept, p : LET s == Read(m, p) IN IF OffsetOf(kept, s) >= 0 THEN kept ELSE Place(kept, s),
             <<>>, ArenaRoots(m))

-----------------------------------------------------------------------------
(* Compaction of the string arena, and the intern index it rebuilds. *)

\* compact_relocate_string_ptr: only pointers into the arena move
Relocate(m, fresh, p) ==
    IF p \in ToSet(ArenaRoots(m)) THEN <<"arena", OffsetOf(fresh, Read(m, p)), 1 - m.base>> ELSE p

RelocateValue(m, fresh, v) ==
    IF v.t = "string" THEN [v EXCEPT !.p = Relocate(m, fresh, @)] ELSE v

aivm_vm_rebuild_string_intern_index(m) ==
    [m EXCEPT !.index = IF m.fault = "index" /\ m.text # <<>> THEN {} ELSE Starts(m.text),
              !.complete = m.fault # "index" \/ m.text = <<>>]

\* The UTF-8 offset cache is not touched.  When no freed address comes back, a cached
\* pointer into the discarded arena can never equal a live one again.
Discard(p) == IF p[1] = "arena" /\ ~Reuse THEN Freed ELSE p

\* the state once the live texts, which were all in the old arena and so fit, have been
\* copied to the fresh one
Compacted(m, fresh) ==
    LET Moved(s) == [i \in 1..Len(s) |-> RelocateValue(m, fresh, s[i])]
    IN  [m EXCEPT !.text = fresh,
                  !.base = 1 - m.base,
                  !.stack = Moved(m.stack),
                  !.held = [h \in DOMAIN m.held |-> RelocateValue(m, fresh, m.held[h])],
                  !.pair = IF LivePair(m) THEN Moved(m.pair) ELSE m.pair,
                  !.node = IF LiveNode(m)
                             THEN [i \in 1..Len(m.node) |-> Relocate(m, fresh, m.node[i])]
                             ELSE m.node,
                  !.cache.p = Discard(m.cache.p)]

aivm_compact_string_arena(m) ==
    IF m.text = <<>> THEN m
    ELSE IF m.fault = "workspace" THEN Fail(m, "AIVMM001")
    ELSE aivm_vm_rebuild_string_intern_index(Compacted(m, LiveTexts(m)))

-----------------------------------------------------------------------------
(* Making room. *)

Fits(m, size) == Used(m.text) + size <= m.limit

\* arena_grow_limit, repeated until needed is reached or the capacity is
GrowLimit(limit, step, capacity, needed) ==
    IF needed <= limit THEN limit
    ELSE Min({capacity, limit + step * ((needed - limit + step - 1) \div step)})

ensure_string_arena_capacity(m, size) ==
    IF m.fault = "denied" THEN m
    ELSE [m EXCEPT !.limit = GrowLimit(@, StringStep, m.program.strings, Used(m.text) + size)]

\* how many bytes the texts of the roots need, each text once
LiveSize(m) == Used(LiveTexts(m))

Refuse(m, size) ==
    [Fail(m, "AIVMM001") EXCEPT !.refused = <<LiveSize(m), size, IF m.fault = "denied" THEN 1 ELSE 0>>]

\* Faulty variant: a full arena is reported full without collecting first.
aivm_string_arena_reserve_uncollected(m, size) ==
    LET grown == ensure_string_arena_capacity(m, size)
    IN  IF Fits(m, size) THEN m ELSE IF Fits(grown, size) THEN grown ELSE Refuse(grown, size)

GrownOrRefused(m, size) == IF Fits(m, size) THEN m ELSE Refuse(m, size)

RoomAfterCompaction(m, size) ==
    IF m.status # "running" \/ Fits(m, size) THEN m
    ELSE GrownOrRefused(ensure_string_arena_capacity(m, size), size)

RoomAfterGrowth(m, size) ==
    IF Fits(m, size) THEN m ELSE RoomAfterCompaction(aivm_compact_string_arena(m), size)

\* Open the arena further; failing that, compact it and try once more.  The same
\* steps as aivm_string_arena_alloc, which then takes the bytes.
aivm_string_arena_reserve(m, size) ==
    RoomAfterGrowth(IF Fits(m, size) THEN m ELSE ensure_string_arena_capacity(m, size), size)

Taken(m, s) ==
    IF m.status # "running" THEN <<m, NoPtr>>
    ELSE <<[m EXCEPT !.text = Place(@, s)], PtrTo(m, Used(m.text))>>

\* Take room for s and write it there: <<state, pointer>>, NoPtr when refused.
aivm_string_arena_alloc(m, s) == Taken(aivm_string_arena_reserve(m, Len(s) + 1), s)

-----------------------------------------------------------------------------
(* Interning: copies of equal texts are shared through the index. *)

remember_string_in_index(m, p) ==
    CASE ~m.complete          -> m
      [] m.fault = "index"    -> [m EXCEPT !.complete = FALSE]
      [] OTHER                -> [m EXCEPT !.index = @ \cup {p[2]}]

\* The offset of a remembered text equal to s.  Without a complete index the whole
\* arena is searched.  -1 when there is none.
Lookup(m, s) ==
    LET known == {o \in m.index : Read(m, PtrTo(m, o)) = s}
    IN  IF ~m.complete THEN OffsetOf(m.text, s)
        ELSE IF known = {} THEN -1 ELSE Min(known)

Remembered(r) == IF r[2] = NoPtr THEN r ELSE <<remember_string_in_index(r[1], r[2]), r[2]>>

Store(m, s) == Remembered(aivm_string_arena_alloc(m, s))

\* a text outside the arena: a constant, a local buffer or a temporary copy
CopyText(m, s) ==
    LET hit == Lookup(m, s) IN IF hit >= 0 THEN <<m, PtrTo(m, hit)>> ELSE Store(m, s)

\* A text that already lies in the arena is its own copy.
aivm_vm_copy_string_to_arena(m, p) ==
    IF aivm_pointer_in_string_arena(m, p) THEN <<m, p>> ELSE CopyText(m, Read(m, p))

\* aivm_vm_snapshot_arena_backed_string: an operand in the arena has to be copied out
\* before room is made, and that copy may be refused.
SnapshotRefused(m, ptrs) ==
    m.fault = "snapshot" /\ \E p \in ptrs : aivm_pointer_in_string_arena(m, p)

\* Faulty variant: the operand is read where it was, after room was made.
aivm_vm_copy_string_range_to_arena_late(m, p, from, to) ==
    LET s == Slice(Read(m, p), from, to)
        Written(room) == Taken(room, IF Read(room, p) = Read(m, p) THEN s ELSE Garbage)
    IN  IF Lookup(m, s) >= 0 THEN <<m, PtrTo(m, Lookup(m, s))>>
        ELSE Written(aivm_string_arena_reserve(m, Len(s) + 1))

aivm_vm_copy_string_range_to_arena(m, p, from, to) ==
    LET s == Slice(Read(m, p), from, to)
    IN  IF Lookup(m, s) >= 0 THEN <<m, PtrTo(m, Lookup(m, s))>>
        ELSE IF SnapshotRefused(m, {p}) THEN <<m, NoPtr>>
        ELSE Store(m, s)

\* prefix and suffix come from p and q; this search is always linear
aivm_vm_copy_string_splice_to_arena(m, p, prefix, q, suffix) ==
    LET s == prefix \o suffix
        hit == OffsetOf(m.text, s)
    IN  IF hit >= 0 THEN <<m, PtrTo(m, hit)>>
        ELSE IF SnapshotRefused(m, {p, q}) THEN <<m, NoPtr>>
        ELSE Store(m, s)

-----------------------------------------------------------------------------
(* The bytes arena: allocation never compacts it, safe points do. *)

ReadBytes(m, v) ==
    CASE v.p[1] = "constbytes" -> m.program.bytes[v.p[2]]
      [] v.p[1] = "heap" /\ v.p[3] = m.heapbase /\ v.p[2] + v.n <= Len(m.heap)
           -> SubSeq(m.heap, v.p[2] + 1, v.p[2] + v.n)
      [] OTHER -> [i \in 1..v.n |-> 0]

pointer_in_bytes_arena(m, v) ==
    v.t = "bytes" /\ v.p[1] = "heap" /\ v.p[3] = m.heapbase /\ v.p[2] + v.n <= Len(m.heap)

\* the distinct buffers of the roots, in the order they are met
LiveBuffers(m) ==
    FoldLeft(LAMBDA kept, v : IF ~pointer_in_bytes_arena(m, v) \/ Contains(kept, v)
                                THEN kept ELSE Append(kept, v),
             <<>>, RootValues(m))

LiveBytes(m) == FoldLeft(LAMBDA sum, v : sum + v.n, 0, LiveBuffers(m))

\* <<state, pointer>>; growth that the host refuses has an error of its own
aivm_bytes_arena_alloc(m, data) ==
    LET needed == Len(m.heap) + Len(data)
        limit == GrowLimit(m.heaplimit, BytesStep, m.program.heap, needed)
    IN  CASE needed > m.heaplimit /\ m.heaplimit < m.program.heap /\ m.fault = "denied"
               -> <<Fail(m, "AIVMM006"), NoPtr>>
          [] needed > limit
               -> <<Fail([m EXCEPT !.heaplimit = limit,
                                   !.heaprefused = <<LiveBytes(m), Len(data)>>], "AIVMM002"), NoPtr>>
          [] OTHER
               -> <<[m EXCEPT !.heaplimit = limit, !.heap = @ \o data],
                    <<"heap", Len(m.heap), m.heapbase>>>>

BufferOffset(live, v) ==
    FoldLeft(LAMBDA sum, w : sum + w.n, 0, SubSeq(live, 1, SelectInSeq(live, LAMBDA w : w = v) - 1))

CompactedBytes(m, live) ==
    LET Move(v) == IF pointer_in_bytes_arena(m, v)
                     THEN [v EXCEPT !.p = <<"heap", BufferOffset(live, v), 1 - m.heapbase>>] ELSE v
        Moved(s) == [i \in 1..Len(s) |-> Move(s[i])]
    IN  [m EXCEPT !.heap = FlattenSeq([i \in 1..Len(live) |-> ReadBytes(m, live[i])]),
                  !.heapbase = 1 - m.heapbase,
                  !.threshold = Min({m.program.heap, FoldLeft(LAMBDA sum, v : sum + v.n, 0, live) + BytesInitial}),
                  !.stack = Moved(m.stack),
                  !.held = [h \in DOMAIN m.held |-> Move(m.held[h])],
                  !.pair = IF LivePair(m) THEN Moved(m.pair) ELSE m.pair]

aivm_compact_bytes_arena(m) ==
    IF m.heap = <<>> THEN m
    ELSE IF m.fault = "workspace" /\ \E v \in ToSet(RootValues(m)) : v # NoValue
      THEN Fail(m, "AIVMM002")
    ELSE CompactedBytes(m, LiveBuffers(m))

=============================================================================
