------------------------------- MODULE VmText -------------------------------
(***************************************************************************)
(* The text, bytes, pair, literal-node and system-call instructions of the *)
(* virtual machine (the opcode cases of aivm_vm.c) over the arenas of      *)
(* StringArena, together with the blob store that the embedding interface  *)
(* offers (aivm_vm_blob.c).  One action is one instruction or one call.    *)
(*                                                                         *)
(* vm.program fixes what a run consists of: its constants, the operations  *)
(* it uses, the number of instructions, the integers it pushes as          *)
(* operands, the system-call contracts, policy, bindings and host answers, *)
(* and which host refusals may happen.                                     *)
(* An integer operand is pushed right before the instruction that pops it, *)
(* so both are one step here.  At most one pair and one node are live.     *)
(***************************************************************************)
EXTENDS StringArena, HashMap

CONSTANTS Programs,      \* the programs a run may execute
          StackBound,    \* bound: values on the stack
          BlobCapacity, BlobBytes,    \* AIVM_VM_BLOB_CAPACITY, AIVM_VM_BLOB_BYTES
          MaxHandle      \* bound: blobs ever created

VARIABLE vm

EmptyText == <<>>
LitText == <<76, 105, 116>>
ValueText == <<118, 97, 108, 117, 101>>

\* clear_blob_record
NoBlob == [handle |-> 0, data |-> <<>>]

\* what aivm_reset_state leaves behind
Fresh(program) ==
    [program |-> program, status |-> "running", fault |-> "none", steps |-> 0,
     text |-> <<>>, base |-> 0, limit |-> Min({program.strings, StringInitial}),
     index |-> {}, complete |-> TRUE,
     cache |-> [p |-> NoPtr, rune |-> 0, byte |-> 0],
     stack |-> <<>>, held |-> [h \in ToSet(HeldKinds) |-> NoValue],
     pair |-> <<>>, node |-> <<>>, maps |-> <<>>,
     heap |-> <<>>, heapbase |-> 0, heaplimit |-> Min({program.heap, BytesInitial}),
     threshold |-> Min({program.heap, BytesInitial}),
     blobs |-> [i \in 1..BlobCapacity |-> NoBlob],
     next |-> 1, used |-> 0, answer |-> <<>>,
     called |-> <<>>, refused |-> <<>>, heaprefused |-> <<>>]

Init == \E p \in Programs : vm = Fresh(p)

-----------------------------------------------------------------------------
(* Executing an instruction. *)

Running == vm.status = "running" /\ vm.steps < vm.program.budget

\* m is the state the instruction leaves behind
Done(m) == vm' = [m EXCEPT !.fault = "none", !.steps = vm.steps + 1]

\* Pop the operands, check their types, and go on with Result; f is what the host
\* refuses meanwhile.
Execute(op, types, Result(_, _)) ==
    /\ Running
    /\ op \in vm.program.ops
    /\ Len(vm.stack) >= Len(types)
    /\ \E f \in vm.program.faults :
         LET k == Len(vm.stack) - Len(types)
             operands == SubSeq(vm.stack, k + 1, Len(vm.stack))
             popped == [vm EXCEPT !.stack = SubSeq(@, 1, k), !.fault = f]
             after == IF \E i \in 1..Len(types) : types[i] \notin {"any", operands[i].t}
                        THEN Fail(popped, "type") ELSE Result(popped, operands)
         IN  /\ Len(after.stack) <= StackBound
             /\ Done(after)

Push(m, v) == [m EXCEPT !.stack = Append(@, v)]

\* A helper that returns no pointer sends the instruction pointer to the end of the
\* program: without an error of its own, the run then counts as finished.
Pushed(r, v) ==
    IF r[2] # NoPtr THEN Push(r[1], v)
    ELSE IF r[1].status = "running" THEN Fail(r[1], "halted") ELSE r[1]

push_string_copy(r) == Pushed(r, Str(r[2]))

push_bytes_copy(m, data) ==
    LET r == aivm_bytes_arena_alloc(m, data) IN Pushed(r, Buf(r[2], Len(data)))

\* Constants are pushed as they lie in the program.
CONST ==
    /\ Running /\ Len(vm.stack) < StackBound
    /\ \E v \in {Str(<<"const", k, 0>>) : k \in DOMAIN vm.program.texts}
             \cup {Buf(<<"constbytes", k, 0>>, Len(vm.program.bytes[k])) : k \in DOMAIN vm.program.bytes}
             \cup {Num(i) : i \in vm.program.pushed} :
         Done(Push(vm, v))

\* STORE_LOCAL, a completed task and a finished branch keep a value; LOAD_LOCAL and the
\* joins bring it back; leaving the function or consuming the result drops it.
Hold ==
    /\ Running /\ vm.stack # <<>>
    /\ \E h \in vm.program.holds :
         Done([vm EXCEPT !.held[h] = Last(vm.stack), !.stack = Front(@)])

Recall ==
    /\ Running /\ Len(vm.stack) < StackBound
    /\ \E h \in vm.program.holds : vm.held[h] # NoValue /\ Done(Push(vm, vm.held[h]))

Drop ==
    /\ Running
    /\ \E h \in vm.program.holds : vm.held[h] # NoValue /\ Done([vm EXCEPT !.held[h] = NoValue])

aivm_value_equals(m, v, w) ==
    CASE v.t # w.t       -> FALSE
      [] v.t = "string"  -> v.p = w.p \/ Read(m, v.p) = Read(m, w.p)
      [] v.t = "bytes"   -> v.n = w.n /\ ReadBytes(m, v) = ReadBytes(m, w)
      [] OTHER           -> v.n = w.n

EQ ==
    Execute("eq", <<"any", "any">>, LAMBDA m, o :
        Push(m, [t |-> "bool", p |-> NoPtr, n |-> IF aivm_value_equals(m, o[1], o[2]) THEN 1 ELSE 0]))

-----------------------------------------------------------------------------
(* Text instructions. *)

STR_CONCAT ==
    Execute("concat", <<"string", "string">>, LAMBDA m, o :
        LET Joined(r) == IF r[2] = NoPtr /\ r[1].status = "running" THEN Fail(r[1], "pressure")
                         ELSE push_string_copy(r)
        IN  Joined(aivm_vm_copy_string_splice_to_arena(m, o[1].p, Read(m, o[1].p), o[2].p, Read(m, o[2].p))))

\* The case for strings reports any failure as a type mismatch.
TO_STRING ==
    Execute("toString", <<"any">>, LAMBDA m, o :
        CASE o[1].t = "string" ->
               LET Same(r) == IF r[2] = NoPtr THEN Fail(r[1], "type") ELSE push_string_copy(r)
               IN  Same(aivm_vm_copy_string_to_arena(m, o[1].p))
          [] o[1].t = "bool"   -> push_string_copy(CopyText(m, IF o[1].n = 1 THEN <<116, 114, 117, 101>>
                                                                             ELSE <<102, 97, 108, 115, 101>>))
          [] o[1].t = "int"    -> push_string_copy(CopyText(m, Decimal(o[1].n)))
          [] o[1].t = "bytes"  -> push_string_copy(aivm_string_arena_alloc(m, HexText(ReadBytes(m, o[1]))))
          [] OTHER             -> Fail(m, "type"))

STR_ESCAPE ==
    Execute("escape", <<"string">>, LAMBDA m, o :
        IF SnapshotRefused(m, {o[1].p}) THEN Fail(m, "halted")
        ELSE push_string_copy(aivm_string_arena_alloc(m, Escaped(Read(m, o[1].p)))))

\* The cache remembers one text, by its address, and where one of its runes starts.
\* <<state, byte offset>>
utf8_byte_offset_for_rune(m, p, rune) ==
    LET hit == m.cache.p = p /\ m.cache.rune <= rune
        w == Walk(Read(m, p), IF hit THEN m.cache.byte ELSE 0, IF hit THEN m.cache.rune ELSE 0, rune)
    IN  <<[m EXCEPT !.cache = [p |-> p, rune |-> w[2], byte |-> w[1]]], w[1]>>

push_substring_by_runes(m, p, start, length) ==
    LET from == utf8_byte_offset_for_rune(m, p, Max({start, 0}))
        to == Walk(Read(m, p), from[2], 0, length)[1]
    IN  IF length <= 0 THEN push_string_copy(CopyText(m, EmptyText))
        ELSE push_string_copy(aivm_vm_copy_string_range_to_arena(from[1], p, from[2], to))

STR_SUBSTRING ==
    \E start, length \in vm.program.ints :
        Execute("substring", <<"string">>, LAMBDA m, o :
            push_substring_by_runes(m, o[1].p, start, length))

push_remove_by_runes(m, p, start, length) ==
    LET s == Read(m, p)
        runes == utf8_rune_count(s)
        first == clamp_rune_index(start, runes)
        from == utf8_byte_offset_for_rune(m, p, first)
        to == utf8_byte_offset_for_rune(from[1], p, Max({first, clamp_rune_index(start + length, runes)}))
    IN  IF length <= 0 THEN push_string_copy(aivm_vm_copy_string_to_arena(m, p))
        ELSE push_string_copy(aivm_vm_copy_string_splice_to_arena(
                 to[1], p, Slice(s, 0, from[2]), p, Slice(s, to[2], Len(s))))

STR_REMOVE ==
    \E start, length \in vm.program.ints :
        Execute("remove", <<"string">>, LAMBDA m, o :
            push_remove_by_runes(m, o[1].p, start, length))

\* try candidate runes from <<state, byte>> on
RECURSIVE FindFrom(_, _, _, _, _)
FindFrom(at, p, pattern, rune, last) ==
    LET s == Read(at[1], p)
    IN  CASE at[2] + Len(pattern) > Len(s)                        -> Push(at[1], Num(-1))
          [] Slice(s, at[2], at[2] + Len(pattern)) = pattern      -> Push(at[1], Num(rune))
          [] rune >= last                                         -> Push(at[1], Num(-1))
          [] OTHER -> FindFrom(utf8_byte_offset_for_rune(at[1], p, rune + 1), p, pattern, rune + 1, last)

push_find_by_runes(m, p, pattern, start) ==
    LET runes == utf8_rune_count(Read(m, p))
        wanted == utf8_rune_count(pattern)
        first == clamp_rune_index(start, runes)
    IN  CASE wanted = 0               -> Push(m, Num(first))
          [] first > runes - wanted   -> Push(m, Num(-1))
          [] OTHER -> FindFrom(utf8_byte_offset_for_rune(m, p, first), p, pattern, first, runes - wanted)

STR_FIND ==
    \E start \in vm.program.ints :
        Execute("find", <<"string", "string">>, LAMBDA m, o :
            push_find_by_runes(m, o[1].p, Read(m, o[2].p), start))

STR_FROM_CODEPOINT ==
    Execute("codepoint", <<"int">>, LAMBDA m, o :
        push_string_copy(CopyText(m, push_string_from_codepoint(o[1].n))))

STR_DECODE_UNICODE_HEX4 ==
    Execute("hex4", <<"string">>, LAMBDA m, o :
        push_string_copy(CopyText(m, DecodeHex4(Read(m, o[1].p)))))

STR_DECODE_UNICODE_SURROGATE_PAIR_HEX4 ==
    Execute("surrogates", <<"string", "string">>, LAMBDA m, o :
        push_string_copy(CopyText(m, DecodeSurrogatePair(Read(m, o[1].p), Read(m, o[2].p)))))

STR_UTF8_BYTE_COUNT ==
    Execute("byteCount", <<"string">>, LAMBDA m, o : Push(m, Num(Len(Read(m, o[1].p)))))

STR_SCALAR_LENGTH ==
    Execute("scalars", <<"string">>, LAMBDA m, o : Push(m, Num(ScalarLength(Read(m, o[1].p)))))

-----------------------------------------------------------------------------
(* Bytes instructions. *)

BYTES_LENGTH == Execute("length", <<"bytes">>, LAMBDA m, o : Push(m, Num(o[1].n)))

BYTES_AT ==
    \E i \in vm.program.ints :
        Execute("at", <<"bytes">>, LAMBDA m, o :
            Push(m, Num(IF i < 0 \/ i >= o[1].n THEN -1 ELSE ReadBytes(m, o[1])[i + 1])))

BYTES_SLICE ==
    \E i, length \in vm.program.ints :
        Execute("slice", <<"bytes">>, LAMBDA m, o :
            LET start == clamp_rune_index(i, o[1].n)
            IN  push_bytes_copy(m, Slice(ReadBytes(m, o[1]), start,
                                         Min({o[1].n, start + Max({length, 0})}))))

BYTES_CONCAT ==
    Execute("join", <<"bytes", "bytes">>, LAMBDA m, o :
        push_bytes_copy(m, ReadBytes(m, o[1]) \o ReadBytes(m, o[2])))

BYTES_FROM_UTF8_STRING ==
    Execute("fromUtf8", <<"string">>, LAMBDA m, o : push_bytes_copy(m, Read(m, o[1].p)))

\* push_string_bytes_copy takes room in the arena without asking the index
BYTES_TO_UTF8_STRING ==
    Execute("toUtf8", <<"bytes">>, LAMBDA m, o :
        LET data == ReadBytes(m, o[1])
        IN  IF o[1].n = 0 \/ ~aivm_bytes_is_valid_utf8_without_nul(data)
              THEN push_string_copy(CopyText(m, EmptyText))
              ELSE push_string_copy(aivm_string_arena_alloc(m, data)))

BYTES_FROM_BASE64 ==
    Execute("fromBase64", <<"string">>, LAMBDA m, o :
        LET data == aivm_bytes_from_base64(Read(m, o[1].p))
        IN  IF data = None THEN Fail(m, "program") ELSE push_bytes_copy(m, data))

BYTES_TO_BASE64 ==
    Execute("toBase64", <<"bytes">>, LAMBDA m, o :
        push_string_copy(aivm_string_arena_alloc(m, aivm_bytes_to_base64(ReadBytes(m, o[1])))))

BYTES_FROM_BYTE ==
    Execute("fromByte", <<"int">>, LAMBDA m, o :
        IF o[1].n \notin Byte THEN Fail(m, "type") ELSE push_bytes_copy(m, <<o[1].n>>))

BYTES_U32_LE ==
    Execute("u32", <<"int">>, LAMBDA m, o :
        IF o[1].n < 0 THEN Fail(m, "type") ELSE push_bytes_copy(m, U32Le(o[1].n)))

BYTES_I64_LE == Execute("i64", <<"int">>, LAMBDA m, o : push_bytes_copy(m, I64Le(o[1].n)))

-----------------------------------------------------------------------------
(* Pairs, literal nodes and safe points. *)

MAKE_PAIR ==
    /\ ~LivePair(vm)
    /\ Execute("pair", <<"any", "any">>, LAMBDA m, o :
        Push([m EXCEPT !.pair = o], [t |-> "pair", p |-> NoPtr, n |-> 1]))

PAIR_FIRST == Execute("first", <<"pair">>, LAMBDA m, o : Push(m, m.pair[1]))

PAIR_SECOND == Execute("second", <<"pair">>, LAMBDA m, o : Push(m, m.pair[2]))

\* the record, once <<state, pointers>> has all its texts
NodeRecord(copied) ==
    IF copied[1].status # "running" THEN copied[1]
    ELSE Push([copied[1] EXCEPT !.node = copied[2]], [t |-> "node", p |-> NoPtr, n |-> 1])

CopyTexts(m, texts) ==
    LET Added(kept, c) == <<c[1], Append(kept, c[2])>>
    IN  FoldLeft(LAMBDA r, s : IF r[1].status # "running" THEN r ELSE Added(r[2], CopyText(r[1], s)),
                 <<m, <<>>>>, texts)

\* Faulty variant: room is reserved for the texts but not for their terminators.
aivm_vm_create_node_record_short(m, idp, valuep, texts) ==
    IF SnapshotRefused(m, {idp, valuep}) THEN Fail(m, "AIVMM001")
    ELSE NodeRecord(CopyTexts(aivm_string_arena_reserve(m,
             FoldLeft(LAMBDA sum, s : sum + Len(s), 0, texts)), texts))

\* The inputs are copied out, room is made for all of them at once, and only then are
\* they copied in: nothing is compacted while the record is half built.
aivm_vm_create_node_record(m, idp, valuep, texts) ==
    IF SnapshotRefused(m, {idp, valuep}) THEN Fail(m, "AIVMM001")
    ELSE NodeRecord(CopyTexts(aivm_string_arena_reserve(m,
             FoldLeft(LAMBDA sum, s : sum + Len(s) + 1, 0, texts)), texts))

MAKE_LIT_STRING ==
    /\ ~LiveNode(vm)
    /\ Execute("lit", <<"string", "string">>, LAMBDA m, o :
        aivm_vm_create_node_record(m, o[1].p, o[2].p,
            <<LitText, Read(m, o[1].p), ValueText, Read(m, o[2].p)>>))

\* the names of the types that occur here
KindName ==
    [t \in {"string", "bytes", "int", "bool", "pair", "node"} |->
       CASE t = "string" -> <<115, 116, 114, 105, 110, 103>> [] t = "bytes" -> <<98, 121, 116, 101, 115>>
         [] t = "int" -> <<105, 110, 116>> [] t = "bool" -> <<98, 111, 111, 108>>
         [] t = "pair" -> <<112, 97, 105, 114>> [] OTHER -> <<110, 111, 100, 101>>]

VALUE_KIND == Execute("type", <<"any">>, LAMBDA m, o : push_string_copy(CopyText(m, KindName[o[1].t])))

NODE_KIND ==
    Execute("kind", <<"node">>, LAMBDA m, o : push_string_copy(aivm_vm_copy_string_to_arena(m, m.node[1])))

NODE_ID ==
    Execute("id", <<"node">>, LAMBDA m, o : push_string_copy(aivm_vm_copy_string_to_arena(m, m.node[2])))

\* a literal has one attribute
ATTR_COUNT == Execute("attributes", <<"node">>, LAMBDA m, o : Push(m, Num(1)))

\* An index past the attributes gives an empty text.
Attribute(op, slot) ==
    \E i \in vm.program.ints :
        Execute(op, <<"node">>, LAMBDA m, o :
            push_string_copy(IF i = 0 THEN aivm_vm_copy_string_to_arena(m, m.node[slot])
                                      ELSE CopyText(m, EmptyText)))

ATTR_KEY == Attribute("key", 3)

ATTR_VALUE_STRING == Attribute("value", 4)

collect_safe_point_internal(m, nodes, bytes) ==
    LET strings == IF nodes THEN aivm_compact_string_arena(m) ELSE m
    IN  IF bytes /\ strings.status = "running" THEN aivm_compact_bytes_arena(strings) ELSE strings

aivm_vm_should_attempt_bytes_return_safe_point ==
    vm.threshold < vm.program.heap /\ Len(vm.heap) >= vm.threshold

\* Returning from a function; whether the node arenas ask for a collection is decided
\* elsewhere (NodeGC).
ReturnSafePoint ==
    /\ Running /\ "return" \in vm.program.ops
    /\ \E nodes \in BOOLEAN, f \in vm.program.faults :
         /\ nodes \/ aivm_vm_should_attempt_bytes_return_safe_point
         /\ Done(collect_safe_point_internal([vm EXCEPT !.fault = f], nodes,
                     aivm_vm_should_attempt_bytes_return_safe_point))

\* Called by the host between phases, and when a task result is handed over.
aivm_collect_safe_point ==
    /\ Running /\ "collect" \in vm.program.ops
    /\ \E f \in vm.program.faults :
         Done(collect_safe_point_internal([vm EXCEPT !.fault = f], TRUE, TRUE))

-----------------------------------------------------------------------------
(* Maps from strings to integers.  They are never collected. *)

Handle(type, h) == [t |-> type, p |-> NoPtr, n |-> h]

MAP_BUILDER_NEW ==
    Execute("mapNew", <<>>, LAMBDA m, o :
        CASE Len(m.maps) = MapCapacity -> Fail(m, "pressure")
          [] m.fault = "denied"        -> Fail(m, "AIVMM006")
          [] m.fault = "workspace"     -> Fail(m, "pressure")
          [] OTHER -> Push([m EXCEPT !.maps = Append(@, NewMap)], Handle("mapBuilder", Len(m.maps) + 1)))

\* Room is made before it is known whether the key is new, and then the key is copied.
aivm_vm_map_builder_put_string_int(m, h, key, value) ==
    LET map == m.maps[h]
        roomy == IF Crowding(map) THEN map_resize(map, 2 * Len(map.slots)) ELSE map
    IN  CASE map.frozen -> Fail(m, "type")
          [] Crowding(map) /\ m.fault = "denied"    -> Fail(m, "AIVMM006")
          [] Crowding(map) /\ m.fault = "workspace" -> Fail(m, "pressure")
          [] Get(roomy, key) = <<>> /\ m.fault = "snapshot" -> Fail([m EXCEPT !.maps[h] = roomy], "pressure")
          [] OTHER -> Push([m EXCEPT !.maps[h] = Put(roomy, key, value)], Handle("mapBuilder", h))

MAP_BUILDER_PUT_STRING_INT ==
    \E value \in vm.program.ints :
        Execute("mapPut", <<"mapBuilder", "string">>, LAMBDA m, o :
            aivm_vm_map_builder_put_string_int(m, o[1].n, Read(m, o[2].p), value))

\* A builder may be kept elsewhere too: it stays a builder of the map that is now fixed.
MAP_BUILDER_FINISH ==
    Execute("mapFinish", <<"mapBuilder">>, LAMBDA m, o :
        IF m.maps[o[1].n].frozen THEN Fail(m, "type")
        ELSE Push([m EXCEPT !.maps[o[1].n].frozen = TRUE], Handle("map", o[1].n)))

MAP_COUNT == Execute("mapCount", <<"map">>, LAMBDA m, o : Push(m, Num(m.maps[o[1].n].count)))

MAP_HAS_STRING ==
    Execute("mapHas", <<"map", "string">>, LAMBDA m, o :
        Push(m, [Handle("bool", 0) EXCEPT !.n = Len(Get(m.maps[o[1].n], Read(m, o[2].p)))]))

MAP_GET_STRING_INT_OR ==
    \E fallback \in vm.program.ints :
        Execute("mapGet", <<"map", "string">>, LAMBDA m, o :
            Push(m, Num((Get(m.maps[o[1].n], Read(m, o[2].p)) \o <<fallback>>)[1])))

-----------------------------------------------------------------------------
(* System calls. *)

is_syscall_target_string(s) == Len(s) >= 4 /\ SubSeq(s, 1, 4) = <<115, 121, 115, 46>>

NameChars == 97..122 \cup 65..90 \cup 48..57 \cup {46, 95}

\* where the last target name that reaches the end of s starts, -1 when none does
find_syscall_suffix_target(s) ==
    Max({-1} \cup {i \in 0..(Len(s) - 5) :
                     /\ is_syscall_target_string(Slice(s, i, Len(s)))
                     /\ ToSet(Slice(s, i + 4, Len(s))) \subseteq NameChars})

\* what a value is to someone who looks through its pointers
ValueOf(m, v) ==
    LET Flat(t, x) == [t |-> t, x |-> x, sub |-> <<>>]
        Plain(w) == CASE w.t = "string" -> Flat("string", Read(m, w.p))
                      [] w.t = "bytes"  -> Flat("bytes", ReadBytes(m, w))
                      [] w.t \in {"int", "bool", "mapBuilder", "map"} -> Flat(w.t, <<w.n>>)
                      [] w.t = "node"   -> [t |-> "node", x |-> <<>>,
                                            sub |-> [i \in 1..4 |-> Flat("string", Read(m, m.node[i]))]]
                      [] OTHER          -> Flat("none", <<>>)
    IN  IF v.t = "pair" THEN [t |-> "pair", x |-> <<>>, sub |-> <<Plain(m.pair[1]), Plain(m.pair[2])>>]
        ELSE Plain(v)

materialize_syscall_result(m, r) ==
    CASE r.t = "string" -> push_string_copy(CopyText(m, r.x))
      [] r.t = "bytes"  -> push_bytes_copy(m, r.x)
      [] OTHER          -> Push(m, Num(r.x[1]))

\* Contract, policy, binding, handler, in this order; the time limit is looked at when
\* the handler has already done its work.
aivm_syscall_dispatch_checked_with_policy(m, target, args, answer, late) ==
    LET contract == {c \in m.program.contracts : c.target = target}
        c == CHOOSE x \in contract : TRUE
        asked == [m EXCEPT !.called = <<[t |-> "string", x |-> target, sub |-> <<>>]>>
                                        \o [i \in 1..Len(args) |-> ValueOf(m, args[i])]]
    IN  CASE contract = {}                                       -> Fail(m, "AIVMS004")
          [] [i \in 1..Len(args) |-> args[i].t] # c.args         -> Fail(m, "AIVMS004")
          [] c.group \notin m.program.allowed                    -> Fail(m, "AIVMS008")
          [] target \notin m.program.bound                       -> Fail(m, "AIVMS006")
          [] late /\ target \notin m.program.untimed             -> Fail(asked, "AIVMS007")
          [] answer.t = "failure"                                -> Fail(asked, "AIVMS001")
          [] answer.t # c.ret                                    -> Fail(asked, "AIVMS005")
          [] OTHER                                               -> materialize_syscall_result(asked, answer)

\* A target that string interpolation cut in two is put together again: merged is the
\* argument with the text before the target's name, suffix that name.  The compaction
\* that room for suffix may take does not know of merged.
Recovered(merged, suffix, answer, late) ==
    LET Call(copied) ==
          IF copied[2] = NoPtr THEN copied[1]
          ELSE aivm_syscall_dispatch_checked_with_policy(copied[1], suffix, <<Str(merged[2])>>, answer, late)
    IN  IF merged[2] = NoPtr THEN merged[1] ELSE Call(CopyText(merged[1], suffix))

\* The copy of an argument that lies in the arena ends before the target's name.
call_sys_with_arity(m, target, args, answer, late) ==
    LET name == Read(m, target.p)
        text == Read(m, args[1].p)
        cut == find_syscall_suffix_target(text)
        recoverable == /\ Len(args) = 1 /\ args[1].t = "string"
                       /\ SubSeq(name, 1, Min({3, Len(name)})) = <<115, 121, 115>>
                       /\ cut >= 0
    IN  CASE target.t # "string" -> Fail(m, "type")
          [] is_syscall_target_string(name) ->
               aivm_syscall_dispatch_checked_with_policy(m, name, args, answer, late)
          [] recoverable /\ SnapshotRefused(m, {target.p, args[1].p}) -> m
          [] recoverable ->
               Recovered(aivm_string_arena_alloc(m, name \o Slice(text, 0, cut)),
                         IF aivm_pointer_in_string_arena(m, args[1].p) THEN EmptyText
                                                                      ELSE Slice(text, cut, Len(text)),
                         answer, late)
          [] OTHER -> Fail(m, "AIVMS003")

CALL_SYS ==
    \E k \in 0..1, answer \in vm.program.results, late \in vm.program.late :
        Execute("sys", SubSeq(<<"any", "any">>, 1, k + 1), LAMBDA m, o :
            call_sys_with_arity(m, o[1], SubSeq(o, 2, k + 1), answer, late))

-----------------------------------------------------------------------------
(* Blobs: bytes the embedder parks outside the arenas. *)

find_blob(handle) == {i \in 1..BlobCapacity : vm.blobs[i].handle = handle}

\* refused when every slot is taken, when the bytes exceed the limit, and when the host
\* has no memory: all without a trace
aivm_blob_create ==
    /\ "blob" \in vm.program.ops /\ vm.next <= MaxHandle
    /\ \E data \in ToSet(vm.program.bytes) :
         /\ find_blob(0) # {}
         /\ vm.used + Len(data) <= BlobBytes
         /\ vm' = [vm EXCEPT !.blobs[Min(find_blob(0))] = [handle |-> vm.next, data |-> data],
                             !.next = @ + 1, !.used = @ + Len(data), !.answer = <<>>]

\* A read past the end is empty, one that reaches past it is cut.
aivm_blob_read ==
    /\ "blob" \in vm.program.ops
    /\ \E handle \in 1..vm.next, offset, length \in 0..2 :
         LET blob == find_blob(handle)
             data == IF blob = {} THEN <<>> ELSE vm.blobs[Min(blob)].data
         IN  vm' = [vm EXCEPT !.answer = <<handle, offset, length, blob # {},
                        IF offset >= Len(data) THEN <<>> ELSE Slice(data, offset, Min({offset + length, Len(data)}))>>]

aivm_blob_release ==
    /\ "blob" \in vm.program.ops
    /\ \E handle \in 1..vm.next : \E i \in find_blob(handle) :
         vm' = [vm EXCEPT !.blobs[i] = NoBlob,
                          !.used = IF @ >= Len(vm.blobs[i].data) THEN @ - Len(vm.blobs[i].data) ELSE 0,
                          !.answer = <<>>]

aivm_reset_state ==
    /\ vm.status # "running" \/ "blob" \in vm.program.ops
    /\ vm' = Fresh(vm.program)

-----------------------------------------------------------------------------
TextStep ==
    \/ CONST \/ Hold \/ Recall \/ Drop \/ EQ \/ VALUE_KIND
    \/ STR_CONCAT \/ TO_STRING \/ STR_ESCAPE \/ STR_SUBSTRING \/ STR_REMOVE \/ STR_FIND
    \/ STR_FROM_CODEPOINT \/ STR_DECODE_UNICODE_HEX4 \/ STR_DECODE_UNICODE_SURROGATE_PAIR_HEX4
    \/ STR_UTF8_BYTE_COUNT \/ STR_SCALAR_LENGTH

BytesStep1 ==
    \/ BYTES_LENGTH \/ BYTES_AT \/ BYTES_SLICE \/ BYTES_CONCAT \/ BYTES_FROM_UTF8_STRING
    \/ BYTES_TO_UTF8_STRING \/ BYTES_FROM_BASE64 \/ BYTES_TO_BASE64 \/ BYTES_FROM_BYTE
    \/ BYTES_U32_LE \/ BYTES_I64_LE

ObjectStep ==
    \/ MAKE_PAIR \/ PAIR_FIRST \/ PAIR_SECOND
    \/ MAKE_LIT_STRING \/ NODE_KIND \/ NODE_ID \/ ATTR_COUNT \/ ATTR_KEY \/ ATTR_VALUE_STRING
    \/ ReturnSafePoint \/ aivm_collect_safe_point \/ CALL_SYS

MapStep ==
    \/ MAP_BUILDER_NEW \/ MAP_BUILDER_PUT_STRING_INT \/ MAP_BUILDER_FINISH
    \/ MAP_COUNT \/ MAP_HAS_STRING \/ MAP_GET_STRING_INT_OR

BlobStep == aivm_blob_create \/ aivm_blob_read \/ aivm_blob_release \/ aivm_reset_state

Next == TextStep \/ BytesStep1 \/ ObjectStep \/ MapStep \/ BlobStep

Spec == Init /\ [][Next]_vm

-----------------------------------------------------------------------------
(* Properties. *)

Values ==
    INSTANCE TextValues WITH
        program <- vm.program,
        status <- vm.status,
        stack <- [i \in 1..Len(vm.stack) |-> ValueOf(vm, vm.stack[i])],
        held <- [h \in DOMAIN vm.held |-> ValueOf(vm, vm.held[h])],
        called <- vm.called,
        maps <- [h \in 1..Len(vm.maps) |-> [entries |-> Entries(vm.maps[h]), frozen |-> vm.maps[h].frozen]],
        blobs <- [h \in 1..(vm.next - 1) |->
                    [live |-> find_blob(h) # {},
                     data |-> IF find_blob(h) = {} THEN <<>> ELSE vm.blobs[Min(find_blob(h))].data]],
        answer <- vm.answer

\* Every instruction computes on texts and bytes as if they were values: sharing equal
\* texts through the index, the offset cache, growing and compacting the arenas, and
\* copying operands out before room is made never show (aivm_vm_string_copy.c,
\* aivm_vm_arena.c, aivm_compact_string_arena and the opcode cases of aivm_vm.c).
ImplementsTextValues == Values!Spec

\* A string operation is refused for want of room only when the texts that are still in
\* use, each counted once, and the new text really exceed the arena, or when the host
\* refused to let the arena grow (aivm_string_arena_alloc, aivm_string_arena_reserve).
StringsRefusedOnlyWhenFull ==
    vm.refused # <<>> => vm.refused[1] + vm.refused[2] > vm.program.strings \/ vm.refused[3] = 1

\* SPEC/MEMORY.md:77 of string compaction: it must "leave no live VM pointer referencing
\* discarded arena storage".  The arguments a host handler is called with are live
\* (call_sys_with_arity).
ArgumentsAreLive == \A i \in DOMAIN vm.called : vm.called[i].x # Garbage

\* Whoever may still be read points at the start of a text or at bytes inside the arena
\* that is in use now (aivm_compact_string_arena, aivm_compact_bytes_arena and
\* aivm_vm_create_node_record).
RootsAreLive ==
    vm.status = "running" =>
      /\ \A p \in ToSet(RootPointers(vm)) :
           p[1] = "arena" => p[3] = vm.base /\ p[2] \in Starts(vm.text)
      /\ \A v \in ToSet(RootValues(vm)) :
           v.p[1] = "heap" => v.p[3] = vm.heapbase /\ v.p[2] + v.n <= Len(vm.heap)

=============================================================================
