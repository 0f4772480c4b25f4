------------------------------- MODULE NodeGC -------------------------------
(***************************************************************************)
(* The node arena of one AiVM virtual machine and its compacting collector *)
(* (aivm_vm_node_gc.c, aivm_vm_node_create.c, aivm_vm_node_builder.c,      *)
(* aivm_vm_node_arena.c) with the scratch-pair arena (aivm_vm.c) and the   *)
(* opcodes that hold node and pair handles.                                *)
(*                                                                         *)
(* A handle is a 1-based index of an arena, so compaction changes what     *)
(* every handle means and has to rewrite each one the VM holds.  The model *)
(* gives every node and pair a birth number and every handle the birth of  *)
(* the object it was issued for (both are ghosts: no guard reads them); a  *)
(* handle is intact while the object it designates has that birth.         *)
(*                                                                         *)
(* One opcode may create several nodes, each creation collecting, so the   *)
(* state is one record that an opcode threads through its calls.  Kinds,   *)
(* ids and attributes are left out: they are copied with their node.       *)
(* Completed task results are roots marked and rewritten by the same loops *)
(* as the parallel values.  A failed compaction leaves the VM stopped.     *)
(* exposed and skipped are history: a compaction has struck an opcode that *)
(* held handles outside the roots; a store has passed over an unset local. *)
(***************************************************************************)
EXTENDS Integers, Sequences, FiniteSets, SequencesExt

CONSTANTS
    NodeCapacity,      \* initial node_capacity
    ChildCapacity,     \* initial node_child_capacity
    PairCapacity,      \* AIVM_VM_SCRATCH_PAIR_CAPACITY
    BuilderCapacity,   \* AIVM_VM_NODE_BUILDER_CAPACITY
    GcInterval,        \* AIVM_VM_NODE_GC_INTERVAL_ALLOCATIONS
    ReturnInterval,    \* AIVM_VM_NODE_GC_RETURN_SAFEPOINT_ALLOCATIONS
    Programs,          \* programs: the opcodes each one uses, whether it runs
                       \* under AIVM_RUNTIME_PROFILE_TOOLING, and, bounds,
                       \* how many locals it has and objects it creates
    StackBound,        \* bound: values on the stack, and on the par stack
    GrowthBound        \* bound: node capacity the host still grants

ASSUME NodeGCAssumption ==
    /\ {NodeCapacity, ChildCapacity, PairCapacity, BuilderCapacity,
        GcInterval, ReturnInterval, StackBound, GrowthBound} \subseteq Nat
    /\ NodeCapacity > 0
    /\ \A p \in Programs : p.tooling \in BOOLEAN /\ {p.locals, p.births} \subseteq Nat

VARIABLE vm
-----------------------------------------------------------------------------
(***************************************************************************)
(* Handles and values.                                                     *)
(***************************************************************************)
Plain == [t |-> "plain", h |-> 0, b |-> 0]
NodeValue(h, b) == [t |-> "node", h |-> h, b |-> b]
PairValue(h, b) == [t |-> "pair", h |-> h, b |-> b]
BuilderValue(h) == [t |-> "builder", h |-> h, b |-> 0]

Failed(m, why) == [m EXCEPT !.error = why]

PushValue(m, v) == [m EXCEPT !.stack = Append(@, v)]
Drop(m, n) == [m EXCEPT !.stack = SubSeq(@, 1, Len(@) - n)]
Operand(m, n) == m.stack[Len(m.stack) - n]

\* The value arrays every marking loop starts from; of the locals array, the
\* first locals_count slots.
LocalsInUse(m) == SubSeq(m.locals, 1, m.localsCount)
RootValues(m) == ToSet(m.stack) \union ToSet(LocalsInUse(m)) \union ToSet(m.par)

Handles(values, type) == {v.h : v \in {u \in values : u.t = type}}

ChildTotal(m) ==
    LET upTo[i \in 0..Len(m.nodes)] ==
          IF i = 0 THEN 0 ELSE upTo[i - 1] + Len(m.nodes[i].children)
    IN  upTo[Len(m.nodes)]
-----------------------------------------------------------------------------
(***************************************************************************)
(* Marking.                                                                *)
(***************************************************************************)
\* The records reached from the handles in start; below gives the handles that
\* each record holds.  A handle that is not that of a record is passed over.
Marked(start, below) ==
    LET here == DOMAIN below
        reached[i \in 0..Cardinality(here)] ==
          IF i = 0 THEN start \intersect here
          ELSE LET known == reached[i - 1]
               IN  known \union ((UNION {below[h] : h \in known}) \intersect here)
    IN  reached[Cardinality(here)]

FieldsOf(pair) == {pair.first, pair.second}
PairFields(m, handles) == UNION {FieldsOf(m.pairs[p]) : p \in handles}

LivePairs(m) ==
    Marked(Handles(RootValues(m), "pair"),
           [p \in DOMAIN m.pairs |-> Handles(FieldsOf(m.pairs[p]), "pair")])

\* mark_live_scratch_pair_value refuses a handle that is not that of a pair.
PairMarkFails(m) ==
    ~(Handles(RootValues(m) \union PairFields(m, LivePairs(m)), "pair") \subseteq DOMAIN m.pairs)

BuilderChildren(m) ==
    UNION {ToSet(m.builders[i].children) : i \in {j \in DOMAIN m.builders : m.builders[j].active}}

NodeRoots(m, extra) ==
    {m.argv} \union Handles(RootValues(m), "node")
             \union Handles(PairFields(m, LivePairs(m)), "node")
             \union {c.h : c \in BuilderChildren(m) \union ToSet(extra)}

\* ENQUEUE_HANDLE ignores a handle that is not that of an existing node.
LiveNodes(m, extra) ==
    Marked(NodeRoots(m, extra),
           [h \in DOMAIN m.nodes |-> {c.h : c \in ToSet(m.nodes[h].children)}])
-----------------------------------------------------------------------------
(***************************************************************************)
(* Compaction.                                                             *)
(***************************************************************************)
\* handle_map / pair_map: the live handles renumbered in order, 0 for the others.
HandleMap(live, top) ==
    [h \in 1..top |-> IF h \in live THEN Cardinality({g \in live : g <= h}) ELSE 0]

Mapped(map, h) == IF h \in DOMAIN map THEN map[h] ELSE 0

\* The records that stay, in the order of their new handles.
Kept(records, map) ==
    [k \in 1..Cardinality({h \in DOMAIN map : map[h] # 0}) |->
        records[CHOOSE h \in DOMAIN map : map[h] = k]]

RemapValue(v, type, map) == IF v.t = type THEN [v EXCEPT !.h = Mapped(map, @)] ELSE v
RemapValues(s, type, map) == [i \in DOMAIN s |-> RemapValue(s[i], type, map)]
RemapPair(p, type, map) == [p EXCEPT !.first = RemapValue(@, type, map),
                                     !.second = RemapValue(@, type, map)]
RemapLocals(m, type, map) ==
    RemapValues(LocalsInUse(m), type, map) \o SubSeq(m.locals, m.localsCount + 1, Len(m.locals))

\* aivm_vm_remap_child_handles_for_compaction: 0 marks the handle it rejects.
RemapChildren(children, map) == [i \in DOMAIN children |-> [children[i] EXCEPT !.h = Mapped(map, @)]]
Rejected(refs) == \E r \in refs : r.h = 0

\* A dead pair keeps whatever handles it had.
RewrittenPairs(m, map) ==
    [p \in DOMAIN m.pairs |->
        IF p \in LivePairs(m) THEN RemapPair(m.pairs[p], "node", map) ELSE m.pairs[p]]

RewrittenBuilders(m, map) ==
    [i \in DOMAIN m.builders |->
        IF m.builders[i].active
        THEN [m.builders[i] EXCEPT !.children = RemapChildren(@, map)] ELSE m.builders[i]]

\* Faulty variant: locals keep the handles they had before the compaction.
RewriteRootsNotLocals(m, map) ==
    [m EXCEPT !.stack = RemapValues(@, "node", map),
              !.par = RemapValues(@, "node", map),
              !.pairs = RewrittenPairs(m, map),
              !.builders = RewrittenBuilders(m, map),
              !.argv = Mapped(map, @)]

RewriteRoots(m, map) ==
    [m EXCEPT !.stack = RemapValues(@, "node", map),
              !.locals = RemapLocals(m, "node", map),
              !.par = RemapValues(@, "node", map),
              !.pairs = RewrittenPairs(m, map),
              !.builders = RewrittenBuilders(m, map),
              !.argv = Mapped(map, @)]

RootsRejected(m) ==
    \/ m.argv = 0
    \/ 0 \in Handles(RootValues(m), "node")
    \/ 0 \in Handles(PairFields(m, LivePairs(m)), "node")
    \/ Rejected(BuilderChildren(m))

\* aivm_vm_compact_node_arenas_with_map, and the map it hands out.
NodeMap(m, extra) == HandleMap(LiveNodes(m, extra), Len(m.nodes))

RemappedNodes(m, map) ==
    [h \in DOMAIN m.nodes |-> [m.nodes[h] EXCEPT !.children = RemapChildren(@, map)]]

CheckRoots(m) == IF RootsRejected(m) THEN Failed(m, "root handle") ELSE m

CompactNodes(m, extra, map) ==
    CASE PairMarkFails(m) -> Failed(m, "pair handle")
      [] \E c \in ToSet(extra) : c.h > Len(m.nodes) -> Failed(m, "extra handle")
      [] \E n \in ToSet(Kept(RemappedNodes(m, map), map)) : Rejected(ToSet(n.children)) ->
           Failed(m, "dangling child")
      [] OTHER -> CheckRoots(RewriteRoots([m EXCEPT !.nodes = Kept(RemappedNodes(m, map), map)], map))

\* aivm_vm_compact_scratch_pairs.
CompactPairs(m, map) ==
    [m EXCEPT !.pairs = Kept([p \in DOMAIN @ |-> RemapPair(@[p], "pair", map)], map),
              !.stack = RemapValues(@, "pair", map),
              !.locals = RemapLocals(m, "pair", map),
              !.par = RemapValues(@, "pair", map)]

PairPhase(m) ==
    IF m.error # "" THEN m
    ELSE CompactPairs([m EXCEPT !.since = 0], HandleMap(LivePairs(m), Len(m.pairs)))

\* aivm_collect_safe_point (nodes and pairs; strings and bytes hold no handles).
Collect(m) == PairPhase(CompactNodes(m, << >>, NodeMap(m, << >>)))
-----------------------------------------------------------------------------
(***************************************************************************)
(* Creating a node: aivm_vm_create_node_record.                            *)
(***************************************************************************)
Fits(m, kids) ==
    /\ Len(m.nodes) + 1 <= m.capacity
    /\ ChildTotal(m) + Len(kids) <= m.childCapacity

\* aivm_vm_should_attempt_proactive_node_gc.
ShouldCollect(m, kids) ==
    /\ m.since >= GcInterval
    /\ \/ Len(m.nodes) >= m.capacity
       \/ ChildTotal(m) + Len(kids) >= m.childCapacity

\* next_capacity: doubled until the need is met.
Doubled(capacity, needed) ==
    LET size[i \in Nat] == IF i = 0 THEN (IF capacity = 0 THEN 1 ELSE capacity) ELSE 2 * size[i - 1]
    IN  size[CHOOSE i \in 0..needed : size[i] >= needed /\ \A j \in 0..(i - 1) : size[j] < needed]

\* aivm_vm_try_grow_node_arenas succeeds: the profile allows it and either
\* nothing has to grow or the host has the memory.
CanGrow(m, nodeNeed, childNeed, memory) ==
    /\ m.program.tooling
    /\ \/ nodeNeed <= m.capacity /\ childNeed <= m.childCapacity
       \/ memory /\ Doubled(m.capacity, nodeNeed) <= GrowthBound

Grown(m, nodeNeed, childNeed) ==
    [m EXCEPT !.capacity = Doubled(@, nodeNeed), !.childCapacity = Doubled(@, childNeed)]

\* One compaction on behalf of a creation in progress.  c.kids is the child
\* array that was passed in; when it is a builder's own array (c.owner # 0)
\* the compaction has rewritten it before it is mapped here.
ChildrenMapped(c, n, map) ==
    RemapChildren(IF c.owner = 0 THEN c.kids ELSE n.builders[c.owner].children, map)

CreationAfter(c, n, map) ==
    CASE n.error # "" -> [c EXCEPT !.m = n]
      [] n.error = "" /\ Rejected(ToSet(ChildrenMapped(c, n, map))) ->
           [c EXCEPT !.m = Failed(n, "child remap")]
      [] OTHER -> [m |-> [n EXCEPT !.since = 0], kids |-> ChildrenMapped(c, n, map), owner |-> 0]

CompactWithMap(c, map) == CreationAfter(c, CompactNodes(c.m, c.kids, map), map)
CompactForCreation(c) == CompactWithMap(c, NodeMap(c.m, c.kids))

\* Faulty variant: a full arena is reported before compaction was attempted.
RoomWithoutCompaction(c, memory) ==
    IF Fits(c.m, c.kids) THEN c
    ELSE [c EXCEPT !.m = Failed([c.m EXCEPT !.asked = c.kids], "capacity")]

Settled(c) == c.m.error # "" \/ Fits(c.m, c.kids)

\* The three attempts of aivm_vm_create_node_record: collect ahead of need,
\* unless the arena may grow; compact when there is no room; refuse.
CollectAhead(c, memory) ==
    LET nodeNeed  == Len(c.m.nodes) + 1
        childNeed == ChildTotal(c.m) + Len(c.kids)
    IN  CASE ~ShouldCollect(c.m, c.kids) -> c
          [] ShouldCollect(c.m, c.kids) /\ CanGrow(c.m, nodeNeed, childNeed, memory) ->
               [c EXCEPT !.m = Grown(c.m, nodeNeed, childNeed)]
          [] OTHER -> CompactForCreation(c)

CompactIfFull(c) == IF Settled(c) THEN c ELSE CompactForCreation(c)

RefuseIfFull(c) ==
    IF Settled(c) THEN c ELSE [c EXCEPT !.m = Failed([c.m EXCEPT !.asked = c.kids], "capacity")]

\* The creation with room made for it, or failed.
Room(c, memory) == RefuseIfFull(CompactIfFull(CollectAhead(c, memory)))

\* The new node is the last of the arena.
AddNode(c) ==
    IF c.m.error # "" THEN c.m
    ELSE [c.m EXCEPT !.nodes = Append(@, [birth |-> c.m.births + 1, children |-> c.kids]),
                     !.since = @ + 1,
                     !.births = @ + 1]

CreateFor(m, kids, owner, memory) ==
    AddNode(Room([m |-> m, kids |-> kids, owner |-> owner], memory))

Create(m, kids, memory) == CreateFor(m, kids, 0, memory)

\* The handle aivm_vm_create_node_record returned in m.
Newest(m) == [h |-> Len(m.nodes), b |-> m.births]
PushNewest(m) ==
    IF m.error # "" THEN m ELSE PushValue(m, NodeValue(Newest(m).h, Newest(m).b))

\* create_runtime_node_from_value: a node value is its own node, any other
\* value becomes a fresh leaf.
NodeFromValue(m, v, memory) == IF v.t = "node" THEN m ELSE Create(m, <<>>, memory)
NodeOfValue(m, v) == IF v.t = "node" THEN [h |-> v.h, b |-> v.b] ELSE Newest(m)
-----------------------------------------------------------------------------
(***************************************************************************)
(* The opcodes.  Each is applied to operands of the types it requires; an  *)
(* operand of another type, or a handle beyond its arena, stops the VM     *)
(* with a type error.                                                      *)
(***************************************************************************)
\* After aivm_vm_initialize_process_argv_node with one argument: the argv
\* block has handle 1 and was given its child's handle ahead of the child.
Init ==
    \E p \in Programs :
    vm = [program |-> p,
          nodes |-> << [birth |-> 1, children |-> << [h |-> 2, b |-> 2] >>],
                       [birth |-> 2, children |-> << >>] >>,
          argv |-> 1,
          capacity |-> NodeCapacity, childCapacity |-> ChildCapacity,
          since |-> 2, births |-> 2,
          stack |-> << >>, locals |-> [i \in 1..p.locals |-> Plain], localsCount |-> 0,
          par |-> << >>, pairs |-> << >>,
          builders |-> [i \in 1..BuilderCapacity |-> [active |-> FALSE, children |-> << >>]],
          asked |-> << >>, exposed |-> FALSE, skipped |-> FALSE, error |-> ""]

Can(opcode) == vm.error = "" /\ opcode \in vm.program.uses
MayCreate == vm.births < vm.program.births
HasRoom(n) == Len(vm.stack) + n <= StackBound
Designates(v) == /\ v.t = "node" => v.h \in DOMAIN vm.nodes
                 /\ v.t = "pair" => v.h \in DOMAIN vm.pairs
Top(n, type) ==
    Len(vm.stack) > n /\ Operand(vm, n).t = type /\ Designates(Operand(vm, n))

PushPlain ==
    /\ Can("PUSH") /\ HasRoom(1)
    /\ vm' = PushValue(vm, Plain)

\* The process-argument syscall of the hosts answers with the literal handle 1.
PushArgv ==
    /\ Can("ARGV") /\ HasRoom(1)
    /\ vm' = PushValue(vm, NodeValue(1, 1))

PopValue ==
    /\ Can("POP") /\ Len(vm.stack) > 0
    /\ vm' = Drop(vm, 1)

\* A slot above the count brings the slots below it into use as they are.
StoreLocal ==
    /\ Can("STORE_LOCAL") /\ Len(vm.stack) > 0
    /\ \E i \in DOMAIN vm.locals :
         vm' = [Drop(vm, 1) EXCEPT !.locals[i] = Operand(vm, 0),
                                   !.skipped = @ \/ i > vm.localsCount + 1,
                                   !.localsCount = IF i > @ THEN i ELSE @]

LoadLocal ==
    /\ Can("LOAD_LOCAL") /\ HasRoom(1)
    /\ \E i \in 1..vm.localsCount : vm' = PushValue(vm, vm.locals[i])

\* A CALL in front of a RET: the arguments move down over the operands of the
\* frame, and its locals go out of use.
TailCall ==
    /\ Can("CALL")
    /\ \E base \in 0..Len(vm.stack), argc \in 0..Len(vm.stack), kept \in 0..vm.localsCount :
         /\ base + argc <= Len(vm.stack)
         /\ vm' = [vm EXCEPT !.stack = SubSeq(@, 1, base) \o SubSeq(@, Len(@) - argc + 1, Len(@)),
                             !.localsCount = kept]

\* A node without children.  Its strings are pushed just before and are not shown.
PushLeaf(memory) ==
    /\ HasRoom(1) /\ MayCreate
    /\ vm' = PushNewest(Create(vm, << >>, memory))

MakeBlock(memory) == Can("MAKE_BLOCK") /\ PushLeaf(memory)
MakeErr(memory) == Can("MAKE_ERR") /\ PushLeaf(memory)
MakeLit(memory) == Can("MAKE_LIT") /\ PushLeaf(memory)
MakeNodeEmpty(memory) == Can("MAKE_NODE_EMPTY") /\ PushLeaf(memory)

ChildAt ==
    /\ Can("CHILD_AT") /\ Top(0, "node")
    /\ \E i \in DOMAIN vm.nodes[Operand(vm, 0).h].children :
         LET c == vm.nodes[Operand(vm, 0).h].children[i]
         IN  vm' = PushValue(Drop(vm, 1), NodeValue(c.h, c.b))

\* Faulty variant: the child appended is not protected during the creation.
AddLater(m, child) ==
    IF m.error # "" THEN m
    ELSE PushNewest([m EXCEPT !.nodes[Len(m.nodes)].children =
                                Append(@, [h |-> child.h, b |-> child.b])])
AppendChildUnprotected(memory) ==
    /\ Can("APPEND_CHILD") /\ Top(0, "node") /\ Top(1, "node") /\ MayCreate
    /\ vm' = AddLater(Create(Drop(vm, 2), vm.nodes[Operand(vm, 1).h].children, memory),
                      Operand(vm, 0))

AppendChild(memory) ==
    /\ Can("APPEND_CHILD") /\ Top(0, "node") /\ Top(1, "node") /\ MayCreate
    /\ LET base  == Operand(vm, 1)
           child == Operand(vm, 0)
           kids  == Append(vm.nodes[base.h].children, [h |-> child.h, b |-> child.b])
       IN  vm' = IF Len(kids) > vm.childCapacity THEN Failed(vm, "program")
                 ELSE PushNewest(Create(Drop(vm, 2), kids, memory))

AppendAttr(memory) ==
    /\ Can("APPEND_ATTR") /\ Top(0, "node") /\ Top(1, "node") /\ MayCreate
    /\ vm' = PushNewest(Create(Drop(vm, 2), vm.nodes[Operand(vm, 1).h].children, memory))

FieldOf(m, v, memory) ==
    IF m.error # "" THEN m ELSE PushNewest(Create(m, << NodeOfValue(m, v) >>, memory))

MakeFieldString(memory) ==
    /\ Can("MAKE_FIELD_STRING") /\ Len(vm.stack) > 0 /\ MayCreate
    /\ vm' = FieldOf(NodeFromValue(Drop(vm, 1), Operand(vm, 0), memory), Operand(vm, 0), memory)

\* Handles outside the roots that were taken in m are out of date in n.
Moved(m, n) == ~IsPrefix(m.nodes, n.nodes)
Expose(m, stale) == [m EXCEPT !.exposed = @ \/ stale]

\* The loops that make nodes of values keep their handles in an array of the C
\* frame.  c is a loop so far: the VM and the handles; n is the VM with the
\* node of one more value v.
WithChild(c, v, n, front) ==
    [m |-> Expose(n, c.kids # << >> /\ Moved(c.m, n)),
     kids |-> IF front THEN << NodeOfValue(n, v) >> \o c.kids
                       ELSE Append(c.kids, NodeOfValue(n, v))]

PopChild(c, memory) ==
    IF c.m.error # "" THEN c
    ELSE WithChild(c, Operand(c.m, 0),
                   NodeFromValue(Drop(c.m, 1), Operand(c.m, 0), memory), TRUE)

ChildrenFromStack(m, n, memory) ==
    LET loop[i \in 0..n] ==
          IF i = 0 THEN [m |-> m, kids |-> << >>] ELSE PopChild(loop[i - 1], memory)
    IN  loop[n]

CreateOver(c, memory) == IF c.m.error # "" THEN c.m ELSE Create(c.m, c.kids, memory)

ComposeFromStack(m, n, memory) ==
    PushNewest(CreateOver(ChildrenFromStack(m, n, memory), memory))

MakeNode(memory) ==
    /\ Can("MAKE_NODE") /\ Top(0, "node") /\ MayCreate
    /\ \E n \in 0..(Len(vm.stack) - 1) : vm' = ComposeFromStack(Drop(vm, 1), n, memory)

MakeMap(memory) ==
    /\ Can("MAKE_MAP") /\ MayCreate
    /\ \E n \in 0..Len(vm.stack) :
         /\ n = 0 => HasRoom(1)
         /\ vm' = ComposeFromStack(vm, n, memory)

ParFork ==
    /\ Can("PAR_FORK") /\ Len(vm.stack) > 0 /\ Len(vm.par) < StackBound
    /\ vm' = [Drop(vm, 1) EXCEPT !.par = Append(@, Operand(vm, 0))]

\* PAR_JOIN of every open branch: the values stay roots while the nodes are
\* made, the array of handles does not.
TakeBranch(c, i, memory) ==
    IF c.m.error # "" THEN c
    ELSE WithChild(c, c.m.par[i], NodeFromValue(c.m, c.m.par[i], memory), FALSE)

BranchNodes(m, memory) ==
    LET loop[i \in 0..Len(m.par)] ==
          IF i = 0 THEN [m |-> m, kids |-> << >>] ELSE TakeBranch(loop[i - 1], i, memory)
    IN  loop[Len(m.par)]

CloseBranches(m) == IF m.error # "" THEN m ELSE PushNewest([m EXCEPT !.par = << >>])

ParJoin(memory) ==
    /\ Can("PAR_JOIN") /\ vm.par # << >> /\ HasRoom(1) /\ MayCreate
    /\ vm' = CloseBranches(CreateOver(BranchNodes(vm, memory), memory))

\* MAKE_PAIR collects, when the pairs are full, before it pops its operands.
StorePair(m) ==
    CASE m.error # "" -> m
      [] m.error = "" /\ Len(m.pairs) >= PairCapacity -> Failed(m, "pair capacity")
      [] OTHER ->
           PushValue([Drop(m, 2) EXCEPT
                        !.pairs = Append(@, [birth |-> m.births + 1, first |-> Operand(m, 1),
                                             second |-> Operand(m, 0)]),
                        !.births = @ + 1],
                     PairValue(Len(m.pairs) + 1, m.births + 1))

MakePair ==
    /\ Can("MAKE_PAIR") /\ Len(vm.stack) >= 2 /\ MayCreate
    /\ vm' = StorePair(IF Len(vm.pairs) >= PairCapacity THEN Collect(vm) ELSE vm)

\* PAIR_FIRST and PAIR_SECOND.
PairField ==
    /\ Can("PAIR_FIELD") /\ Top(0, "pair")
    /\ \E v \in PairFields(vm, {Operand(vm, 0).h}) : vm' = PushValue(Drop(vm, 1), v)

\* NODE_BUILDER_NEW takes the first inactive slot.
BuilderNew ==
    /\ Can("NODE_BUILDER_NEW") /\ HasRoom(1)
    /\ LET free == {i \in DOMAIN vm.builders : ~vm.builders[i].active}
           i    == CHOOSE j \in free : \A k \in free : j <= k
       IN  vm' = IF free = {} THEN Failed(vm, "builder capacity")
                 ELSE PushValue([vm EXCEPT !.builders[i].active = TRUE], BuilderValue(i))

\* A handle whose builder was finished is refused unless the slot was reused.
BuilderAppendChild ==
    /\ Can("NODE_BUILDER_APPEND_CHILD") /\ Top(0, "node") /\ Top(1, "builder")
    /\ LET i == Operand(vm, 1).h
           c == Operand(vm, 0)
       IN  /\ Len(vm.builders[i].children) < StackBound
           /\ vm' = IF ~vm.builders[i].active THEN Failed(vm, "type")
                    ELSE [Drop(vm, 1) EXCEPT !.builders[i].children =
                                               Append(@, [h |-> c.h, b |-> c.b])]

\* The attribute is copied out of its node, which the builder does not hold.
BuilderAppendAttr ==
    /\ Can("NODE_BUILDER_APPEND_ATTR") /\ Top(0, "node") /\ Top(1, "builder")
    /\ vm' = IF ~vm.builders[Operand(vm, 1).h].active THEN Failed(vm, "type") ELSE Drop(vm, 1)

CloseBuilder(m, i) ==
    IF m.error # "" THEN m
    ELSE PushNewest([m EXCEPT !.builders[i] = [active |-> FALSE, children |-> << >>]])

BuilderFinish(memory) ==
    /\ Can("NODE_BUILDER_FINISH") /\ Top(0, "builder") /\ MayCreate
    /\ LET i == Operand(vm, 0).h
           Exposed(m) == Expose(m, Moved(vm, m))
       IN  vm' = IF ~vm.builders[i].active THEN Failed(vm, "type")
                 ELSE CloseBuilder(Exposed(CreateFor(Drop(vm, 1), vm.builders[i].children, i, memory)), i)

\* aivm_vm_should_attempt_return_safe_point.
Pressure(count, capacity) == count >= (capacity \div 4) * 3
ShouldCollectAtReturn(m) ==
    /\ m.since >= ReturnInterval
    /\ m.program.tooling => Pressure(Len(m.nodes), m.capacity) \/ Pressure(ChildTotal(m), m.childCapacity)

\* What aivm_vm_try_grow_pressure_node_arenas asks for.
PressureNeed(count, capacity) == IF Pressure(count, capacity) THEN capacity + 1 ELSE count

\* RET leaves the caller's values and at most one of the frame, which is what
\* the stack holds; the frame's locals go out of use, and a safe point follows
\* once enough was allocated.
Return(memory) ==
    /\ Can("RET")
    /\ \E base \in 0..vm.localsCount :
         LET m == [vm EXCEPT !.localsCount = base]
             nodeNeed  == PressureNeed(Len(m.nodes), m.capacity)
             childNeed == PressureNeed(ChildTotal(m), m.childCapacity)
         IN  vm' = CASE ~ShouldCollectAtReturn(m) -> m
                     [] ShouldCollectAtReturn(m) /\ CanGrow(m, nodeNeed, childNeed, memory) ->
                          Grown(m, nodeNeed, childNeed)
                     [] OTHER -> Collect(m)

\* aivm_collect_safe_point after a task result was consumed and at the end of
\* a tooling phase.
SafePoint ==
    /\ Can("SAFE_POINT")
    /\ vm' = Collect(vm)

Allocating(memory) ==
    \/ MakeBlock(memory) \/ MakeErr(memory) \/ MakeLit(memory) \/ MakeNodeEmpty(memory)
    \/ AppendChild(memory) \/ AppendAttr(memory)
    \/ MakeFieldString(memory) \/ MakeNode(memory) \/ MakeMap(memory)
    \/ ParJoin(memory) \/ BuilderFinish(memory) \/ Return(memory)

Next ==
    \/ PushPlain \/ PushArgv \/ PopValue \/ StoreLocal \/ LoadLocal \/ TailCall
    \/ ChildAt \/ ParFork \/ MakePair \/ PairField
    \/ BuilderNew \/ BuilderAppendChild \/ BuilderAppendAttr \/ SafePoint
    \/ \E memory \in BOOLEAN : Allocating(memory)

Spec == Init /\ [][Next]_vm
-----------------------------------------------------------------------------
(***************************************************************************)
(* Properties.                                                             *)
(***************************************************************************)
Rejections == {"pair handle", "extra handle", "dangling child", "root handle", "child remap"}
NodeIntact(h, b) == h \in DOMAIN vm.nodes /\ vm.nodes[h].birth = b
PairIntact(h, b) == h \in DOMAIN vm.pairs /\ vm.pairs[h].birth = b
ValueIntact(v) == /\ v.t = "node" => NodeIntact(v.h, v.b)
                  /\ v.t = "pair" => PairIntact(v.h, v.b)

\* Whatever was collected in between, every node or pair handle on the stack,
\* in a local, in a parallel branch, in a live pair or in an open builder still
\* designates the object it was issued for, unless a store has brought an unset
\* local into use, or the program may take a child out of a node that was made of
\* handles out of date.  The argv block keeps handle 1 for the life of the VM:
\* the hosts answer the argv syscall with the literal 1.
RootsIntact ==
    /\ vm.argv = 1 /\ NodeIntact(1, 1)
    /\ (/\ vm.error = "" /\ ~vm.skipped
        /\ ~(vm.exposed /\ "CHILD_AT" \in vm.program.uses)) =>
          /\ \A v \in RootValues(vm) : ValueIntact(v)
          /\ \A v \in PairFields(vm, LivePairs(vm)) : ValueIntact(v)
          /\ \A c \in BuilderChildren(vm) : NodeIntact(c.h, c.b)

\* Every node the program can reach has the children it was built with:
\* node records are immutable, whatever compaction does to their handles.
ChildrenIntact ==
    vm.error = "" =>
        \A h \in LiveNodes(vm, << >>) :
            \A c \in ToSet(vm.nodes[h].children) : NodeIntact(c.h, c.b)

\* As long as no compaction has struck MAKE_NODE, MAKE_MAP or PAR_JOIN between
\* two of their children, or NODE_BUILDER_FINISH, and no unset local came into
\* use, compaction is invisible: every reachable node has its children, and no
\* handle is ever rejected.
CompactionInvisible ==
    ~vm.exposed /\ ~vm.skipped =>
        /\ ChildrenIntact
        /\ vm.error \notin Rejections

\* Creation is refused for want of capacity only after a compaction that kept
\* nothing but what the roots and the creation itself reach; likewise pairs.
RefusedOnlyWhenFull ==
    /\ vm.error = "capacity" =>
         /\ LiveNodes(vm, vm.asked) = DOMAIN vm.nodes
         /\ ~Fits(vm, vm.asked)
    /\ vm.error = "pair capacity" => LivePairs(vm) = DOMAIN vm.pairs
=============================================================================
