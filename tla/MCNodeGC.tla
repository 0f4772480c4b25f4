------------------------------ MODULE MCNodeGC ------------------------------
(***************************************************************************)
(* Small programs for NodeGC: the opcodes that meet in one question.       *)
(***************************************************************************)
EXTENDS NodeGC

\* Nodes that hold nodes, in locals and across calls.
TreeProgram ==
    [uses |-> {"MAKE_BLOCK", "APPEND_CHILD", "CHILD_AT", "APPEND_ATTR",
               "MAKE_FIELD_STRING", "POP", "ARGV", "PUSH", "STORE_LOCAL", "LOAD_LOCAL",
               "CALL", "RET"},
     tooling |-> FALSE, locals |-> 1, births |-> 6]

\* Scratch pairs that hold nodes and pairs.
PairProgram ==
    [uses |-> {"MAKE_ERR", "POP", "STORE_LOCAL", "LOAD_LOCAL", "MAKE_PAIR", "PAIR_FIELD",
               "SAFE_POINT"},
     tooling |-> FALSE, locals |-> 1, births |-> 6]

\* Opcodes that make several nodes, in the profile whose arena grows.
ComposeProgram ==
    [uses |-> {"MAKE_NODE_EMPTY", "PUSH", "POP", "MAKE_NODE", "MAKE_MAP", "PAR_FORK", "PAR_JOIN",
               "NODE_BUILDER_NEW", "NODE_BUILDER_APPEND_CHILD", "NODE_BUILDER_APPEND_ATTR",
               "NODE_BUILDER_FINISH", "RET"},
     tooling |-> TRUE, locals |-> 0, births |-> 5]

\* The same, and the children are taken out again.
TakeOutProgram == [ComposeProgram EXCEPT !.uses = @ \union {"CHILD_AT"}]

\* Locals that come into and go out of use, in any order.
LocalsProgram ==
    [uses |-> {"MAKE_LIT", "MAKE_PAIR", "STORE_LOCAL", "LOAD_LOCAL", "RET", "SAFE_POINT"},
     tooling |-> FALSE, locals |-> 2, births |-> 5]

MCPrograms == {TreeProgram, PairProgram, LocalsProgram, ComposeProgram, TakeOutProgram}

\* MAKE_MAP without other opcodes that hold handles outside the roots.
MapPrograms == {[uses |-> {"MAKE_BLOCK", "PUSH", "POP", "MAKE_MAP"}, tooling |-> FALSE, locals |-> 1, births |-> 6]}
=============================================================================
