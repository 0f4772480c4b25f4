------------------------------- MODULE Aibc1 -------------------------------
(***************************************************************************)
(* The program file format: the writer of the ailang command               *)
(* (write_program_as_aibc1_file) and the loader of the virtual machine     *)
(* (aivm_program_load_aibc1), byte by byte.                                *)
(*                                                                         *)
(* A file is a sequence of bytes; offsets start at 0 as in the code.  The  *)
(* widths of the two integer fields are constants, 4 and 8 in the code:    *)
(* no check depends on their size.  A read past the end of the file gives  *)
(* the byte that happens to lie there.                                     *)
(* Memory for the program is always there, and the section of the worker   *)
(* catalog, which the writer never emits, is skipped.                      *)
(***************************************************************************)
EXTENDS Integers, SequencesExt

CONSTANTS
    Word, Long,          \* bytes of a u32 and of an i64 field
    MaxSections,         \* AIVM_PROGRAM_MAX_SECTIONS
    MaxStringBytes,      \* AIVM_PROGRAM_MAX_STRING_BYTES
    TextBytes,           \* the bytes of each string a program may hold
    Beyond               \* the byte past the end of the file

\* AivmOpcode, in the order of the enumeration.
Opcodes == <<
    "NOP", "HALT", "STUB", "PUSH_INT", "POP", "STORE_LOCAL", "LOAD_LOCAL", "ADD_INT", "JUMP",
    "JUMP_IF_FALSE", "PUSH_BOOL", "CALL", "RET", "EQ_INT", "EQ", "CONST", "STR_CONCAT", "TO_STRING",
    "STR_ESCAPE", "RETURN", "STR_SUBSTRING", "STR_REMOVE", "CALL_SYS", "ASYNC_CALL", "ASYNC_CALL_SYS",
    "AWAIT", "PAR_BEGIN", "PAR_FORK", "PAR_JOIN", "PAR_CANCEL", "STR_UTF8_BYTE_COUNT", "NODE_KIND",
    "NODE_ID", "ATTR_COUNT", "ATTR_KEY", "ATTR_VALUE_KIND", "ATTR_VALUE_STRING", "ATTR_VALUE_INT",
    "ATTR_VALUE_BOOL", "CHILD_COUNT", "CHILD_AT", "MAKE_BLOCK", "APPEND_CHILD", "MAKE_ERR",
    "MAKE_LIT_STRING", "MAKE_LIT_INT", "MAKE_LIT_BOOL", "MAKE_NODE", "MAKE_FIELD_STRING", "MAKE_MAP",
    "MAKE_NODE_EMPTY", "APPEND_ATTR", "STR_FIND", "STR_FROM_CODEPOINT", "STR_DECODE_UNICODE_HEX4",
    "STR_DECODE_UNICODE_SURROGATE_PAIR_HEX4", "BYTES_LENGTH", "BYTES_AT", "BYTES_SLICE", "BYTES_CONCAT",
    "BYTES_FROM_UTF8_STRING", "BYTES_TO_UTF8_STRING", "BYTES_FROM_BASE64", "BYTES_TO_BASE64",
    "MAKE_PAIR", "PAIR_FIRST", "PAIR_SECOND", "SUB_NUM", "MUL_NUM", "DIV_NUM", "MOD_NUM", "POW_NUM",
    "LT_NUM", "BYTES_FROM_BYTE", "BYTES_U32_LE", "BYTES_I64_LE", "STR_SCALAR_LENGTH", "VALUE_KIND",
    "NODE_BUILDER_NEW", "NODE_BUILDER_APPEND_CHILD", "NODE_BUILDER_APPEND_ATTR", "NODE_BUILDER_FINISH",
    "MAP_BUILDER_NEW", "MAP_BUILDER_PUT_STRING_INT", "MAP_BUILDER_FINISH", "MAP_COUNT",
    "MAP_HAS_STRING", "MAP_GET_STRING_INT_OR", "WORKER_REF", "WORKER_RUN", "TASK_CANCEL",
    "WORKER_RUN_ALL", "WORKER_TASK_AT" >>

Magic == <<65, 73, 66, 67>>
HeaderSize == 4 + 3 * Word
Instructions == 1
Constants == 2
KindOf == [int |-> 1, bool |-> 2, string |-> 3, void |-> 4, null |-> 6, number |-> 7]

\* Little endian, two's complement.
LittleEndian(n, width) ==
    LET m == IF n < 0 THEN n + 256 ^ width ELSE n
    IN  [i \in 1..width |-> (m \div (256 ^ (i - 1))) % 256]
U32(n) == LittleEndian(n, Word)
I64(n) == LittleEndian(n, Long)

OpcodeNumber(op) == SelectInSeq(Opcodes, LAMBDA o : o = op) - 1

WriteInstruction(i) == U32(OpcodeNumber(i.op)) \o I64(i.arg)

WriteConstant(v) ==
    <<KindOf[v[1]]>> \o
    CASE v[1] \in {"int", "number"} -> I64(v[2])
      [] v[1] = "bool" -> <<IF v[2] THEN 1 ELSE 0>>
      [] v[1] = "string" -> U32(Len(TextBytes[v[2]])) \o TextBytes[v[2]]
      [] OTHER -> << >>

Section(type, count, payload) == U32(type) \o U32(Word + Len(payload)) \o U32(count) \o payload

Write(p) ==
    LET code == Section(Instructions, Len(p.code), FlattenSeq([i \in DOMAIN p.code |-> WriteInstruction(p.code[i])]))
        consts == Section(Constants, Len(p.consts), FlattenSeq([i \in DOMAIN p.consts |-> WriteConstant(p.consts[i])]))
        header(n) == Magic \o U32(2) \o U32(0) \o U32(n)
    IN  IF p.consts = << >> THEN header(1) \o code ELSE header(2) \o code \o consts
-----------------------------------------------------------------------------
Byte(b, at) == IF at < Len(b) THEN b[at + 1] ELSE Beyond

RECURSIVE Digits(_, _, _)
Digits(b, at, width) == IF width = 0 THEN 0 ELSE Byte(b, at) + 256 * Digits(b, at + 1, width - 1)
ReadU32(b, at) == Digits(b, at, Word)
ReadI64(b, at) ==
    LET m == Digits(b, at, Long) IN IF m >= 256 ^ Long \div 2 THEN m - 256 ^ Long ELSE m

Refused(why) == [status |-> why, code |-> << >>, consts |-> << >>]
Blank == [status |-> "OK", code |-> << >>, consts |-> << >>]

LoadInstructions(b, at, size, p) ==
    LET n == ReadU32(b, at)
        first(i) == at + Word + (i - 1) * (Word + Long)
    IN  CASE size < Word -> Refused("INVALID_SECTION")
          [] size # Word + n * (Word + Long) -> Refused("INVALID_SECTION")
          [] \E i \in 1..n : ReadU32(b, first(i)) >= Len(Opcodes) -> Refused("INVALID_OPCODE")
          [] OTHER -> [p EXCEPT !.code = [i \in 1..n |->
                         [op |-> Opcodes[ReadU32(b, first(i)) + 1], arg |-> ReadI64(b, first(i) + Word)]]]

\* The bytes of the payload of a constant that starts at at; -1: unknown kind.
PayloadSize(b, kind, at) ==
    CASE kind \in {1, 7} -> Long
      [] kind = 2 -> 1
      [] kind \in {3, 5} -> Word + ReadU32(b, at)
      [] kind \in {4, 6} -> 0
      [] OTHER -> -1

\* A string or a byte sequence is named by its bytes.
ConstantAt(b, kind, at) ==
    CASE kind \in {1, 7} -> <<IF kind = 1 THEN "int" ELSE "number", ReadI64(b, at)>>
      [] kind = 2 -> <<"bool", Byte(b, at) # 0>>
      [] kind = 4 -> <<"void">>
      [] kind = 6 -> <<"null">>
      [] OTHER -> <<IF kind = 3 THEN "string" ELSE "bytes",
                    [i \in 1..ReadU32(b, at) |-> Byte(b, at + Word + i - 1)]>>

RECURSIVE LoadConstant(_, _, _, _, _, _)
\* The constants from at on; n to go, used bytes of string storage taken.
LoadConstant(b, at, end, n, used, p) ==
    IF n = 0 THEN IF at = end THEN p ELSE Refused("INVALID_SECTION")
    ELSE IF at >= end THEN Refused("INVALID_SECTION")
    ELSE LET kind == Byte(b, at)
             size == PayloadSize(b, kind, at + 1)
             needed == IF kind = 3 THEN used + size - Word + 1 ELSE used
         IN  CASE size < 0 -> Refused("INVALID_CONSTANT")
               [] size > 0 /\ at + 1 + (IF kind \in {3, 5} THEN Word ELSE size) > end -> Refused("INVALID_SECTION")
               [] at + 1 + size > end -> Refused("INVALID_SECTION")
               [] needed > MaxStringBytes -> Refused("STRING_LIMIT")
               [] OTHER -> LoadConstant(b, at + 1 + size, end, n - 1, needed,
                                        [p EXCEPT !.consts = Append(@, ConstantAt(b, kind, at + 1))])

LoadConstants(b, at, size, p) ==
    IF size < Word THEN Refused("INVALID_SECTION")
    ELSE LoadConstant(b, at + Word, at + size, ReadU32(b, at), 0, p)

\* Faulty variant: a section that ends past the file is read anyway.
LoadSectionUnchecked(b, type, at, size, seen, p) ==
    CASE type \in seen -> Refused("INVALID_SECTION")
      [] type = Instructions -> LoadInstructions(b, at, size, p)
      [] type = Constants -> LoadConstants(b, at, size, p)
      [] OTHER -> p

\* The payload of one section; a type the loader does not know is skipped.
LoadSection(b, type, at, size, seen, p) ==
    CASE at + size > Len(b) -> Refused("SECTION_OOB")
      [] type \in seen -> Refused("INVALID_SECTION")
      [] type = Instructions -> LoadInstructions(b, at, size, p)
      [] type = Constants -> LoadConstants(b, at, size, p)
      [] OTHER -> p

RECURSIVE LoadSections(_, _, _, _, _)
LoadSections(b, at, n, seen, p) ==
    IF n = 0 \/ p.status # "OK" THEN p
    ELSE IF at + 2 * Word > Len(b) THEN Refused("TRUNCATED")
    ELSE LET type == ReadU32(b, at)
             size == ReadU32(b, at + Word)
         IN  LoadSections(b, at + 2 * Word + size, n - 1,
                          seen \union ({type} \intersect {Instructions, Constants}),
                          LoadSection(b, type, at + 2 * Word, size, seen, p))

\* aivm_program_load_aibc1
Load(b) ==
    CASE Len(b) < HeaderSize -> Refused("TRUNCATED")
      [] SubSeq(b, 1, 4) # Magic -> Refused("BAD_MAGIC")
      [] ReadU32(b, 4) # 2 -> Refused("UNSUPPORTED")
      [] ReadU32(b, 4 + 2 * Word) > MaxSections -> Refused("SECTION_LIMIT")
      [] OTHER -> LoadSections(b, HeaderSize, ReadU32(b, 4 + 2 * Word), {}, Blank)
=============================================================================
