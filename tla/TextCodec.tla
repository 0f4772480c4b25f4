------------------------------ MODULE TextCodec ------------------------------
(***************************************************************************)
(* The byte-level text algorithms of the virtual machine (aivm_vm_text.c   *)
(* and the helpers of the string opcodes in aivm_vm.c).  A text is a       *)
(* sequence of byte values without the terminating NUL; byte indices and   *)
(* rune indices count from 0, as in the code.                              *)
(***************************************************************************)
EXTENDS Integers, Sequences, SequencesExt

Byte == 0..255

None == <<-1>>                \* what a failed conversion returns

\* text[index]; one past the end is the terminating NUL
At(text, index) == IF index < Len(text) THEN text[index + 1] ELSE 0

Slice(text, from, to) == SubSeq(text, from + 1, to)

IsContinuation(b) == b \div 64 = 2

-----------------------------------------------------------------------------
(* Runes: where the next one starts, how many there are, where one starts. *)

utf8_next_index(text, index) ==
    LET ch == At(text, index)
        Continued(k) == \A j \in 1..k : IsContinuation(At(text, index + j))
    IN  CASE ch = 0                                  -> index
          [] ch \div 32 = 6  /\ Continued(1)         -> index + 2
          [] ch \div 16 = 14 /\ Continued(2)         -> index + 3
          [] ch \div 8  = 30 /\ Continued(3)         -> index + 4
          [] OTHER                                   -> index + 1

\* walk at most runes steps from <<byte, rune>>, stopping at the end of the text
RECURSIVE Walk(_, _, _, _)
Walk(text, byte, rune, wanted) ==
    IF At(text, byte) = 0 \/ rune >= wanted
      THEN <<byte, rune>>
      ELSE Walk(text, utf8_next_index(text, byte), rune + 1, wanted)

utf8_rune_count(text) == Walk(text, 0, 0, Len(text))[2]

clamp_rune_index(value, max) ==
    IF value <= 0 THEN 0 ELSE IF value >= max THEN max ELSE value

\* STR_SCALAR_LENGTH counts the bytes that do not continue a rune.
ScalarLength(text) == Len(SelectSeq(text, LAMBDA b : ~IsContinuation(b)))

-----------------------------------------------------------------------------
(* Code points, hexadecimal and decimal numerals. *)

Encode(cp) ==
    CASE cp <= 127    -> <<cp>>
      [] cp <= 2047   -> <<192 + cp \div 64, 128 + (cp % 64)>>
      [] cp <= 65535  -> <<224 + cp \div 4096, 128 + ((cp \div 64) % 64), 128 + (cp % 64)>>
      [] OTHER        -> <<240 + cp \div 262144, 128 + ((cp \div 4096) % 64),
                           128 + ((cp \div 64) % 64), 128 + (cp % 64)>>

\* Code point 0 is written as an empty string, since NUL ends a text.
push_string_from_codepoint(cp) ==
    IF cp < 0 \/ cp > 1114111 \/ cp \in 55296..57343 \/ cp = 0 THEN <<>> ELSE Encode(cp)

Nibble(ch) ==
    CASE ch \in 48..57  -> ch - 48
      [] ch \in 97..102 -> ch - 87
      [] ch \in 65..70  -> ch - 55
      [] OTHER          -> -1

aivm_hex4_to_u32(text) ==
    IF Len(text) # 4 \/ \E i \in 1..Len(text) : Nibble(text[i]) < 0
      THEN -1
      ELSE FoldLeft(LAMBDA value, ch : value * 16 + Nibble(ch), 0, text)

DecodeHex4(text) == push_string_from_codepoint(aivm_hex4_to_u32(text))

DecodeSurrogatePair(high, low) ==
    LET h == aivm_hex4_to_u32(high)
        l == aivm_hex4_to_u32(low)
    IN  IF h \in 55296..56319 /\ l \in 56320..57343
          THEN push_string_from_codepoint(65536 + (h - 55296) * 1024 + (l - 56320))
          ELSE <<>>

RECURSIVE Digits(_)
Digits(magnitude) ==
    IF magnitude < 10 THEN <<48 + magnitude>>
    ELSE Append(Digits(magnitude \div 10), 48 + (magnitude % 10))

\* The magnitude of a negative number is computed so that the smallest one
\* does not overflow.
Decimal(n) == IF n < 0 THEN <<45>> \o Digits((-(n + 1)) + 1) ELSE Digits(n)

HexDigit(n) == IF n < 10 THEN 48 + n ELSE 87 + n

\* TO_STRING of bytes
HexText(bytes) ==
    <<48, 120>> \o FlattenSeq([i \in 1..Len(bytes) |->
                     <<HexDigit(bytes[i] \div 16), HexDigit(bytes[i] % 16)>>])

U32Le(n) == [i \in 1..4 |-> (n \div 256^(i - 1)) % 256]

\* Only values whose magnitude is below 2^31 are written here, so that the four high
\* bytes are the sign extension.
I64Le(n) ==
    LET low == IF n < 0 THEN [i \in 1..4 |-> 255 - (((-(n + 1)) \div 256^(i - 1)) % 256)]
                        ELSE U32Le(n)
    IN  low \o [i \in 1..4 |-> IF n < 0 THEN 255 ELSE 0]

-----------------------------------------------------------------------------
(* Escaping, base64 and the check that bytes are a text. *)

EscapeOf(ch) ==
    CASE ch \in {92, 34} -> <<92, ch>>
      [] ch = 10         -> <<92, 110>>
      [] ch = 13         -> <<92, 114>>
      [] ch = 9          -> <<92, 116>>
      [] OTHER           -> <<ch>>

Escaped(text) == FlattenSeq([i \in 1..Len(text) |-> EscapeOf(text[i])])

Alphabet == [n \in 0..63 |-> CASE n < 26 -> 65 + n
                               [] n < 52 -> 71 + n
                               [] n < 62 -> n - 4
                               [] n = 62 -> 43
                               [] OTHER  -> 47]

Pad == 61

bytes_base64_decode_char(ch) ==
    CASE ch \in 65..90  -> ch - 65
      [] ch \in 97..122 -> ch - 71
      [] ch \in 48..57  -> ch + 4
      [] ch = 43        -> 62
      [] ch = 47        -> 63
      [] OTHER          -> -1

\* the group of four characters for the bytes from index i (a multiple of 3)
Base64Group(bytes, i) ==
    LET B(k) == IF i + k < Len(bytes) THEN bytes[i + k + 1] ELSE 0
        chunk == B(0) * 65536 + B(1) * 256 + B(2)
        remain == Len(bytes) - i
    IN  <<Alphabet[chunk \div 262144], Alphabet[(chunk \div 4096) % 64],
          IF remain > 1 THEN Alphabet[(chunk \div 64) % 64] ELSE Pad,
          IF remain > 2 THEN Alphabet[chunk % 64] ELSE Pad>>

aivm_bytes_to_base64(bytes) ==
    FlattenSeq([g \in 1..((Len(bytes) + 2) \div 3) |-> Base64Group(bytes, 3 * (g - 1))])

\* the bytes of one group of four characters, None when it is malformed
GroupBytes(group, last) ==
    LET c == [k \in 1..4 |-> bytes_base64_decode_char(group[k])]
        pad == IF group[3] = Pad THEN 2 ELSE IF group[4] = Pad THEN 1 ELSE 0
        V(k) == IF k > 4 - pad THEN 0 ELSE c[k]
        chunk == V(1) * 262144 + V(2) * 4096 + V(3) * 64 + V(4)
        bad == \/ \E k \in 1..(4 - pad) : c[k] < 0
               \/ group[3] = Pad /\ group[4] # Pad
               \/ pad > 0 /\ ~last
    IN  IF bad THEN None
        ELSE SubSeq(<<chunk \div 65536, (chunk \div 256) % 256, chunk % 256>>, 1, 3 - pad)

aivm_bytes_from_base64(text) ==
    LET n == Len(text) \div 4
        parts == [g \in 1..n |-> GroupBytes(SubSeq(text, 4 * g - 3, 4 * g), g = n)]
    IN  IF Len(text) % 4 # 0 \/ \E g \in 1..n : parts[g] = None
          THEN None ELSE FlattenSeq(parts)

\* The length of the sequence a lead byte starts and the range its second byte
\* must be in; <<0, ..>> for a byte that cannot lead.
LeadRule(b) ==
    CASE b \in 1..127                     -> <<1, 128, 191>>
      [] b \in 194..223                   -> <<2, 128, 191>>
      [] b = 224                          -> <<3, 160, 191>>
      [] b \in 225..236 \cup 238..239     -> <<3, 128, 191>>
      [] b = 237                          -> <<3, 128, 159>>
      [] b = 240                          -> <<4, 144, 191>>
      [] b \in 241..243                   -> <<4, 128, 191>>
      [] b = 244                          -> <<4, 128, 143>>
      [] OTHER                            -> <<0, 0, 0>>

RECURSIVE ValidFrom(_, _)
ValidFrom(bytes, i) ==
    IF i >= Len(bytes) THEN TRUE
    ELSE LET rule == LeadRule(bytes[i + 1])
         IN  /\ rule[1] > 0
             /\ i + rule[1] <= Len(bytes)
             /\ rule[1] > 1 => bytes[i + 2] \in rule[2]..rule[3]
             /\ \A k \in 2..(rule[1] - 1) : IsContinuation(bytes[i + k + 1])
             /\ ValidFrom(bytes, i + rule[1])

aivm_bytes_is_valid_utf8_without_nul(bytes) == ValidFrom(bytes, 0)

=============================================================================
