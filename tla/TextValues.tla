----------------------------- MODULE TextValues -----------------------------
(***************************************************************************)
(* What the text and bytes operations promise: a machine whose stack and   *)
(* slots hold texts and byte sequences themselves.  There are no arenas,   *)
(* pointers, caches or compactions.  Texts are well-formed UTF-8, so a     *)
(* rune starts at every byte that does not continue one; every operation   *)
(* is given by a definition of its own, not by the code's algorithm.       *)
(*                                                                         *)
(* A value is [t, x, sub]: its type, its bytes (or its number), and the    *)
(* values it is made of.  Memory may run out at any step (Stop).           *)
(***************************************************************************)
EXTENDS Integers, Sequences, SequencesExt, FiniteSetsExt

VARIABLES program,   \* constants, operations, integer operands, system calls
          status,    \* "running", or why it stopped
          stack,
          held,      \* values kept in a local, a task result, a branch value
          called,    \* the target and arguments of the last host call
          maps,      \* handle -> [entries, frozen]
          blobs,     \* handle -> [live, data]
          answer     \* what the last read of a blob returned

vars == <<program, status, stack, held, called, maps, blobs, answer>>

V(t, x) == [t |-> t, x |-> x, sub |-> <<>>]
Nothing == V("none", <<>>)

-----------------------------------------------------------------------------
(* Runes. *)

RuneStarts(t) == {i \in 1..Len(t) : t[i] \notin 128..191}

RuneCount(t) == Cardinality(RuneStarts(t))

\* where rune k (from 0) starts; one past the end when there is none
RuneAt(t, k) ==
    IF k >= RuneCount(t) THEN Len(t) + 1
    ELSE CHOOSE i \in RuneStarts(t) : Cardinality({j \in RuneStarts(t) : j < i}) = k

Clip(k, n) == Max({0, Min({k, n})})

\* runes from..to-1
Runes(t, from, to) == SubSeq(t, RuneAt(t, from), RuneAt(t, to) - 1)

Substring(t, start, length) ==
    IF length <= 0 THEN <<>> ELSE Runes(t, Max({start, 0}), Max({start, 0}) + length)

RemoveRunes(t, start, length) ==
    LET n == RuneCount(t)
        from == Clip(start, n)
        to == Max({from, Clip(start + length, n)})
    IN  IF length <= 0 THEN t ELSE Runes(t, 0, from) \o Runes(t, to, n)

Find(t, pattern, start) ==
    LET n == RuneCount(t)
        Here(k) == LET i == RuneAt(t, k)
                   IN  i + Len(pattern) - 1 <= Len(t) /\ SubSeq(t, i, i + Len(pattern) - 1) = pattern
        found == {k \in Clip(start, n)..n : Here(k)}
    IN  IF pattern = <<>> THEN Clip(start, n) ELSE IF found = {} THEN -1 ELSE Min(found)

-----------------------------------------------------------------------------
(* Code points: a text is well formed when each of its runes is the shortest *)
(* encoding of a scalar value.                                               *)

Scalar(cp) == cp \in 1..1114111 /\ cp \notin 55296..57343

\* the number a rune's bytes spell
Spelled(r) ==
    FoldLeft(LAMBDA sum, b : sum * 64 + (b % 64),
             CASE Len(r) = 1 -> r[1] [] Len(r) = 2 -> r[1] % 32 [] Len(r) = 3 -> r[1] % 16
               [] OTHER -> r[1] % 8,
             Tail(r))

Shortest(cp) == CASE cp < 128 -> 1 [] cp < 2048 -> 2 [] cp < 65536 -> 3 [] OTHER -> 4

Lead == [n \in 1..4 |-> CASE n = 1 -> 0..127 [] n = 2 -> 192..223 [] n = 3 -> 224..239
                          [] OTHER -> 240..247]

IsRune(r) == /\ Len(r) \in 1..4
             /\ r[1] \in Lead[Len(r)]
             /\ Scalar(Spelled(r))
             /\ Len(r) = Shortest(Spelled(r))

IsText(bytes) ==
    /\ bytes # <<>> => 1 \in RuneStarts(bytes)
    /\ \A k \in 0..(RuneCount(bytes) - 1) : IsRune(Runes(bytes, k, k + 1))

\* the text of one code point, empty when it is not a scalar value
RuneOf(cp) ==
    LET n == Shortest(cp)
        D(i) == 128 + ((cp \div 64^(n - i)) % 64)
    IN  IF ~Scalar(cp) THEN <<>>
        ELSE IF n = 1 THEN <<cp>>
        ELSE [i \in 1..n |-> IF i = 1 THEN Min(Lead[n]) + (cp \div 64^(n - 1)) ELSE D(i)]

HexDigits == <<48, 49, 50, 51, 52, 53, 54, 55, 56, 57, 97, 98, 99, 100, 101, 102>>

Lower(ch) == IF ch \in 65..70 THEN ch + 32 ELSE ch

\* the number four hexadecimal digits spell, -1 for anything else
Hex4(t) ==
    IF Len(t) # 4 \/ \E i \in 1..Len(t) : Lower(t[i]) \notin ToSet(HexDigits) THEN -1
    ELSE FoldLeft(LAMBDA sum, ch : sum * 16 + SelectInSeq(HexDigits, LAMBDA d : d = Lower(ch)) - 1,
                  0, t)

\* a high and a low UTF-16 unit carry the upper and the lower ten bits above 65536
Surrogates(h, l) ==
    LET high == Hex4(h) - 55296
        low == Hex4(l) - 56320
    IN  IF {high, low} \subseteq 0..1023 THEN RuneOf(65536 + 1024 * high + low) ELSE <<>>

-----------------------------------------------------------------------------
(* Numerals, escapes and base64. *)

\* the decimal numeral: the digits that, weighted by powers of ten, sum to n
Numeral(n) ==
    LET magnitude == IF n < 0 THEN -n ELSE n
        width == Min({w \in 1..9 : magnitude < 10^w})
        digits == [i \in 1..width |-> 48 + ((magnitude \div 10^(width - i)) % 10)]
    IN  IF n < 0 THEN <<45>> \o digits ELSE digits

Hex(bytes) ==
    <<48, 120>> \o [i \in 1..(2 * Len(bytes)) |->
        LET b == bytes[(i + 1) \div 2] IN HexDigits[(IF i % 2 = 1 THEN b \div 16 ELSE b % 16) + 1]]

Escapes == [c \in {34, 92, 10, 13, 9} |->
              CASE c = 10 -> 110 [] c = 13 -> 114 [] c = 9 -> 116 [] OTHER -> c]

Escape(t) == FoldLeft(LAMBDA out, c : out \o (IF c \in DOMAIN Escapes THEN <<92, Escapes[c]>>
                                                                     ELSE <<c>>), <<>>, t)

\* two's complement, least significant byte first: what it sums to is n modulo 256^width
LittleEndian(n, width) ==
    [i \in 1..width |-> IF i <= 4 THEN (n \div 256^(i - 1)) % 256
                        ELSE IF n < 0 THEN 255 ELSE 0]

\* Base64 regroups the bits of the bytes by six.
Sixes == [i \in 1..64 |-> IF i <= 26 THEN 64 + i ELSE IF i <= 52 THEN 70 + i
                          ELSE IF i <= 62 THEN i - 5 ELSE IF i = 63 THEN 43 ELSE 47]

Bit(units, width, i) ==
    LET u == (i \div width) + 1
    IN  IF u > Len(units) THEN 0 ELSE (units[u] \div 2^(width - 1 - (i % width))) % 2

Regroup(units, from, to, count) ==
    [j \in 1..count |-> FoldLeft(LAMBDA sum, k : 2 * sum + Bit(units, from, to * (j - 1) + k - 1),
                                 0, [k \in 1..to |-> k])]

ToBase64(bytes) ==
    LET count == (8 * Len(bytes) + 5) \div 6
        padding == (3 - (Len(bytes) % 3)) % 3
        six == Regroup(bytes, 8, 6, count)
    IN  [j \in 1..count |-> Sixes[six[j] + 1]] \o [j \in 1..padding |-> 61]

\* whole groups of four; one or two "=" may close the last
IsBase64(t) ==
    /\ Len(t) % 4 = 0
    /\ LET body == SelectSeq(t, LAMBDA ch : ch # 61)
       IN  /\ Len(t) - Len(body) \in 0..2
           /\ ToSet(body) \subseteq ToSet(Sixes)
           /\ SubSeq(t, 1, Len(body)) = body

FromBase64(t) ==
    LET body == SelectSeq(t, LAMBDA ch : ch # 61)
    IN  Regroup([i \in 1..Len(body) |-> SelectInSeq(Sixes, LAMBDA s : s = body[i]) - 1],
                6, 8, (6 * Len(body)) \div 8)

-----------------------------------------------------------------------------
(* The meaning of each operation: from its operands, and two integers, to   *)
(* the set of results it may push (empty: the operation must be refused).   *)

Names == [string |-> <<115, 116, 114, 105, 110, 103>>, bytes |-> <<98, 121, 116, 101, 115>>,
          int |-> <<105, 110, 116>>, bool |-> <<98, 111, 111, 108>>,
          pair |-> <<112, 97, 105, 114>>, node |-> <<110, 111, 100, 101>>]
Truth == <<<<102, 97, 108, 115, 101>>, <<116, 114, 117, 101>>>>
Lit == <<76, 105, 116>>
ValueKey == <<118, 97, 108, 117, 101>>

Unary(op, v) ==
    CASE op = "escape" /\ v.t = "string"      -> {V("string", Escape(v.x))}
      [] op = "toString" /\ v.t = "string"    -> {v}
      [] op = "toString" /\ v.t = "bytes"     -> {V("string", Hex(v.x))}
      [] op = "toString" /\ v.t = "bool"      -> {V("string", Truth[v.x[1] + 1])}
      [] op = "toString" /\ v.t = "int"       -> {V("string", Numeral(v.x[1]))}
      [] op = "byteCount" /\ v.t = "string"   -> {V("int", <<Len(v.x)>>)}
      [] op = "scalars" /\ v.t = "string"     -> {V("int", <<RuneCount(v.x)>>)}
      [] op = "hex4" /\ v.t = "string"        -> {V("string", RuneOf(Hex4(v.x)))}
      [] op = "fromUtf8" /\ v.t = "string"    -> {V("bytes", v.x)}
      [] op = "toUtf8" /\ v.t = "bytes"       -> {V("string", IF IsText(v.x) THEN v.x ELSE <<>>)}
      [] op = "fromBase64" /\ v.t = "string"  -> IF IsBase64(v.x) THEN {V("bytes", FromBase64(v.x))} ELSE {}
      [] op = "toBase64" /\ v.t = "bytes"     -> {V("string", ToBase64(v.x))}
      [] op = "length" /\ v.t = "bytes"       -> {V("int", <<Len(v.x)>>)}
      [] op = "first" /\ v.t = "pair"         -> {v.sub[1]}
      [] op = "second" /\ v.t = "pair"        -> {v.sub[2]}
      [] op = "type"                          -> {V("string", Names[v.t])}
      [] op = "attributes" /\ v.t = "node"    -> {V("int", <<Cardinality(DOMAIN v.sub) \div 2 - 1>>)}
      [] op = "kind" /\ v.t = "node"          -> {v.sub[1]}
      [] op = "id" /\ v.t = "node"            -> {v.sub[2]}
      [] op = "fromByte" /\ v.t = "int"       -> IF v.x[1] \in 0..255 THEN {V("bytes", v.x)} ELSE {}
      [] op = "u32" /\ v.t = "int"            -> IF v.x[1] >= 0 THEN {V("bytes", LittleEndian(v.x[1], 4))} ELSE {}
      [] op = "i64" /\ v.t = "int"            -> {V("bytes", LittleEndian(v.x[1], 8))}
      [] op = "codepoint" /\ v.t = "int"      -> {V("string", RuneOf(v.x[1]))}
      [] OTHER                                -> {}

\* operations with one value and integer operands
Indexed(op, v, a, b) ==
    CASE op = "substring" /\ v.t = "string"   -> {V("string", Substring(v.x, a, b))}
      [] op = "remove" /\ v.t = "string"      -> {V("string", RemoveRunes(v.x, a, b))}
      [] op = "slice" /\ v.t = "bytes"        -> {V("bytes", SubSeq(v.x, Clip(a, Len(v.x)) + 1,
                                                    Min({Len(v.x), Clip(a, Len(v.x)) + Max({b, 0})})))}
      [] op = "at" /\ v.t = "bytes"           -> {V("int", <<IF a \in 0..(Len(v.x) - 1) THEN v.x[a + 1] ELSE -1>>)}
      [] op = "key" /\ v.t = "node"           -> {IF a = 0 THEN v.sub[3] ELSE V("string", <<>>)}
      [] op = "value" /\ v.t = "node"         -> {IF a = 0 THEN v.sub[4] ELSE V("string", <<>>)}
      [] OTHER                                -> {}

Binary(op, v, w, a) ==
    CASE op = "concat" /\ v.t = "string" /\ w.t = "string"    -> {V("string", v.x \o w.x)}
      [] op = "join" /\ v.t = "bytes" /\ w.t = "bytes"        -> {V("bytes", v.x \o w.x)}
      [] op = "find" /\ v.t = "string" /\ w.t = "string"      -> {V("int", <<Find(v.x, w.x, a)>>)}
      [] op = "surrogates" /\ v.t = "string" /\ w.t = "string" -> {V("string", Surrogates(v.x, w.x))}
      [] op = "eq"                                            -> {V("bool", <<IF v = w THEN 1 ELSE 0>>)}
      [] op = "pair"                                          -> {[t |-> "pair", x |-> <<>>, sub |-> <<v, w>>]}
      [] op = "lit" /\ v.t = "string" /\ w.t = "string"
           -> {[t |-> "node", x |-> <<>>,
                sub |-> <<V("string", Lit), v, V("string", ValueKey), w>>]}
      [] OTHER                                                -> {}

-----------------------------------------------------------------------------
(* Steps. *)

depth == Len(stack)
Below(k) == SubSeq(stack, 1, depth - k)
Running == status = "running" /\ status' = "running" /\ UNCHANGED program

\* a constant, or an integer
Push ==
    /\ Running
    /\ \E v \in {V("string", program.texts[k]) : k \in DOMAIN program.texts}
             \cup {V("bytes", program.bytes[k]) : k \in DOMAIN program.bytes}
             \cup {V("int", <<i>>) : i \in program.pushed} :
         stack' = Append(stack, v)
    /\ UNCHANGED <<held, called, maps, blobs, answer>>

Compute ==
    /\ Running
    /\ \E op \in program.ops :
         \/ depth >= 1 /\ \E r \in Unary(op, stack[depth]) : stack' = Append(Below(1), r)
         \/ depth >= 1 /\ op \in {"substring", "remove", "slice", "at", "key", "value"}
              /\ \E a, b \in program.ints : \E r \in Indexed(op, stack[depth], a, b) :
                   stack' = Append(Below(1), r)
         \/ depth >= 2 /\ \E a \in program.ints : \E r \in Binary(op, stack[depth - 1], stack[depth], a) :
                            stack' = Append(Below(2), r)
    /\ UNCHANGED <<held, called, maps, blobs, answer>>

Keep ==
    /\ Running
    /\ \E h \in DOMAIN held :
         \/ depth >= 1 /\ stack' = Below(1) /\ held' = [held EXCEPT ![h] = stack[depth]]
         \/ held[h] # Nothing /\ stack' = Append(stack, held[h]) /\ UNCHANGED held
         \/ stack' = stack /\ held' = [held EXCEPT ![h] = Nothing]
    /\ UNCHANGED <<called, maps, blobs, answer>>

\* A map under construction is shared by everyone who holds its builder; once fixed it
\* never changes.
Map ==
    /\ Running
    /\ \/ /\ "mapNew" \in program.ops
          /\ maps' = Append(maps, [entries |-> {}, frozen |-> FALSE])
          /\ stack' = Append(stack, V("mapBuilder", <<Len(maps) + 1>>))
       \/ /\ depth >= 2 /\ stack[depth - 1].t = "mapBuilder" /\ stack[depth].t = "string"
          /\ LET h == stack[depth - 1].x[1]
             IN  /\ ~maps[h].frozen
                 /\ \E a \in program.ints :
                      maps' = [maps EXCEPT ![h].entries =
                                 {e \in @ : e[1] # stack[depth].x} \cup {<<stack[depth].x, a>>}]
          /\ stack' = Below(1)
       \/ /\ depth >= 1 /\ stack[depth].t = "mapBuilder"
          /\ LET h == stack[depth].x[1]
             IN  /\ ~maps[h].frozen
                 /\ maps' = [maps EXCEPT ![h].frozen = TRUE]
                 /\ stack' = Append(Below(1), V("map", <<h>>))
       \/ /\ depth >= 1 /\ stack[depth].t = "map"
          /\ stack' = Append(Below(1), V("int", <<Cardinality(maps[stack[depth].x[1]].entries)>>))
          /\ UNCHANGED maps
       \/ /\ depth >= 2 /\ stack[depth - 1].t = "map" /\ stack[depth].t = "string"
          /\ LET known == {e[2] : e \in {x \in maps[stack[depth - 1].x[1]].entries : x[1] = stack[depth].x}}
             IN  \/ stack' = Append(Below(2), V("bool", <<Cardinality(known)>>))
                 \/ \E a \in program.ints :
                      stack' = Append(Below(2), V("int", <<IF known = {} THEN a ELSE Max(known)>>))
          /\ UNCHANGED maps
    /\ UNCHANGED <<held, called, blobs, answer>>

\* The host is called with the target and the argument that are on the stack, as the
\* contract of the target demands, and answers with a value of the contract's type.
Request(t, args) ==
    \E c \in program.contracts, r \in program.results :
        /\ c.target = t
        /\ [i \in 1..Len(args) |-> args[i].t] = c.args
        /\ c.group \in program.allowed /\ c.target \in program.bound
        /\ r.t = c.ret
        /\ called' = <<V("string", t)>> \o args
        /\ stack' = Append(Below(Len(args) + 1), r)

\* A target cut in two by string interpolation is put together again: the text before
\* the target's name belongs to the argument.
Call ==
    /\ Running
    /\ \E k \in 0..1 :
         /\ depth >= k + 1
         /\ stack[depth - k].t = "string"
         /\ \/ Request(stack[depth - k].x, SubSeq(stack, depth - k + 1, depth))
            \/ /\ k = 1 /\ stack[depth].t = "string"
               /\ \E i \in 0..Len(stack[depth].x) :
                    Request(SubSeq(stack[depth].x, i + 1, Len(stack[depth].x)),
                            <<V("string", stack[depth - 1].x \o SubSeq(stack[depth].x, 1, i))>>)
    /\ UNCHANGED <<held, maps, blobs, answer>>

\* Blobs have handles that are never given out twice; a handle that was released names
\* nothing any more, and a read returns the part of the blob that exists.
Blob ==
    /\ UNCHANGED <<program, status, stack, held, called, maps>>
    /\ \/ /\ \E data \in ToSet(program.bytes) :
               blobs' = Append(blobs, [live |-> TRUE, data |-> data])
          /\ answer' = <<>>
       \/ /\ \E h \in DOMAIN blobs : blobs' = [blobs EXCEPT ![h] = [live |-> FALSE, data |-> <<>>]]
          /\ answer' = <<>>
       \/ /\ UNCHANGED blobs
          /\ \E h \in 1..(Len(blobs) + 1), from, length \in 0..2 :
               LET live == h \in DOMAIN blobs /\ blobs[h].live
                   data == IF live THEN blobs[h].data ELSE <<>>
               IN  answer' = <<h, from, length, live, [i \in (1..length) \cap (1..(Len(data) - from)) |-> data[from + i]]>>

\* Memory pressure, a type error, a refused or failed call; the call may have been made.
Stop ==
    /\ status = "running" /\ status' # "running"
    /\ UNCHANGED program

Restart ==
    /\ status' = "running"
    /\ stack' = <<>> /\ held' = [h \in DOMAIN held |-> Nothing] /\ called' = <<>>
    /\ maps' = <<>> /\ blobs' = <<>> /\ answer' = <<>>
    /\ UNCHANGED program

Next == Push \/ Compute \/ Map \/ Keep \/ Call \/ Blob \/ Stop \/ Restart

Init ==
    /\ status = "running" /\ stack = <<>> /\ called = <<>> /\ answer = <<>>
    /\ held = [h \in {"local", "task", "par"} |-> Nothing]
    /\ maps = <<>> /\ blobs = <<>>

Spec == Init /\ [][Next]_vars

=============================================================================
