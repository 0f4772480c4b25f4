------------------------------- MODULE MCText -------------------------------
(* Small programs for VmText.  Each stresses one part of the text machinery; *)
(* all sequences of at most "budget" instructions over its operations run.   *)
EXTENDS VmText

Blank == [budget |-> 4, strings |-> 40, heap |-> 40,
          texts |-> <<>>, bytes |-> <<>>, pushed |-> {}, ints |-> {0}, ops |-> {},
          holds |-> {}, faults |-> {"none"}, contracts |-> {}, allowed |-> {}, bound |-> {},
          untimed |-> {}, late |-> {FALSE}, results |-> {}]

S(t) == [t |-> "string", x |-> t, sub |-> <<>>]
B(t) == [t |-> "bytes", x |-> t, sub |-> <<>>]
N(i) == [t |-> "int", x |-> <<i>>, sub |-> <<>>]

\* a and e-acute, b: cutting and joining while an arena of eight bytes fills up
Cutting ==
    [Blank EXCEPT !.budget = 7, !.strings = 8, !.texts = <<<<97, 195, 169>>, <<98>>>>,
                  !.ints = {1, 2}, !.ops = {"concat", "substring", "remove"}, !.holds = {"local"}]

\* every host refusal at every place
Refusals ==
    [Blank EXCEPT !.budget = 5, !.strings = 8, !.texts = <<<<97, 98>>, <<34>>>>,
                  !.ints = {1}, !.ops = {"concat", "substring", "escape", "toString", "collect"},
                  !.holds = {"task"},
                  !.faults = {"none", "denied", "snapshot", "workspace", "index"}]

\* positions at, before and past both ends of texts with runes of one to four bytes
Searching ==
    [Blank EXCEPT !.budget = 4,
                  !.texts = <<<<97, 195, 169, 97, 195, 169>>, <<195, 169>>, <<226, 130, 172, 240, 159, 152, 128>>>>,
                  !.ints = {-1, 0, 1, 3, 9}, !.holds = {"local"},
                  !.ops = {"find", "substring", "remove", "scalars", "byteCount", "eq"}]

\* pairs and literal nodes are roots
Objects ==
    [Blank EXCEPT !.budget = 7, !.strings = 20, !.texts = <<<<97>>, <<98, 99, 100>>>>, !.ints = {0, 1},
                  !.ops = {"concat", "pair", "second", "lit", "collect"}, !.holds = {"par"}]

Accessors ==
    [Blank EXCEPT !.budget = 6, !.strings = 24, !.texts = <<<<97>>>>, !.ints = {0, 1}, !.holds = {"local"},
                  !.ops = {"pair", "first", "second", "lit", "kind", "id", "attributes", "key", "value",
                           "type", "eq", "toString", "collect"}]

\* byte buffers: joined, sliced and moved by safe points
Buffers ==
    [Blank EXCEPT !.budget = 7, !.heap = 12, !.bytes = <<<<1, 2, 3>>>>, !.ints = {1, 2},
                  !.ops = {"join", "slice", "eq", "return"}, !.holds = {"local"},
                  !.faults = {"none", "denied", "workspace"}]

\* numbers to texts and bytes
Numbers ==
    [Blank EXCEPT !.budget = 3,
                  !.pushed = {-1, -120, 0, 9, 10, 255, 256, 70000, 55296, 57344, 65535, 65536, 1114111, 1114112,
                              127, 128, 2047, 2048, 16909060},
                  !.ints = {0, 3}, !.ops = {"toString", "codepoint", "fromByte", "u32", "i64", "length", "at"}]

\* bytes that are a text, and bytes that only look like one; base64 both ways
Codecs ==
    [Blank EXCEPT !.budget = 4,
                  !.bytes = <<<<>>, <<255>>, <<0, 16, 131>>, <<97, 0>>, <<195>>, <<195, 169>>, <<192, 128>>,
                              <<224, 159, 191>>, <<224, 160, 128>>, <<237, 160, 128>>, <<237, 159, 191>>,
                              <<240, 143, 191, 191>>, <<240, 144, 128, 128>>, <<244, 143, 191, 191>>,
                              <<244, 144, 128, 128>>, <<128>>, <<226, 130, 172, 97>>, <<248, 136, 128, 128>>>>,
                  !.texts = <<<<81, 81, 61, 61>>, <<81, 82, 61, 61>>, <<81, 85, 73, 61>>, <<81, 81, 61>>,
                              <<81, 61, 81, 61>>, <<81, 81, 61, 61, 81, 81, 61, 61>>, <<43, 47, 48, 122>>,
                              <<61, 61, 61, 61>>>>,
                  !.ops = {"toUtf8", "fromUtf8", "toBase64", "fromBase64", "toString", "scalars"}]

\* \uXXXX escapes, alone and in pairs
Units ==
    [Blank EXCEPT !.budget = 3,
                  !.texts = <<<<48, 48, 52, 49>>, <<100, 56, 51, 68>>, <<68, 69, 48, 48>>, <<68, 66, 102, 70>>,
                              <<68, 70, 70, 70>>, <<48, 48, 103, 48>>, <<48, 52>>, <<48, 48, 48, 48>>>>,
                  !.ops = {"hex4", "surrogates"}]

\* calls that pass and fail each check; sys.a needs a text, sys.b nothing, sys.c is not
\* bound, sys.d is not allowed, sys.w has no time limit
SysA == <<115, 121, 115, 46, 97>>
SysB == <<115, 121, 115, 46, 98>>
SysC == <<115, 121, 115, 46, 99>>
SysD == <<115, 121, 115, 46, 100>>
SysW == <<115, 121, 115, 46, 119>>

Contract(target, args, ret, group) == [target |-> target, args |-> args, ret |-> ret, group |-> group]

Calls ==
    [Blank EXCEPT !.budget = 5, !.strings = 16, !.heap = 6, !.texts = <<SysA, SysB, SysC, SysD, SysW, <<104, 105>>>>,
                  !.ops = {"sys", "concat"},
                  !.contracts = {Contract(SysA, <<"string">>, "string", "console"),
                                 Contract(SysB, <<>>, "bytes", "crypto"),
                                 Contract(SysC, <<>>, "int", "time"),
                                 Contract(SysD, <<>>, "int", "debug"),
                                 Contract(SysW, <<>>, "int", "ui")},
                  !.allowed = {"console", "crypto", "time", "ui"}, !.bound = {SysA, SysB, SysW},
                  !.untimed = {SysW}, !.late = BOOLEAN,
                  !.results = {S(<<104, 111>>), B(<<7, 7, 7>>), N(5), [t |-> "failure", x |-> <<>>, sub |-> <<>>]}]

\* "sys", "x:sys.a": a call whose target was cut in two by interpolation
Interpolated ==
    [Blank EXCEPT !.budget = 4, !.texts = <<<<115, 121, 115>>, <<120, 58, 115, 121, 115, 46, 97>>>>,
                  !.ops = {"sys", "concat"},
                  !.contracts = {Contract(SysA, <<"string">>, "int", "console")},
                  !.allowed = {"console"}, !.bound = {SysA}, !.results = {N(5)}]

\* the same where the arena has to be compacted meanwhile
Crowded == [Interpolated EXCEPT !.budget = 8, !.strings = 24]

\* three keys that share slots
Mapped ==
    [Blank EXCEPT !.budget = 8, !.texts = <<<<97>>, <<99>>, <<101>>>>, !.ints = {1, 2}, !.holds = {"local"},
                  !.faults = {"none", "denied", "snapshot"},
                  !.ops = {"mapNew", "mapPut", "mapFinish", "mapCount", "mapHas", "mapGet"}]

MCHash(key) == FoldLeft(LAMBDA sum, ch : sum + ch, 0, key)

Parked ==
    [Blank EXCEPT !.budget = 0, !.bytes = <<<<>>, <<1, 2>>, <<3>>>>, !.ops = {"blob"}]

MCPrograms == {Cutting, Refusals, Searching, Objects, Accessors, Buffers, Numbers, Codecs, Units,
               Calls, Interpolated, Mapped, Parked}

MCCrowded == {Crowded}
=============================================================================
