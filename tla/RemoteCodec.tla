---------------------------- MODULE RemoteCodec ----------------------------
(***************************************************************************)
(* The wire form of the remote bridge's messages                           *)
(* (aivm_remote_channel.c).  A frame is a sequence of cells: one cell for  *)
(* an integer of any width, one for a character.  It starts with type, id  *)
(* and the length of what follows; a text is its length and its            *)
(* characters.  Callers ask only whether a status is "ok".                 *)
(***************************************************************************)
EXTENDS Integers, Sequences, SequencesExt

CONSTANTS
    MaxCaps,       \* AIVM_REMOTE_MAX_CAPS
    MaxText,       \* AIVM_REMOTE_MAX_TEXT
    MaxErrorText   \* AIVM_REMOTE_MAX_ERROR_TEXT

HeaderSize == 3
HELLO == 1
WELCOME == 2
CALL == 16
RESULT == 17
ERROR == 18
-----------------------------------------------------------------------------
(***************************************************************************)
(* Encoding.  A writer has a status and the cells after the header.        *)
(***************************************************************************)
Written(status, cells) == [status |-> status, cells |-> cells]

\* An integer, for which the capacity must have room.
WriteCell(w, v, capacity) ==
    IF w.status # "ok" THEN w
    ELSE IF HeaderSize + Len(w.cells) + 1 > capacity THEN Written("short", w.cells)
    ELSE Written("ok", Append(w.cells, v))

WriteString(w, text, max, capacity) ==
    IF w.status # "ok" THEN w
    ELSE IF Len(text) > max THEN Written("overflow", w.cells)
    ELSE IF HeaderSize + Len(w.cells) + 1 + Len(text) > capacity THEN Written("short", w.cells)
    ELSE Written("ok", w.cells \o <<Len(text)>> \o text)

WriteStrings(w, texts, capacity) ==
    FoldLeft(LAMBDA v, t : WriteString(v, t, MaxText, capacity), w, texts)

\* write_header, when everything else is written.
WriteHeader(type, id, w) ==
    IF w.status # "ok" THEN w ELSE Written("ok", <<type, id, Len(w.cells)>> \o w.cells)

Blank == Written("ok", <<>>)

EncodeHello(id, name, version, caps, capacity) ==
    IF Len(caps) > MaxCaps THEN Written("overflow", <<>>)
    ELSE WriteHeader(HELLO, id,
           WriteStrings(WriteCell(WriteCell(WriteString(Blank, name, MaxText, capacity), version, capacity),
                                  Len(caps), capacity), caps, capacity))

EncodeWelcome(id, version, caps, capacity) ==
    IF Len(caps) > MaxCaps THEN Written("overflow", <<>>)
    ELSE WriteHeader(WELCOME, id,
           WriteStrings(WriteCell(WriteCell(Blank, version, capacity), Len(caps), capacity), caps, capacity))

EncodeCall(id, cap, op, value, capacity) ==
    WriteHeader(CALL, id,
      WriteCell(WriteString(WriteString(Blank, cap, MaxText, capacity), op, MaxText, capacity), value, capacity))

EncodeResult(id, value, capacity) == WriteHeader(RESULT, id, WriteCell(Blank, value, capacity))

EncodeError(id, code, text, capacity) ==
    WriteHeader(ERROR, id, WriteString(WriteCell(Blank, code, capacity), text, MaxErrorText, capacity))
-----------------------------------------------------------------------------
(***************************************************************************)
(* Decoding.  A reader has a status, how far it got, and what it read.     *)
(***************************************************************************)
Read(status, at, ints, texts) == [status |-> status, at |-> at, ints |-> ints, texts |-> texts]
Failed(r, why) == [r EXCEPT !.status = why]

\* read_header and check_type: the declared length is the length there is.
ReadHeader(frame, type) ==
    LET status == IF Len(frame) < HeaderSize THEN "short"
                  ELSE IF frame[3] + HeaderSize # Len(frame) THEN "format"
                  ELSE IF frame[1] # type THEN "type" ELSE "ok"
    IN  Read(status, HeaderSize, IF status = "ok" THEN <<frame[2]>> ELSE <<>>, <<>>)

ReadCell(frame, r) ==
    IF r.status # "ok" THEN r
    ELSE IF r.at + 1 > Len(frame) THEN Failed(r, "short")
    ELSE Read("ok", r.at + 1, Append(r.ints, frame[r.at + 1]), r.texts)

ReadString(frame, r, max) ==
    IF r.status # "ok" THEN r
    ELSE IF r.at + 1 > Len(frame) THEN Failed(r, "short")
    ELSE IF frame[r.at + 1] > max THEN Failed(r, "overflow")
    ELSE IF r.at + 1 + frame[r.at + 1] > Len(frame) THEN Failed(r, "short")
    ELSE Read("ok", r.at + 1 + frame[r.at + 1], r.ints,
              Append(r.texts, SubSeq(frame, r.at + 2, r.at + 1 + frame[r.at + 1])))

\* As many texts as the last integer read says, which MaxCaps limits.
ReadStrings(frame, r) ==
    IF r.status # "ok" THEN r
    ELSE IF r.ints[Len(r.ints)] > MaxCaps THEN Failed(r, "overflow")
    ELSE FoldLeft(LAMBDA s, k : ReadString(frame, s, MaxText), r, [k \in 1..r.ints[Len(r.ints)] |-> k])

\* Nothing is left over.
AtEnd(frame, r) == IF r.status = "ok" /\ r.at # Len(frame) THEN Failed(r, "format") ELSE r

\* id, version, count; client name, capabilities
DecodeHello(frame) ==
    AtEnd(frame, ReadStrings(frame,
        ReadCell(frame, ReadCell(frame, ReadString(frame, ReadHeader(frame, HELLO), MaxText)))))

\* id, version, count; capabilities
DecodeWelcome(frame) ==
    AtEnd(frame, ReadStrings(frame, ReadCell(frame, ReadCell(frame, ReadHeader(frame, WELCOME)))))

\* id, value; capability, operation
DecodeCall(frame) ==
    AtEnd(frame, ReadCell(frame,
        ReadString(frame, ReadString(frame, ReadHeader(frame, CALL), MaxText), MaxText)))

\* id, value
DecodeResult(frame) == AtEnd(frame, ReadCell(frame, ReadHeader(frame, RESULT)))

\* id, code; message
DecodeError(frame) ==
    AtEnd(frame, ReadString(frame, ReadCell(frame, ReadHeader(frame, ERROR)), MaxErrorText))
=============================================================================
