---------------------------- MODULE RemoteBridge ----------------------------
(***************************************************************************)
(* The remote bridge: clients that write frames to a byte stream, the      *)
(* servers that take them off it (remote_ws_bridge.c, which serves one     *)
(* connection after the other, and the stdio loop over                     *)
(* aivm_remote_transport.c, which serves one), and the session that        *)
(* answers them (aivm_remote_session.c).  A program's own remote calls     *)
(* (wasm_runner.c) use such a session in their process, without a stream.  *)
(*                                                                         *)
(* A frame travels as two pieces, so that what arrives may end in the      *)
(* middle of one.  The request's id is its position among the frames of    *)
(* its client, except for a program's own calls, which number themselves.  *)
(***************************************************************************)
EXTENDS RemoteCodec, FiniteSets

CONSTANTS
    Clients,        \* connections to the WebSocket server
    Transports,     \* which servers run: "ws", "stdio", "local" or "denied", without a valid token
    AllowedCaps,    \* config->allowed_caps
    ServedCap,      \* "cap.remote", the capability with an operation behind it
    Hellos,         \* sequences of capabilities a HELLO asks for
    Calls,          \* [cap, op, value]: what a CALL asks for
    Damages,        \* [of, how]: how a HELLO or CALL is damaged
    EchoOp,         \* "echoInt", the operation there is
    Name,           \* client_name
    Message,        \* Message[code]: the text of an error
    Capacity,       \* room for an answer, AIVM_WS_MAX_PAYLOAD
    LocalCapacity,  \* room for a frame of a program's own call, 1024
    IdModulus,      \* 2^32: request ids of a program's calls
    Kinds,          \* Kinds[c]: kinds of frame client c sends
    PingSizes,      \* lengths of the payloads of PING frames, up to AIVM_WS_MAX_PAYLOAD
    LengthModulus,  \* 2^16: what the extended length of a server frame can hold
    BufferPieces,   \* AIVM_WS_IO_BUFFER, in pieces
    FrameBound      \* bound: FrameBound[c] frames client c sends

ASSUME RemoteAssumption ==
    /\ Len(AllowedCaps) <= MaxCaps
    /\ \A i \in DOMAIN AllowedCaps : Len(AllowedCaps[i]) <= MaxText
    /\ {MaxCaps, LengthModulus, BufferPieces} \union {FrameBound[c] : c \in Clients} \subseteq Nat \ {0}
    /\ Transports \subseteq {"ws", "stdio", "local", "denied"}
    /\ PingSizes \subseteq 0..LengthModulus

\* What a client can put in one frame.  "call" asks for an operation of a
\* capability; "unknown" has a message type the session does not know;
\* "garbled" is a HELLO or CALL that is damaged; "skipped" is a text or
\* continuation frame; "unreadable" is unmasked or longer than the maximum.
Requests(c) ==
    UNION { [kind : {"hello"} \intersect Kinds[c], caps : Hellos],
            [kind : {"call"} \intersect Kinds[c], call : {k \in Calls : Len(k.cap) <= MaxText}],
            [kind : {"ping"} \intersect Kinds[c], size : PingSizes],
            [kind : {"garbled"} \intersect Kinds[c], damage : Damages],
            [kind : {"unknown", "skipped", "unreadable", "close"} \intersect Kinds[c]] }

VARIABLES
    transport,  \* the server that runs
    sent,       \* sent[c]: the frames client c has written
    stream,     \* stream[c]: pieces on their way to the server
    buffer,     \* recv_buffer of the connection being served
    serving,    \* the connection being served, or None
    state,      \* state[c]: "waiting", "served" or "closed"
    session,    \* AivmRemoteServerSession
    local,      \* g_remote_session_ready and g_remote_next_request_id
    answers     \* answers[c]: what c makes of the frames written back to it

vars == <<transport, sent, stream, buffer, serving, state, session, local, answers>>
None == "none"
-----------------------------------------------------------------------------
(***************************************************************************)
(* aivm_remote_server_process_frame.                                       *)
(***************************************************************************)
\* aivm_remote_server_session_init.
NewSession == [handshake |-> FALSE, granted |-> <<>>]

\* The requested capabilities that are allowed, in order, at most MaxCaps.
Granted(caps) ==
    LET allowed == SelectSeq(caps, LAMBDA c : c \in ToSet(AllowedCaps))
    IN  SubSeq(allowed, 1, IF Len(allowed) < MaxCaps THEN Len(allowed) ELSE MaxCaps)

\* Faulty variant: a second HELLO adds to what the first was granted.
AfterHelloAdding(s, caps) == [handshake |-> TRUE, granted |-> s.granted \o Granted(caps)]

AfterHello(s, caps) == [handshake |-> TRUE, granted |-> Granted(caps)]

\* The error code a decoded CALL is answered with, 0 for a result.
CallAnswer(s, cap, op) ==
    CASE ~s.handshake -> 401
      [] s.handshake /\ cap \notin ToSet(s.granted) -> 403
      [] s.handshake /\ cap \in ToSet(s.granted) -> IF cap = ServedCap /\ op = EchoOp THEN 0 ELSE 404

\* Each branch once the frame is decoded: the session afterwards, and the
\* answer, which may not fit.  The session is updated first.
OnHello(s, d, capacity) ==
    IF d.status # "ok" THEN [session |-> s, out |-> d]
    ELSE [session |-> AfterHello(s, Tail(d.texts)),
          out |-> EncodeWelcome(d.ints[1], 1, Granted(Tail(d.texts)), capacity)]

OnCall(s, d, capacity) ==
    IF d.status # "ok" THEN [session |-> s, out |-> d]
    ELSE LET code == CallAnswer(s, d.texts[1], d.texts[2])
         IN  [session |-> s,
              out |-> IF code = 0 THEN EncodeResult(d.ints[1], d.ints[2], capacity)
                      ELSE EncodeError(d.ints[1], code, Message[code], capacity)]

\* An unknown type is answered with id 0.
ProcessFrame(s, frame, capacity) ==
    CASE frame[1] = HELLO -> OnHello(s, DecodeHello(frame), capacity)
      [] frame[1] = CALL -> OnCall(s, DecodeCall(frame), capacity)
      [] OTHER -> [session |-> s, out |-> EncodeError(0, 400, Message[400], capacity)]

\* What the client's decoders make of an answer.
Decoded(w, r, e) ==
    IF w.status = "ok" THEN [kind |-> "welcome", id |-> w.ints[1], caps |-> w.texts]
    ELSE IF r.status = "ok" THEN [kind |-> "call", id |-> r.ints[1], code |-> 0, value |-> r.ints[2]]
    ELSE IF e.status = "ok" THEN [kind |-> "call", id |-> e.ints[1], code |-> e.ints[2], value |-> 0]
    ELSE [kind |-> "undecodable"]
Received(frame) == Decoded(DecodeWelcome(frame), DecodeResult(frame), DecodeError(frame))

\* The wire form of request r with id i; damage is done to a HELLO without
\* capabilities or to a CALL.
Damaged(frame, how) ==
    CASE how = "cut" -> Front(frame)
      [] how = "short" -> [Front(frame) EXCEPT ![3] = @ - 1]
      [] how = "extra" -> Append([frame EXCEPT ![3] = @ + 1], 0)
      [] how = "long" -> [frame EXCEPT ![HeaderSize + 1] = MaxText + 1]

Wire(r, i) ==
    CASE r.kind = "hello" -> EncodeHello(i, Name, 1, r.caps, Capacity).cells
      [] r.kind = "call" -> EncodeCall(i, r.call.cap, r.call.op, r.call.value, Capacity).cells
      [] r.kind = "unknown" -> <<0, i, 0>>
      [] r.kind = "garbled" ->
           Damaged(IF r.damage.of = HELLO THEN EncodeHello(i, Name, 1, <<>>, Capacity).cells
                   ELSE EncodeCall(i, ServedCap, EchoOp, 0, Capacity).cells, r.damage.how)
-----------------------------------------------------------------------------
(***************************************************************************)
(* The stream.                                                             *)
(***************************************************************************)
Pieces(c, i) == << <<c, i, 1>>, <<c, i, 2>> >>

Init ==
    /\ transport \in Transports
    /\ sent = [c \in Clients |-> <<>>]
    /\ stream = [c \in Clients |-> <<>>]
    /\ buffer = <<>>
    /\ serving = None
    /\ state = [c \in Clients |-> "waiting"]
    /\ session = NewSession
    /\ local = [ready |-> FALSE, nextId |-> 1]
    /\ answers = [c \in Clients |-> <<>>]

\* A client writes a frame.  It need not wait for answers; a WebSocket client
\* waits for the upgrade response, which it gets when its turn comes.
Send(c) ==
    /\ state[c] = "served" /\ transport \in {"ws", "stdio"}
    /\ Len(sent[c]) < FrameBound[c]
    /\ \E r \in Requests(c) :
         /\ transport = "stdio" => r.kind \notin {"ping", "skipped", "close"}
         /\ sent' = [sent EXCEPT ![c] = Append(@, r)]
         /\ stream' = [stream EXCEPT ![c] = @ \o Pieces(c, Len(sent[c]) + 1)]
    /\ UNCHANGED <<transport, buffer, serving, state, session, local, answers>>

\* Faulty variant: the session of the previous connection is kept.
AcceptKeepingSession(c) ==
    /\ serving = None /\ state[c] = "waiting"
    /\ serving' = c
    /\ state' = [state EXCEPT ![c] = "served"]
    /\ buffer' = <<>>
    /\ UNCHANGED <<transport, sent, stream, session, local, answers>>

\* accept and the start of handle_ws_client: one connection at a time.  The
\* stdio server and a program's own session have a single client, and no
\* upgrade request that may fail.
Accept(c) ==
    /\ serving = None /\ state[c] = "waiting"
    /\ transport # "ws" => \A d \in Clients : state[d] = "waiting"
    /\ \/ /\ serving' = c
          /\ state' = [state EXCEPT ![c] = "served"]
          /\ buffer' = <<>>
          /\ session' = NewSession
       \/ /\ transport = "ws"
          /\ state' = [state EXCEPT ![c] = "closed"]
          /\ UNCHANGED <<serving, buffer, session>>
    /\ UNCHANGED <<transport, sent, stream, local, answers>>

\* aivm_ws_decode_client_frame succeeds: a whole frame is at the front.  It
\* fails alike for a frame that is incomplete and for one it cannot read.
Decodable ==
    /\ Len(buffer) >= 2
    /\ sent[buffer[1][1]][buffer[1][2]].kind # "unreadable"

\* Faulty variant: the rest of a frame that began is not read.
ReceiveOnlyWhenEmpty(c) ==
    /\ serving = c /\ transport = "ws" /\ buffer = <<>>
    /\ \E n \in 1..Len(stream[c]) :
         /\ n <= BufferPieces
         /\ buffer' = SubSeq(stream[c], 1, n)
         /\ stream' = [stream EXCEPT ![c] = SubSeq(@, n + 1, Len(@))]
    /\ UNCHANGED <<transport, sent, serving, state, session, local, answers>>

\* recv delivers some of what was sent, as far as the buffer has room.
Receive(c) ==
    /\ serving = c /\ transport = "ws"
    /\ ~Decodable /\ Len(buffer) < BufferPieces
    /\ \E n \in 1..(IF Len(stream[c]) < BufferPieces - Len(buffer)
                    THEN Len(stream[c]) ELSE BufferPieces - Len(buffer)) :
         /\ buffer' = buffer \o SubSeq(stream[c], 1, n)
         /\ stream' = [stream EXCEPT ![c] = SubSeq(@, n + 1, Len(@))]
    /\ UNCHANGED <<transport, sent, serving, state, session, local, answers>>

\* The connection ends: the loop returned or the stdio server stopped.
Hangup(c) ==
    /\ serving' = None
    /\ state' = [state EXCEPT ![c] = "closed"]

\* The client closes its end; the server sees it once nothing is left to read.
Disconnect(c) ==
    /\ serving = c /\ transport \in {"ws", "stdio"} /\ stream[c] = <<>> /\ ~Decodable
    /\ Hangup(c)
    /\ UNCHANGED <<transport, sent, stream, buffer, session, local, answers>>

\* The buffer is full and its first frame cannot be decoded.
Overrun(c) ==
    /\ serving = c /\ transport = "ws"
    /\ Len(buffer) = BufferPieces /\ ~Decodable
    /\ Hangup(c)
    /\ UNCHANGED <<transport, sent, stream, buffer, session, local, answers>>

Reply(c, a) == answers' = [answers EXCEPT ![c] = Append(@, a)]

\* aivm_ws_encode_server_control: up to 125 bytes the length is exact, above
\* that it is cast to 16 bits.
Declared(size) == size % LengthModulus

\* The session's answer is written back.  A codec or send failure ends the
\* connection.
Finish(c, done) ==
    /\ session' = done.session
    /\ \/ /\ done.out.status = "ok"
          /\ Reply(c, Received(done.out.cells))
          /\ UNCHANGED <<serving, state>>
       \/ Hangup(c) /\ UNCHANGED answers

Respond(c, i) == Finish(c, ProcessFrame(session, Wire(sent[c][i], i), Capacity))

\* The inner loop of handle_ws_client, for the frame at the front.
HandleFrame(c) ==
    /\ serving = c /\ transport = "ws" /\ Decodable
    /\ buffer' = SubSeq(buffer, 3, Len(buffer))
    /\ LET i == buffer[1][2]
           r == sent[c][i]
       IN  CASE r.kind = "close" -> /\ Reply(c, [kind |-> "close", id |-> i])
                                    /\ Hangup(c) /\ UNCHANGED session
             [] r.kind = "ping" -> /\ Reply(c, [kind |-> "pong", id |-> i, size |-> r.size,
                                                declared |-> Declared(r.size)])
                                   /\ UNCHANGED <<serving, state, session>>
             [] r.kind = "skipped" -> UNCHANGED <<serving, state, session, answers>>
             [] OTHER -> Respond(c, i)
    /\ UNCHANGED <<transport, sent, stream, local>>

\* aivm_remote_bridge_process_once: fread waits for a whole frame; one that is
\* too long stops the server.
ProcessOnce(c) ==
    /\ serving = c /\ transport = "stdio" /\ Len(stream[c]) >= 2
    /\ LET i == stream[c][1][2]
       IN  IF sent[c][i].kind = "unreadable"
           THEN Hangup(c) /\ UNCHANGED <<stream, session, local, answers>>
           ELSE /\ stream' = [stream EXCEPT ![c] = SubSeq(@, 3, Len(@))]
                /\ Respond(c, i)
    /\ UNCHANGED <<transport, sent, buffer, local>>
-----------------------------------------------------------------------------
(***************************************************************************)
(* A program's own calls: session and client are in one process.           *)
(***************************************************************************)
\* remote_session_ensure_ready: the configured capabilities are asked for.
Bootstrap(s) ==
    IF local.ready THEN [session |-> s, ok |-> TRUE]
    ELSE LET hello == EncodeHello(1, Name, 1, AllowedCaps, LocalCapacity)
         IN  IF hello.status # "ok" THEN [session |-> NewSession, ok |-> FALSE]
             ELSE LET done == ProcessFrame(NewSession, hello.cells, LocalCapacity)
                  IN  [session |-> done.session,
                       ok |-> /\ done.out.status = "ok"
                              /\ DecodeWelcome(done.out.cells).status = "ok"
                              /\ DecodeWelcome(done.out.cells).ints[1] = 1]

NextId(n) == IF (n + 1) % IdModulus = 0 THEN 1 ELSE (n + 1) % IdModulus

\* The answer as the syscall reports it: the result, or an error of this call.
Outcome(done, id, i) ==
    LET a == Received(done.out.cells)
    IN  IF done.out.status = "ok" /\ a.kind = "call" /\ a.id = id THEN [a EXCEPT !.id = i]
        ELSE [kind |-> "undecodable"]

\* The failures of a program's call before there is an answer.
Limits == 1
Token == 2
Unready == 3
Unencoded == 4
Refused(why, i) == [kind |-> "call", id |-> i, code |-> why, value |-> 0]

\* remote_session_invoke_call for the i-th call, which asks for k.
InvokeCall(c, k, i, boot) ==
    IF ~boot.ok THEN Reply(c, Refused(Unready, i)) /\ session' = boot.session /\ UNCHANGED local
    ELSE LET call == EncodeCall(local.nextId, k.cap, k.op, k.value, LocalCapacity)
         IN  /\ local' = [ready |-> TRUE, nextId |-> NextId(local.nextId)]
             /\ session' = boot.session
             /\ IF call.status # "ok" THEN Reply(c, Refused(Unencoded, i))
                ELSE Reply(c, Outcome(ProcessFrame(boot.session, call.cells, LocalCapacity), local.nextId, i))

\* native_syscall_remote_call: names that a frame cannot carry and a token that
\* does not match are refused first.
RemoteCall(c) ==
    /\ serving = c /\ transport \in {"local", "denied"}
    /\ Len(sent[c]) < FrameBound[c]
    /\ \E k \in Calls :
         LET i == Len(sent[c]) + 1
         IN  /\ sent' = [sent EXCEPT ![c] = Append(@, [kind |-> "call", call |-> k])]
             /\ IF Len(k.cap) > MaxText \/ Len(k.op) > MaxText
                THEN Reply(c, Refused(Limits, i)) /\ UNCHANGED <<session, local>>
                ELSE IF transport = "denied"
                THEN Reply(c, Refused(Token, i)) /\ UNCHANGED <<session, local>>
                ELSE InvokeCall(c, k, i, Bootstrap(session))
    /\ UNCHANGED <<transport, stream, buffer, serving, state>>

Next == \E c \in Clients :
    \/ Send(c) \/ Accept(c) \/ Receive(c) \/ Disconnect(c) \/ Overrun(c)
    \/ HandleFrame(c) \/ ProcessOnce(c) \/ RemoteCall(c)

\* The server's loops run while they can; clients owe nothing.  A frame once
\* decoded is always dealt with, so the guards of HandleFrame and ProcessOnce
\* say when they are enabled.
Fairness == \A c \in Clients :
    /\ WF_vars(Receive(c))
    /\ []<>~(serving = c /\ transport = "ws" /\ Decodable) \/ []<><<HandleFrame(c)>>_vars
    /\ []<>~(serving = c /\ transport = "stdio" /\ Len(stream[c]) >= 2) \/ []<><<ProcessOnce(c)>>_vars

Spec == Init /\ [][Next]_vars /\ Fairness
-----------------------------------------------------------------------------
(***************************************************************************)
(* What a client is promised, as a function of the frames it wrote.        *)
(***************************************************************************)
\* The frames the server gets to: up to one that ends the connection.
Reached(frames) ==
    {i \in DOMAIN frames :
        /\ frames[i].kind \notin {"garbled", "unreadable"}
        /\ \A j \in 1..(i - 1) : frames[j].kind \notin {"garbled", "unreadable", "close"}}

\* The capabilities the most recent HELLO before i asked for and may have; a
\* program's own session has all that are configured.
HeldAt(frames, i) ==
    LET hellos == {j \in 1..(i - 1) : frames[j].kind = "hello"}
    IN  IF transport = "local" THEN ToSet(AllowedCaps)
        ELSE UNION {ToSet(frames[j].caps) \intersect ToSet(AllowedCaps) :
                      j \in {k \in hellos : \A h \in hellos : h <= k}}

PromisedCode(frames, i) ==
    CASE Len(frames[i].call.cap) > MaxText -> Limits
      [] OTHER -> IF transport = "denied" THEN Token
                  ELSE IF transport # "local" /\ \A j \in 1..(i - 1) : frames[j].kind # "hello" THEN 401
                  ELSE IF frames[i].call.cap \notin HeldAt(frames, i) THEN 403
                  ELSE IF frames[i].call.cap = ServedCap /\ frames[i].call.op = EchoOp THEN 0 ELSE 404

PromisedCall(i, code, value) ==
    [kind |-> "call", id |-> i, code |-> code, value |-> IF code = 0 THEN value ELSE 0]

Promised(frames, i) ==
    CASE frames[i].kind = "hello" ->
           [kind |-> "welcome", id |-> i,
            caps |-> SelectSeq(frames[i].caps, LAMBDA c : c \in ToSet(AllowedCaps))]
      [] frames[i].kind = "call" -> PromisedCall(i, PromisedCode(frames, i), frames[i].call.value)
      [] frames[i].kind = "unknown" -> PromisedCall(0, 400, 0)
      [] frames[i].kind = "ping" -> [kind |-> "pong", id |-> i, size |-> frames[i].size,
                                     declared |-> frames[i].size]
      [] frames[i].kind = "close" -> [kind |-> "close", id |-> i]

PromisedAnswers(frames) ==
    LET answered == {i \in Reached(frames) : frames[i].kind # "skipped"}
        order    == SetToSortSeq(answered, LAMBDA a, b : a < b)
    IN  [k \in 1..Len(order) |-> Promised(frames, order[k])]

\* However the stream is cut into pieces and whatever other connections did
\* before, a client receives, in order and once each, exactly the answers its
\* own frames call for: a result only for a capability its latest HELLO asked
\* for and the configuration allows.  A program's own calls get what the
\* configuration grants, however often their numbers wrap.
AnswersAsPromised == \A c \in Clients : IsPrefix(answers[c], PromisedAnswers(sent[c]))

\* The capabilities in force are those of the connection being served.
GrantsAreOwn ==
    \A c \in Clients : serving = c /\ transport \in {"ws", "stdio"} =>
        ToSet(session.granted) \subseteq
            UNION {ToSet(sent[c][i].caps) : i \in {j \in DOMAIN sent[c] : sent[c][j].kind = "hello"}}

\* A served client gets every answer it is owed, unless its connection ends.
AnswersArrive ==
    \A c \in Clients :
        state[c] = "served" ~> \/ state[c] = "closed"
                               \/ answers[c] = PromisedAnswers(sent[c])
=============================================================================
