--------------------------- MODULE MCRemoteBridge ---------------------------
(***************************************************************************)
(* Two connections: one that sends every kind of frame and one that calls  *)
(* without a handshake, before or after the other.                         *)
(***************************************************************************)
EXTENDS RemoteBridge, TLC

CONSTANTS c1, c2

MCKinds == (c1 :> {"hello", "call", "unknown", "ping", "garbled", "skipped", "unreadable", "close"})
           @@ (c2 :> {"call"})
MCFrameBound == (c1 :> 3) @@ (c2 :> 1)

\* A name that begins another, and one that is too long.
MCServed == <<1, 2>>
Begun == <<1>>
MCAllowed == <<MCServed>>
MCHellos == {<<Begun>>, <<Begun, MCServed>>}
MCEcho == <<4>>
MCCalls == { [cap |-> MCServed, op |-> MCEcho, value |-> 8], [cap |-> MCServed, op |-> <<>>, value |-> 8],
             [cap |-> Begun, op |-> MCEcho, value |-> 8], [cap |-> <<1, 2, 3>>, op |-> MCEcho, value |-> 8] }
MCDamages == { [of |-> HELLO, how |-> "extra"], [of |-> HELLO, how |-> "long"],
               [of |-> CALL, how |-> "cut"], [of |-> CALL, how |-> "short"] }
MCName == <<5>>
MCMessage == [code \in {400, 401, 403, 404} |-> <<6, 7>>]
=============================================================================
