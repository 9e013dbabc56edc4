------------------------------ MODULE MC_Client ------------------------------
(***************************************************************************)
(* The clients the models are checked against: a handshake request (text  *)
(* lines as model values, CR = 13, LF = 10) and RFC 6455 frames (opcodes  *)
(* Text = 1, Continue = 0, Binary = 2, Ping = 9).                         *)
(***************************************************************************)
EXTENDS Naturals, Sequences, TLC

CONSTANTS ReqLine, UpgradeLine, ConnectionLine, VersionLine, KeyLine

MCLines == {ReqLine, UpgradeLine, ConnectionLine, VersionLine, KeyLine}

\* "GET /chat HTTP/1.1", "Upgrade: websocket", "Connection: Upgrade",
\* "Sec-WebSocket-Version: 13", "Sec-WebSocket-Key: dGhl..."
MCLineInfo ==
    (ReqLine        :> [ntok |-> 3, key |-> "", val |-> ""]) @@
    (UpgradeLine    :> [ntok |-> 2, key |-> "Upgrade", val |-> "websocket"]) @@
    (ConnectionLine :> [ntok |-> 2, key |-> "Connection", val |-> "Upgrade"]) @@
    (VersionLine    :> [ntok |-> 2, key |-> "Sec-WebSocket-Version", val |-> "13"]) @@
    (KeyLine        :> [ntok |-> 2, key |-> "Sec-WebSocket-Key", val |-> "dGhl"])

MCRequest ==
    <<ReqLine, 13, 10, UpgradeLine, 13, 10, ConnectionLine, 13, 10,
      VersionLine, 13, 10, KeyLine, 13, 10, 13, 10>>

Key1 == <<1, 2, 3, 0>>
Key2 == <<0, 3, 1, 2>>

\* text "ab" (fin = 0), continue "c" (fin = 1), ping "d"
MCClientFrames ==
    << [fin |-> 0, opcode |-> 1, mask |-> 1, masking_key |-> Key1, payload |-> <<1, 2>>],
       [fin |-> 1, opcode |-> 0, mask |-> 1, masking_key |-> Key2, payload |-> <<3>>],
       [fin |-> 1, opcode |-> 9, mask |-> 1, masking_key |-> Key1, payload |-> <<2>>] >>

\* text "ab" (fin = 0), a ping "d" between the fragments, continue "c" (fin = 1)
MCClientFramesPingInside ==
    << [fin |-> 0, opcode |-> 1, mask |-> 1, masking_key |-> Key1, payload |-> <<1, 2>>],
       [fin |-> 1, opcode |-> 9, mask |-> 1, masking_key |-> Key1, payload |-> <<2>>],
       [fin |-> 1, opcode |-> 0, mask |-> 1, masking_key |-> Key2, payload |-> <<3>>] >>

\* one masked binary frame of 126 bytes: the 16-bit extended length
MCClientFramesLong ==
    << [fin |-> 1, opcode |-> 2, mask |-> 1, masking_key |-> Key1,
        payload |-> [i \in 1..126 |-> i % 4]] >>

\* the request without its Sec-WebSocket-Version line: an invalid handshake
MCRequestNoVersion ==
    <<ReqLine, 13, 10, UpgradeLine, 13, 10, ConnectionLine, 13, 10,
      KeyLine, 13, 10, 13, 10>>

=============================================================================
