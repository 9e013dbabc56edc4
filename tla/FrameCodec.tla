------------------------------ MODULE FrameCodec ------------------------------
(***************************************************************************)
(* The frame codec of ws_packet.cpp checked against RFC 6455 (Rfc6455)     *)
(* over a bounded set of frames: each state is one frame; nothing moves.  *)
(* masking_key_ has no setter in WebSocketPacket, so pack_dataframe masks  *)
(* with whatever the field holds: here, the frame's masking_key.          *)
(***************************************************************************)
EXTENDS WsFrame, Rfc6455

CONSTANTS Opcodes,   \* opcodes to try
          Lengths,   \* payload lengths to try
          Keys       \* masking keys to try

VARIABLE pkt

\* A payload of n bytes.
PayloadOf(n) == [i \in 1..n |-> i % 3]

Packets ==
    [fin : {0, 1}, rsv1 : {0}, rsv2 : {0}, rsv3 : {0}, opcode : Opcodes,
     mask : {0, 1}, masking_key : Keys, payload : {PayloadOf(n) : n \in Lengths}]

Init == pkt \in Packets

Next == UNCHANGED pkt

Spec == Init /\ [][Next]_pkt

(***************************************************************************)
(* recv_dataframe, given exactly the bytes of one RFC-encoded frame,      *)
(* consumes all of them and yields its fin, opcode, mask and unmasked     *)
(* payload (spec section 8, round trip; fetch_frame_info's length          *)
(* branches).                                                              *)
(***************************************************************************)
DecodesRFC ==
    LET bytes == RFCEncode(pkt)
        r == recv_dataframe([data |-> bytes, oft |-> 0], <<0, 0, 0, 0>>)
    IN  /\ r.status = "frame"
        /\ r.ndf = Len(bytes)
        /\ r.frame.fin = pkt.fin
        /\ r.frame.opcode = pkt.opcode
        /\ r.frame.mask = pkt.mask
        /\ r.payload = pkt.payload

(***************************************************************************)
(* pack_dataframe lays a frame out byte for byte as RFC 6455 does (spec    *)
(* section 8, golden frame and length-type boundaries).                   *)
(***************************************************************************)
EncodesAsRFC == pack_dataframe(pkt) = RFCEncode(pkt)

=============================================================================
