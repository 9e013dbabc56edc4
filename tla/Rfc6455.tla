------------------------------- MODULE Rfc6455 -------------------------------
(***************************************************************************)
(* Reference definitions from RFC 6455 section 5.2, independent of the     *)
(* code: how a frame [fin, opcode, mask, masking_key, payload] with        *)
(* rsv1..3 = 0 is laid out on the wire.  Used as the client's encoder and  *)
(* as the reference the code's encoder and decoder are checked against.  *)
(***************************************************************************)
EXTENDS Naturals, Sequences, Bitwise

\* Octet i of the payload is XORed with octet (i - 1) mod 4 of the key.
RFCMask(payload, key) ==
    [i \in DOMAIN payload |-> payload[i] ^^ key[((i - 1) % 4) + 1]]

\* Payload length: 7 bits, or 126 + 16 bits, or 127 + 64 bits, big-endian.
RFCLength(mask, n) ==
    IF n < 126 THEN <<mask * 128 + n>>
    ELSE IF n < 65536 THEN <<mask * 128 + 126, n \div 256, n % 256>>
    ELSE <<mask * 128 + 127, 0, 0, 0, 0,
           (n \div 16777216) % 256, (n \div 65536) % 256, (n \div 256) % 256, n % 256>>

RFCHeader(f) ==
    <<f.fin * 128 + f.opcode>>
    \o RFCLength(f.mask, Len(f.payload))
    \o (IF f.mask = 1 THEN f.masking_key ELSE <<>>)

RFCEncode(f) ==
    RFCHeader(f) \o (IF f.mask = 1 THEN RFCMask(f.payload, f.masking_key)
                     ELSE f.payload)

=============================================================================
