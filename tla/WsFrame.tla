------------------------------- MODULE WsFrame -------------------------------
(***************************************************************************)
(* The data-frame half of class WebSocketPacket (src/src/ws_packet.cpp):   *)
(* header parsing (fetch_frame_info), payload unmasking (fetch_payload),   *)
(* the completeness test (recv_dataframe) and serialization               *)
(* (pack_dataframe).  These are pure functions of a ByteBuffer.           *)
(*                                                                         *)
(* uint64_t values (payload_length_) do not fit TLC's integers, so they    *)
(* are kept as 8 bytes, least significant first (type U64).               *)
(***************************************************************************)
EXTENDS ByteBuffer, Bitwise, SequencesExt

CONSTANT HostLittleEndian   \* byte order of the build host (memcpy into ints)

ASSUME HostLittleEndian \in BOOLEAN

Byte == 0..255

WSOpcode_Continue == 0
WSOpcode_Text     == 1
WSOpcode_Binary   == 2
WSOpcode_Close    == 8
WSOpcode_Ping     == 9
WSOpcode_Pong     == 10

\* The opcodes process_message_data has a case for.
KnownOpcodes == {WSOpcode_Continue, WSOpcode_Text, WSOpcode_Binary,
                 WSOpcode_Close, WSOpcode_Ping, WSOpcode_Pong}

-----------------------------------------------------------------------------
(* 64-bit unsigned values as 8 little-endian bytes.                       *)

U64 == [1..8 -> Byte]

\* n < 2^31 as a U64
U64FromNat(n) == [k \in 1..8 |-> IF k <= 4 THEN (n \div 256^(k-1)) % 256 ELSE 0]

\* below 2^24: the only values a buffer in the model can hold
U64IsSmall(v) == \A k \in 4..8 : v[k] = 0

U64ToNat(v) == v[1] + 256 * v[2] + 65536 * v[3]

(***************************************************************************)
(* (v + h) mod 2^64 > n, for small h and n: the sum wraps exactly when     *)
(* bytes 2..8 of v are 0xFF and byte 1 is at least 256 - h.               *)
(***************************************************************************)
\* mutant: a frame that exactly fills the buffer is taken as incomplete
U64SumExceedsOrEqual(v, h, n) ==
    IF U64IsSmall(v) THEN U64ToNat(v) + h >= n
    ELSE IF (\A k \in 2..8 : v[k] = 255) /\ v[1] + h >= 256
         THEN v[1] + h - 256 >= n
         ELSE TRUE

U64SumExceeds(v, h, n) ==
    IF U64IsSmall(v) THEN U64ToNat(v) + h > n
    ELSE IF (\A k \in 2..8 : v[k] = 255) /\ v[1] + h >= 256
         THEN v[1] + h - 256 > n
         ELSE TRUE

\* The bytes of a memcpy into an integer, least significant first.
HostValue(bs) == IF HostLittleEndian THEN bs ELSE Reverse(bs)

(***************************************************************************)
(* Length type 126: uint16_t len filled by memcpy, then                    *)
(* len = (len << 8) | (len & 0xFF) truncated to 16 bits, which repeats the *)
(* least significant memory byte in both halves.                          *)
(***************************************************************************)
Decode16(bs) == HostValue(bs)[1] * 257

(***************************************************************************)
(* Length type 127: uint64_t len filled by memcpy, then                    *)
(* len = len<<56 | len<<48 | ... | len<<8 | len, so result byte k is the   *)
(* OR of memory bytes 1..k.                                               *)
(***************************************************************************)
Decode64(bs) ==
    LET d == HostValue(bs)
    IN  [k \in 1..8 |-> FoldLeft(LAMBDA a, x : a | x, 0, SubSeq(d, 1, k))]

-----------------------------------------------------------------------------
\* mutant: the opcode keeps the fin bit
frame_opcode_with_fin(byte0) == byte0

\* opcode_ = byte & 0x7F: the low 7 bits, so the RSV bits stay in the opcode.
frame_opcode(byte0) == byte0 % 128

(***************************************************************************)
(* int32_t WebSocketPacket::fetch_frame_info(ByteBuffer &input).  Every    *)
(* read_bytes_x is unchecked: a read that fails leaves its destination as  *)
(* it was, so a missing second byte re-uses the first one, a missing      *)
(* extended length reads as 0, and a missing masking key leaves           *)
(* masking_key_ uninitialized (uninit_key).  The header size returned is   *)
(* the cursor after the reads that succeeded.                              *)
(***************************************************************************)
fetch_frame_info(input, uninit_key) ==
  Then(read_bytes_x(input, 1), LAMBDA r1 :
  LET byte0 == IF r1.ok THEN r1.bytes[1] ELSE 0 IN
  Then(read_bytes_x(r1.buf, 1), LAMBDA r2 :
  LET byte1 == IF r2.ok THEN r2.bytes[1] ELSE byte0
      mask == (byte1 \div 128) % 2
      length_type == byte1 % 128
  IN
  Then(CASE length_type < 126 -> [ok |-> TRUE, bytes |-> <<>>, buf |-> r2.buf]
         [] length_type = 126 -> read_bytes_x(r2.buf, 2)
         [] OTHER             -> read_bytes_x(r2.buf, 8), LAMBDA r3 :
  Then(IF mask = 1 THEN read_bytes_x(r3.buf, 4)
       ELSE [ok |-> FALSE, bytes |-> <<>>, buf |-> r3.buf], LAMBDA r4 :
    [fin            |-> byte0 \div 128,
     opcode         |-> frame_opcode(byte0),
     mask           |-> mask,
     length_type    |-> length_type,
     payload_length |->
         CASE length_type < 126 -> U64FromNat(length_type)
           [] length_type = 126 -> U64FromNat(IF r3.ok THEN Decode16(r3.bytes) ELSE 0)
           [] OTHER             -> IF r3.ok THEN Decode64(r3.bytes) ELSE U64FromNat(0),
     masking_key    |-> IF r4.ok THEN r4.bytes ELSE uninit_key,
     header_size    |-> getoft(r4.buf),
     buf            |-> r4.buf]))))

Unmask(bytes, key) ==
    [i \in DOMAIN bytes |-> bytes[i] ^^ key[((i - 1) % 4) + 1]]

(***************************************************************************)
(* int32_t WebSocketPacket::fetch_payload(ByteBuffer &input).  It is only  *)
(* called once payload_length_ + header size <= length(), so every read    *)
(* of the masked loop succeeds and reading the n bytes at once is the      *)
(* same as reading them one by one.                                        *)
(***************************************************************************)
fetch_payload(fi) ==
    LET n == U64ToNat(fi.payload_length)
    IN  IF fi.mask = 1
        THEN LET r == read_bytes_x(fi.buf, n)
             IN  [payload |-> Unmask(r.bytes, fi.masking_key), buf |-> r.buf]
        ELSE [payload |-> SubSeq(curat(fi.buf), 1, n), buf |-> skip_x(fi.buf, n)]

(***************************************************************************)
(* uint64_t WebSocketPacket::recv_dataframe(ByteBuffer &input).            *)
(*   "more":  payload_length_ + header_size > input.length(): reset the    *)
(*            cursor and return 0;                                         *)
(*   "frame": the frame is consumed, ndf = getoft();                       *)
(*   "abort": the sum wrapped around 2^64, so fetch_payload runs with a    *)
(*            length near 2^64: the masked loop never ends and the        *)
(*            unmasked append gets a negative int size.  The process hangs *)
(*            or dies; nothing after this step is modelled.               *)
(***************************************************************************)
recv_dataframe(input, uninit_key) ==
    Then(fetch_frame_info(input, uninit_key), LAMBDA fi :
        IF U64SumExceeds(fi.payload_length, fi.header_size, length(input))
        THEN [status |-> "more", ndf |-> 0, frame |-> fi, payload |-> <<>>,
              buf |-> resetoft(fi.buf)]
        ELSE IF ~U64IsSmall(fi.payload_length)
        THEN [status |-> "abort", ndf |-> 0, frame |-> fi, payload |-> <<>>,
              buf |-> fi.buf]
        ELSE Then(fetch_payload(fi), LAMBDA fp :
                 [status |-> "frame", ndf |-> getoft(fp.buf), frame |-> fi,
                  payload |-> fp.payload, buf |-> fp.buf]))

-----------------------------------------------------------------------------
\* mutant: 125 already takes the 16-bit form
get_length_type_off_by_one(n) ==
    IF n < 125 THEN n ELSE IF n <= 65535 THEN 126 ELSE 127

\* const uint8_t WebSocketPacket::get_length_type()
get_length_type(n) ==
    IF n < 126 THEN n ELSE IF n <= 65535 THEN 126 ELSE 127

(***************************************************************************)
(* int32_t WebSocketPacket::pack_dataframe(ByteBuffer &output) for a       *)
(* packet p = [fin, rsv1, rsv2, rsv3, opcode, mask, masking_key, payload]  *)
(* whose payload_length_ was set by set_payload.                          *)
(***************************************************************************)
pack_dataframe(p) ==
    LET n == Len(p.payload)
        lt == get_length_type(n)
        byte0 == ((p.fin * 128) | (p.rsv1 * 64) | (p.rsv2 * 32) | (p.rsv3 * 16)
                  | (p.opcode & 15)) % 256
        byte1 == (p.mask * 128) % 256
        lengthBytes ==
             CASE lt < 126 -> <<byte1 | n>>
               [] lt = 126 -> <<byte1 | 126, (n \div 256) % 256, n % 256>>
               [] OTHER    -> <<byte1 | 127>> \o Reverse(U64FromNat(n))
        body == IF p.mask = 1 THEN p.masking_key \o Unmask(p.payload, p.masking_key)
                ELSE p.payload
    IN  <<byte0>> \o lengthBytes \o body

=============================================================================
