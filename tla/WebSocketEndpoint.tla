-------------------------- MODULE WebSocketEndpoint --------------------------
(***************************************************************************)
(* One connection's session (class WebSocketEndpoint, ws_endpoint.cpp)     *)
(* fed by a client through arbitrary TCP read boundaries.                 *)
(*                                                                         *)
(* The client sends Wire: its handshake request (Request, text symbols),   *)
(* its frames (ClientFrames, serialized as RFC 6455 says) and Trailer (raw *)
(* bytes, for malformed input).  Each step is one call of                 *)
(* process(readbuf, size, cb, wd) on the next 1..MaxChunk symbols: the     *)
(* whole from_wire loop, with every parse_packet, to_wire and              *)
(* process_message_data it makes, happens in that one step.               *)
(*                                                                         *)
(* Two fields are read uninitialized by the code; each read is a          *)
(* nondeterministic choice made per call: hs_length_ (from StackGarbage)   *)
(* and masking_key_ (from UninitKey).                                      *)
(***************************************************************************)
EXTENDS WsFrame, WsHandshake, Rfc6455

CONSTANTS Request,       \* the handshake request, as text symbols
          ClientFrames,  \* Seq([fin, opcode, mask, masking_key, payload])
          Trailer,       \* raw bytes sent after the frames
          MaxChunk,      \* largest read handed to process()
          StackGarbage,  \* values an uninitialized hs_length_ may hold
          UninitKey      \* values an uninitialized masking_key_ may hold

ASSUME MaxChunk \in Nat \ {0}
ASSUME StackGarbage \subseteq Nat /\ 0 \in StackGarbage
ASSUME UninitKey # {} /\ \A k \in UninitKey : k \in [1..4 -> Byte]

-----------------------------------------------------------------------------
(* The client, which encodes its frames as RFC 6455 says (Rfc6455).      *)

\* Wire offset (symbols before it) at which client frame j starts.
FrameStart(j) ==
    Len(Request) + Len(FlattenSeq([i \in 1..(j - 1) |-> RFCEncode(ClientFrames[i])]))

FrameEnd(j) == FrameStart(j) + Len(RFCEncode(ClientFrames[j]))

Wire == Request \o FlattenSeq([i \in DOMAIN ClientFrames |-> RFCEncode(ClientFrames[i])])
                \o Trailer

\* Read boundaries that fall strictly inside a frame header.
HeaderInterior ==
    UNION {FrameStart(j) + 1 .. FrameStart(j) + Len(RFCHeader(ClientFrames[j])) - 1 :
           j \in DOMAIN ClientFrames}

(***************************************************************************)
(* What the server should hand to its message handler (spec section 3):    *)
(* a Text or Binary frame and the Continue frames after it form one       *)
(* message, closed by the frame with fin = 1 and carrying the first        *)
(* frame's opcode; a control frame (opcode >= 8) is a message of its own.  *)
(* Each message records the wire offset at which its last frame ends.     *)
(***************************************************************************)
ExpectedMessages ==
    LET Step(acc, j) ==
          LET f == ClientFrames[j]
          IN  IF f.opcode >= 8
              THEN [acc EXCEPT !.out = Append(@, [opcode |-> f.opcode,
                                data |-> f.payload, end |-> FrameEnd(j)])]
              ELSE LET op == IF f.opcode = WSOpcode_Continue THEN acc.op ELSE f.opcode
                       data == acc.data \o f.payload
                   IN  IF f.fin = 1
                       THEN [op |-> 0, data |-> <<>>,
                             out |-> Append(acc.out, [opcode |-> op, data |-> data,
                                                      end |-> FrameEnd(j)])]
                       ELSE [acc EXCEPT !.op = op, !.data = data]
    IN  FoldLeft(Step, [op |-> 0, data |-> <<>>, out |-> <<>>],
                 [j \in DOMAIN ClientFrames |-> j]).out

ExpectedUpTo(p) == SelectSeq(ExpectedMessages, LAMBDA m : m.end <= p)

-----------------------------------------------------------------------------
(* The session, one call of process() at a time.                          *)

(***************************************************************************)
(* An endpoint record st: the class members fromwire_buf_,                  *)
(* ws_handshake_completed_ and message_data_, plus what the current call   *)
(* has done: out (to_wire calls), dlv (process_message_data calls), rc     *)
(* (from_wire's return value) and crashed.                                *)
(***************************************************************************)

\* int32_t WebSocketEndpoint::to_wire: the write callback gets the buffer.
to_wire(st, w) == [st EXCEPT !.out = Append(@, w)]

\* int32_t WebSocketEndpoint::user_defined_process: echo as one fin frame.
user_defined_process(st, opcode, data) ==
    to_wire(st, [kind  |-> "frame",
                 bytes |-> pack_dataframe([fin |-> 1, rsv1 |-> 0, rsv2 |-> 0,
                             rsv3 |-> 0, opcode |-> opcode, mask |-> 0,
                             masking_key |-> <<0, 0, 0, 0>>, payload |-> data])])

\* mutant: the switch of process_message_data without its Continue case
process_message_data_noContinue(st, opcode, data) ==
    LET st2 == [st EXCEPT !.dlv = Append(@, [opcode |-> opcode, data |-> data])]
    IN  IF opcode \in KnownOpcodes \ {WSOpcode_Continue}
        THEN user_defined_process(st2, opcode, data)
        ELSE st2

\* int32_t WebSocketEndpoint::process_message_data: the default case drops it.
process_message_data(st, opcode, data) ==
    LET st2 == [st EXCEPT !.dlv = Append(@, [opcode |-> opcode, data |-> data])]
    IN  IF opcode \in KnownOpcodes THEN user_defined_process(st2, opcode, data)
        ELSE st2

(***************************************************************************)
(* int64_t WebSocketEndpoint::parse_packet(ByteBuffer &input): n is the    *)
(* return value (> 0 bytes used, 0 need more, -1 error).  g is what the    *)
(* uninitialized hs_length_ holds, uk what masking_key_ holds.            *)
(***************************************************************************)
parse_packet(st, g, uk) ==
    IF ~st.ws_handshake_completed
    THEN Then(recv_handshake(st.fromwire_buf), LAMBDA r :
         LET hs == IF r.hs_set THEN r.hs_length ELSE g
             st2 == [st EXCEPT !.fromwire_buf = r.buf]
         IN  IF r.rc # 0 THEN [st |-> st2, n |-> -1]
             ELSE IF hs = 0 THEN [st |-> st2, n |-> 0]
             ELSE [st |-> [to_wire(st2, pack_handshake_rsp(r.params))
                             EXCEPT !.ws_handshake_completed = TRUE],
                   n |-> hs])
    ELSE Then(recv_dataframe(st.fromwire_buf, uk), LAMBDA r :
         Then(append(st.message_data, r.payload), LAMBDA msg :
         LET st2 == [st EXCEPT !.fromwire_buf = r.buf, !.message_data = msg]
         IN  IF r.status = "abort" THEN [st |-> [st2 EXCEPT !.crashed = TRUE], n |-> 0]
             ELSE IF r.ndf = 0 THEN [st |-> [st EXCEPT !.fromwire_buf = r.buf], n |-> 0]
             ELSE IF r.frame.fin = 1
             THEN [st |-> [process_message_data(st2, r.frame.opcode, msg.data)
                             EXCEPT !.message_data = resetoft(erase(msg, length(msg)))],
                   n |-> r.ndf]
             ELSE [st |-> st2, n |-> r.ndf]))

(***************************************************************************)
(* The loop of int32_t WebSocketEndpoint::from_wire after the append:      *)
(* erase what a packet used and rewind, and go on while bytes remain.      *)
(***************************************************************************)
RECURSIVE FromWireLoop(_, _, _)
FromWireLoop(st, g, uk) ==
    Then(parse_packet(st, g, uk), LAMBDA r :
        IF r.st.crashed THEN r.st
        ELSE IF r.n > 0
        THEN Then([r.st EXCEPT !.fromwire_buf = resetoft(erase(@, r.n))], LAMBDA st2 :
                 IF length(st2.fromwire_buf) = 0 THEN [st2 EXCEPT !.rc = r.n]
                 ELSE FromWireLoop(st2, g, uk))
        ELSE IF r.n = 0 THEN [r.st EXCEPT !.fromwire_buf = resetoft(@), !.rc = 0]
        ELSE [r.st EXCEPT !.rc = -1])

\* int32_t WebSocketEndpoint::from_wire(const char *readbuf, int32_t size)
from_wire(st, readbuf, g, uk) ==
    FromWireLoop([st EXCEPT !.fromwire_buf = append(@, readbuf),
                            !.out = <<>>, !.dlv = <<>>], g, uk)

-----------------------------------------------------------------------------
VARIABLES fromwire_buf, ws_handshake_completed, message_data,
          sent,        \* how much of Wire has been handed to process()
          delivered,   \* every process_message_data call so far
          written,     \* every to_wire call so far
          split_header, \* some read boundary fell inside a frame header (history)
          crashed      \* the process hung or died inside process()

vars == <<fromwire_buf, ws_handshake_completed, message_data, sent,
          delivered, written, split_header, crashed>>

Endpoint == [fromwire_buf |-> fromwire_buf,
             ws_handshake_completed |-> ws_handshake_completed,
             message_data |-> message_data,
             out |-> <<>>, dlv |-> <<>>, rc |-> 0, crashed |-> crashed]

\* WebSocketEndpoint::WebSocketEndpoint()
Init ==
    /\ fromwire_buf = EmptyBuffer
    /\ ws_handshake_completed = FALSE
    /\ message_data = EmptyBuffer
    /\ sent = 0
    /\ delivered = <<>>
    /\ written = <<>>
    /\ split_header = FALSE
    /\ crashed = FALSE

(***************************************************************************)
(* int32_t WebSocketEndpoint::process(readbuf, size, write_cb, work_data)  *)
(* on the next k symbols (main.cpp always passes a callback and work data, *)
(* so the NULL early return is never taken).                              *)
(***************************************************************************)
process(k, g, uk) ==
    /\ ~crashed
    /\ sent + k <= Len(Wire)
    /\ \E r \in {from_wire(Endpoint, SubSeq(Wire, sent + 1, sent + k), g, uk)} :
           /\ fromwire_buf' = r.fromwire_buf
           /\ ws_handshake_completed' = r.ws_handshake_completed
           /\ message_data' = r.message_data
           /\ delivered' = delivered \o r.dlv
           /\ written' = written \o r.out
           /\ crashed' = r.crashed
    /\ sent' = sent + k
    /\ split_header' = (split_header \/ sent + k \in HeaderInterior)

Next == \E k \in 1..MaxChunk, g \in StackGarbage, uk \in UninitKey : process(k, g, uk)

Spec == Init /\ [][Next]_vars

-----------------------------------------------------------------------------
(* Properties.                                                            *)

TypeOK ==
    /\ fromwire_buf \in Buffer(Byte \cup Lines)
    /\ ws_handshake_completed \in BOOLEAN
    /\ message_data \in Buffer(Byte)
    /\ sent \in 0..Len(Wire)
    /\ delivered \in Seq([opcode : 0..127, data : Seq(Byte)])
    /\ split_header \in BOOLEAN
    /\ crashed \in BOOLEAN

DeliveredData == [i \in DOMAIN delivered |-> delivered[i].data]

ExpectedDataUpTo(p) == [i \in DOMAIN ExpectedUpTo(p) |-> ExpectedUpTo(p)[i].data]

(***************************************************************************)
(* Whenever no read boundary has fallen inside a frame header, the         *)
(* messages process_message_data has been given are exactly the messages   *)
(* whose last frame has fully arrived, in order: parse_packet/from_wire    *)
(* wait for partial payloads, unmask, join Continue frames and clear the  *)
(* accumulator correctly, whatever the read sizes.                        *)
(***************************************************************************)
FramingWithWholeHeaders ==
    ~split_header => DeliveredData = ExpectedDataUpTo(sent)

(***************************************************************************)
(* Spec section 8, fragmentation independence: whatever the read           *)
(* boundaries, the messages delivered so far are exactly those whose last  *)
(* frame has arrived.                                                      *)
(***************************************************************************)
FragmentationIndependence == DeliveredData = ExpectedDataUpTo(sent)

\* The Sec-WebSocket-Key values the client's request carries.
RequestKeys ==
    {LineInfo[Request[i]].val : i \in {i \in DOMAIN Request :
        Request[i] \in Lines /\ LineInfo[Request[i]].key = "Sec-WebSocket-Key"}}

(***************************************************************************)
(* Not checked by a run: it holds only when hs_length_ happens to be 0.    *)
(* parse_packet writes the 101 response only once the client's whole      *)
(* request, through its blank line, has been handed to process(), and     *)
(* answers the key the client sent.                                       *)
(***************************************************************************)
HandshakeOnlyAfterCompleteRequest ==
    [][\A i \in (Len(written) + 1)..Len(written') :
          written'[i].kind = "handshake" =>
              /\ sent' >= Len(Request)
              /\ written'[i].accept \in RequestKeys]_vars

(***************************************************************************)
(* With whole headers, process_message_data gets each message with the     *)
(* opcode of its first frame (spec section 3): a Text message sent as      *)
(* Text + Continue frames is still a Text message.                        *)
(***************************************************************************)
MessageOpcodes ==
    ~split_header =>
        [i \in DOMAIN delivered |-> delivered[i].opcode]
            = [i \in DOMAIN ExpectedUpTo(sent) |-> ExpectedUpTo(sent)[i].opcode]

(***************************************************************************)
(* No client input, however malformed, makes process() hang or kill the   *)
(* server (spec section 7: parse errors are local to a connection).       *)
(***************************************************************************)
NeverCrashes == ~crashed

(***************************************************************************)
(* Spec section 4.4, output discipline, as main.cpp needs it: one call of  *)
(* process() hands at most one buffer to the write callback, since         *)
(* on_write_response calls fail(), ending the server, on a second one.     *)
(* Stated for reads that end on whole frame headers, so that a violation  *)
(* comes from what the client sent in one read (pipelining), not from the *)
(* split-header mis-parse.                                                *)
(***************************************************************************)
OneWritePerRead == [][~split_header' => Len(written') - Len(written) <= 1]_vars

=============================================================================
