----------------------------- MODULE WsHandshake -----------------------------
(***************************************************************************)
(* The handshake half of class WebSocketPacket (src/src/ws_packet.cpp):    *)
(* recv_handshake, fetch_hs_element and pack_handshake_rsp.               *)
(*                                                                         *)
(* The request text is abstracted to symbols: the bytes CR (13) and LF     *)
(* (10), and one symbol per text line.  LineInfo gives what the code reads *)
(* from a line: how many SP-separated tokens it has, and, for a line with  *)
(* a colon, its trimmed key and value ("" when empty after trim).  A line  *)
(* without a colon has key "".  Cutting the stream inside a line is not    *)
(* modelled: a partial line never contains CR LF CR LF, so it is handled   *)
(* exactly like the missing line.                                         *)
(***************************************************************************)
EXTENDS ByteBuffer, Integers, SequencesExt

CONSTANTS Lines,                        \* the line symbols
          LineInfo,                     \* [Lines -> [ntok : Nat, key : STRING, val : STRING]]
          WS_MAX_HANDSHAKE_FRAME_SIZE   \* 1024 * 1000 in ws_packet.h, scaled to symbols

CR == 13
LF == 10
EOL == <<CR, LF>>

WS_ERROR_INVALID_HANDSHAKE_PARAMS == 10070

\* The 1-based index of the first CR LF CR LF in msg, 0 if there is none.
FindDoubleEOL(msg) ==
    LET hits == {i \in 1..(Len(msg) - 3) : SubSeq(msg, i, i + 3) = EOL \o EOL}
    IN  IF hits = {} THEN 0 ELSE CHOOSE i \in hits : \A j \in hits : i <= j

(***************************************************************************)
(* strHelper::splitStr(lines, s, EOL): the pieces of s between CR LF       *)
(* delimiters.  string_helper.inl is not in the repository; this follows   *)
(* the spec ("split the region before the terminator into lines").        *)
(***************************************************************************)
RECURSIVE splitStr(_)
splitStr(s) ==
    LET cut == {i \in 1..(Len(s) - 1) : SubSeq(s, i, i + 1) = EOL}
    IN  IF cut = {} THEN <<s>>
        ELSE LET i == CHOOSE c \in cut : \A j \in cut : c <= j
             IN  <<SubSeq(s, 1, i - 1)>> \o splitStr(SubSeq(s, i + 2, Len(s)))

\* A piece is blank when trim() leaves nothing.  trim strips only spaces,
\* and no line symbol stands for a line of spaces: only the empty piece.
IsBlank(piece) == piece = <<>>

\* The line symbol of a non-blank piece.
LineOf(piece) == piece[CHOOSE i \in DOMAIN piece : piece[i] \in Lines]

\* params_[k] = v: a later header of the same name overwrites an earlier one.
SetParam(params, k, v) ==
    [x \in DOMAIN params \cup {k} |-> IF x = k THEN v ELSE params[x]]

get_param(params, name) == IF name \in DOMAIN params THEN params[name] ELSE ""

(***************************************************************************)
(* int32_t WebSocketPacket::fetch_hs_element(const std::string &msg):      *)
(* -1 when there is no CR LF CR LF, fewer than 2 lines before it, or a     *)
(* first non-blank line with fewer than 3 tokens; otherwise endpos + 4     *)
(* (endpos 0-based), with params_ filled from the header lines that have   *)
(* a non-empty key and value.                                              *)
(***************************************************************************)
fetch_hs_element(msg) ==
  Then(FindDoubleEOL(msg), LAMBDA i :
  IF i = 0 THEN [size |-> -1, params |-> <<>>]
  ELSE Then(splitStr(SubSeq(msg, 1, i - 1)), LAMBDA lines :
    LET nonBlank == {j \in DOMAIN lines : ~IsBlank(lines[j])}
        first == CHOOSE j \in nonBlank : \A k \in nonBlank : j <= k
        headers == [k \in 1..(Len(lines) - first) |-> lines[first + k]]
        AddHeader(params, piece) ==
            IF IsBlank(piece) THEN params
            ELSE LET info == LineInfo[LineOf(piece)]
                 IN  IF info.key = "" \/ info.val = "" THEN params
                     ELSE SetParam(params, info.key, info.val)
    IN  IF Len(lines) < 2 \/ nonBlank = {}
           \/ LineInfo[LineOf(lines[first])].ntok < 3
        THEN [size |-> -1, params |-> <<>>]
        ELSE [size |-> (i - 1) + 4, params |-> FoldLeft(AddHeader, <<>>, headers)]))

\* The header test of recv_handshake (case-sensitive, as received).
ValidParams(params) ==
    /\ get_param(params, "Upgrade") = "websocket"
    /\ get_param(params, "Connection") = "Upgrade"
    /\ get_param(params, "Sec-WebSocket-Version") = "13"
    /\ get_param(params, "Sec-WebSocket-Key") # ""

(***************************************************************************)
(* int32_t WebSocketPacket::recv_handshake(ByteBuffer &input).  rc is the  *)
(* returned error code (0 = no error).  hs_length is the value hs_length_  *)
(* was given (hs_set), or not: the constructor never initializes          *)
(* hs_length_,                                                            *)
(* so on the "need more data" path the caller reads an uninitialized       *)
(* field.                                                                  *)
(***************************************************************************)
recv_handshake(input) ==
    IF length(input) > WS_MAX_HANDSHAKE_FRAME_SIZE
    THEN [rc |-> WS_MAX_HANDSHAKE_FRAME_SIZE, hs_set |-> FALSE, hs_length |-> 0,
          params |-> <<>>, buf |-> input]
    ELSE Then(fetch_hs_element(input.data), LAMBDA e :
             IF e.size <= 0
             THEN [rc |-> 0, hs_set |-> FALSE, hs_length |-> 0, params |-> e.params,
                   buf |-> resetoft(input)]
             ELSE IF ~ValidParams(e.params)
             THEN [rc |-> WS_ERROR_INVALID_HANDSHAKE_PARAMS, hs_set |-> FALSE, hs_length |-> 0,
                   params |-> e.params, buf |-> resetoft(input)]
             ELSE [rc |-> 0, hs_set |-> TRUE, hs_length |-> e.size, params |-> e.params,
                   buf |-> skip_x(input, e.size)])

(***************************************************************************)
(* int32_t WebSocketPacket::pack_handshake_rsp(std::string &hs_rsp).  The  *)
(* response is kept as the values it is built from: the accept key is      *)
(* base64(SHA1(key + magic)), an injective function of the client key,    *)
(* represented by the key itself; the protocol line is the fixed "chat"    *)
(* whenever the client asked for any protocol.                            *)
(***************************************************************************)
pack_handshake_rsp(params) ==
    [kind     |-> "handshake",
     accept   |-> get_param(params, "Sec-WebSocket-Key"),
     protocol |-> IF get_param(params, "Sec-WebSocket-Protocol") # ""
                  THEN "chat" ELSE ""]

=============================================================================
