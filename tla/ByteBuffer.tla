----------------------------- MODULE ByteBuffer -----------------------------
(***************************************************************************)
(* The growable byte buffer with a read cursor of src/src/ws_packet.cpp    *)
(* (class ByteBuffer).  A buffer is a record [data |-> bytes, oft |-> n]:  *)
(* data is std::vector<char> data, oft is the uint32_t read offset.  Every *)
(* method is an operator from a buffer to a buffer (or to a result).      *)
(* The elements of data are whatever the caller appends: bytes (0..255)   *)
(* for frames, or the text symbols of the handshake codec.                *)
(***************************************************************************)
EXTENDS Naturals, Sequences

Buffer(D) == [data : Seq(D), oft : Nat]

EmptyBuffer == [data |-> <<>>, oft |-> 0]

\* int ByteBuffer::length()
length(b) == Len(b.data)

\* int ByteBuffer::getoft()
getoft(b) == b.oft

\* void ByteBuffer::resetoft(): the cursor goes back to the first byte.
resetoft(b) == [b EXCEPT !.oft = 0]

(***************************************************************************)
(* bool ByteBuffer::require(int size): size <= len - oft.  len is an int  *)
(* and oft a uint32_t, so the subtraction is unsigned: when oft > len it   *)
(* wraps to 2^32 - (oft - len) and every non-negative size is "available".*)
(***************************************************************************)
require(b, size) ==
    IF b.oft > Len(b.data) THEN TRUE
    ELSE size <= Len(b.data) - b.oft

\* bool ByteBuffer::skip_x(int size): advance only if size bytes remain.
skip_x(b, size) ==
    IF require(b, size) THEN [b EXCEPT !.oft = @ + size] ELSE b

(***************************************************************************)
(* bool ByteBuffer::read_bytes_x(char *cb, int size): copy size bytes at   *)
(* the cursor and advance; on failure nothing is copied and the caller's   *)
(* destination keeps its previous contents.                               *)
(***************************************************************************)
read_bytes_x(b, size) ==
    IF require(b, size)
    THEN [ok |-> TRUE, bytes |-> SubSeq(b.data, b.oft + 1, b.oft + size),
          buf |-> [b EXCEPT !.oft = @ + size]]
    ELSE [ok |-> FALSE, bytes |-> <<>>, buf |-> b]

(***************************************************************************)
(* void ByteBuffer::erase(int size): drop size bytes from the front;       *)
(* non-positive sizes are ignored, sizes >= length() clear the buffer.     *)
(* The cursor is left where it was.                                       *)
(***************************************************************************)
erase(b, size) ==
    IF size <= 0 THEN b
    ELSE IF size >= Len(b.data) THEN [b EXCEPT !.data = <<>>]
    ELSE [b EXCEPT !.data = SubSeq(@, size + 1, Len(@))]

\* void ByteBuffer::append(const char *bytes, int size)
append(b, s) == [b EXCEPT !.data = @ \o s]

\* char *ByteBuffer::curat(): the bytes from the cursor on.
curat(b) == SubSeq(b.data, b.oft + 1, Len(b.data))

-----------------------------------------------------------------------------
(***************************************************************************)
(* F applied to the value of e, with e computed once: the codecs chain     *)
(* results (a read, then the next read on its buffer), and binding each    *)
(* one to a bound variable keeps TLC from expanding it again at every use. *)
(***************************************************************************)
Then(e, F(_)) == CHOOSE y \in {F(x) : x \in {e}} : TRUE

=============================================================================
