---------------------------- MODULE EchoConnection ----------------------------
(***************************************************************************)
(* What one connection of the echo server promises its client, stated at  *)
(* the level of the socket and independent of how main.cpp and            *)
(* WebSocketEndpoint are built (spec sections 3 to 5).                    *)
(*                                                                         *)
(* The client sends WireLen symbols: a handshake request of RequestLen     *)
(* symbols carrying one of the keys Keys, then frames that form the        *)
(* messages Messages; message i is complete once Messages[i].end symbols   *)
(* have arrived.  The server owes one handshake response (accepting the    *)
(* client's key) once the request has arrived, and then one echo per       *)
(* completed message, in order: a single unmasked frame with fin = 1 and   *)
(* the message's data, laid out as RFC 6455 says.  The echo's opcode is    *)
(* left open here (MessageOpcodes is about it).                          *)
(*                                                                         *)
(* The process may stop at any step (fail(), a hang, a crash); after that  *)
(* nothing happens.  While it runs, every owed response is eventually on   *)
(* the socket.                                                            *)
(***************************************************************************)
EXTENDS Naturals, Sequences, Rfc6455

CONSTANTS WireLen,     \* symbols the client sends
          RequestLen,  \* symbols of its handshake request
          Keys,        \* the Sec-WebSocket-Key values of the request
          Messages,    \* Seq([data, end]): the client's messages, in order
          Opcodes      \* the opcodes an echo may carry

ASSUME RequestLen <= WireLen
ASSUME \A i \in DOMAIN Messages : RequestLen < Messages[i].end /\ Messages[i].end <= WireLen

VARIABLES rcvd,     \* symbols the server has read
          out,      \* responses the socket has carried, in order
          closed,   \* the server has seen the client's close
          stopped   \* the process has stopped

avars == <<rcvd, out, closed, stopped>>

Handshake(k) == [kind |-> "handshake", accept |-> k]

Echo(data, op) ==
    [kind |-> "frame",
     bytes |-> RFCEncode([fin |-> 1, opcode |-> op, mask |-> 0,
                          masking_key |-> <<0, 0, 0, 0>>, payload |-> data])]

\* How many responses are owed once the first p symbols have arrived.
Owed(p) ==
    IF p < RequestLen THEN 0
    ELSE 1 + Len(SelectSeq(Messages, LAMBDA m : m.end <= p))

\* The responses that may stand at position i of the socket's output.
Response(i) ==
    IF i = 1 THEN {Handshake(k) : k \in Keys}
    ELSE {Echo(Messages[i - 1].data, op) : op \in Opcodes}

Init ==
    /\ rcvd = 0
    /\ out = <<>>
    /\ closed = FALSE
    /\ stopped = FALSE

\* The client's next bytes arrive, up to offset e.
Receive(e) ==
    /\ ~closed
    /\ e \in rcvd + 1 .. WireLen
    /\ rcvd' = e
    /\ UNCHANGED <<out, closed>>

\* The client closes (or the read fails).
Close ==
    /\ ~closed
    /\ closed' = TRUE
    /\ UNCHANGED <<rcvd, out>>

\* The next owed response reaches the socket.
Respond ==
    /\ Len(out) < Owed(rcvd)
    /\ \E r \in Response(Len(out) + 1) : out' = Append(out, r)
    /\ UNCHANGED <<rcvd, closed>>

\* Nothing the client sees changes.
Idle == UNCHANGED <<rcvd, out, closed>>

\* Any step may be the process's last.
Step(A) ==
    /\ ~stopped
    /\ A
    /\ stopped' \in BOOLEAN

Next ==
    \/ \E e \in 1 .. WireLen : Step(Receive(e))
    \/ Step(Close)
    \/ Step(Respond)
    \/ Step(Idle)

Spec == Init /\ [][Next]_avars /\ WF_avars(Step(Respond))

=============================================================================
