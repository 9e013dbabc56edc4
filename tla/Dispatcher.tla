------------------------------ MODULE Dispatcher ------------------------------
(***************************************************************************)
(* The libuv server of src/src/main.cpp around one connection's            *)
(* WebSocketEndpoint.  Two threads: the loop thread runs the callbacks     *)
(* on_peer_read, on_work_completed and on_sent_response; the thread pool,  *)
(* pinned to one thread by set_thread_pool_size, runs the work callbacks   *)
(* on_work_submitted and on_work_client_closed in FIFO order.  Each        *)
(* callback is one atomic step; the two threads interleave between them.  *)
(*                                                                         *)
(* The client sends the endpoint model's Wire; each read ends at one of    *)
(* the offsets Cuts.  The endpoint's state is that of WebSocketEndpoint,   *)
(* and a processing task runs its from_wire on the read's bytes.          *)
(*                                                                         *)
(* "halted" ends the model: the process exited (fail()), hung in           *)
(* fetch_payload, or used freed memory.                                   *)
(***************************************************************************)
EXTENDS Naturals, Sequences, SequencesExt

CONSTANTS Request, ClientFrames, Trailer, StackGarbage, UninitKey,
          Lines, LineInfo, WS_MAX_HANDSHAKE_FRAME_SIZE, HostLittleEndian,
          Cuts,          \* wire offsets at which a read may end
          CopyRcNegative \* values of "uv_buf_alloc_cpy(...) < 0" the build may produce

VARIABLES fromwire_buf, ws_handshake_completed, message_data, crashed,
          written,   \* every to_wire call the endpoint made
          sent,      \* how much of Wire the loop thread has read
          workq,     \* the thread pool's queue of work requests
          doneq,     \* finished processing requests awaiting on_work_completed
          writeq,    \* uv_write requests not yet completed
          sockout,   \* responses the socket has carried, in order
          eof,       \* on_peer_read saw nread < 0
          freed,     \* on_work_client_closed freed endpoint, peer state and client
          rejected,  \* some process() call returned < 0
          exited,    \* fail() or a NULL work request ended the process
          uaf        \* the loop thread used the freed client

E == INSTANCE WebSocketEndpoint WITH MaxChunk <- 1, sent <- 0, delivered <- <<>>,
                                     split_header <- FALSE

ASSUME Cuts \subseteq 1..Len(E!Wire) /\ Len(E!Wire) \in Cuts
ASSUME CopyRcNegative \subseteq BOOLEAN /\ CopyRcNegative # {}

vars == <<fromwire_buf, ws_handshake_completed, message_data, crashed, written,
          sent, workq, doneq, writeq, sockout, eof, freed, rejected, exited, uaf>>

\* work_data->response.base == NULL
NoResponse == [kind |-> "none"]

halted == exited \/ crashed \/ uaf

Init ==
    /\ fromwire_buf = E!EmptyBuffer /\ message_data = E!EmptyBuffer
    /\ ws_handshake_completed = FALSE /\ crashed = FALSE
    /\ written = <<>>
    /\ sent = 0
    /\ workq = <<>> /\ doneq = <<>> /\ writeq = <<>> /\ sockout = <<>>
    /\ eof = FALSE /\ freed = FALSE /\ rejected = FALSE /\ exited = FALSE /\ uaf = FALSE

-----------------------------------------------------------------------------
(* Loop thread: reads.                                                    *)

(***************************************************************************)
(* on_peer_read with nread > 0: alloc_work_req copies the bytes and the    *)
(* request is queued with on_work_submitted / on_work_completed.           *)
(* uv_buf_alloc_cpy has no return statement on success, so "< 0" is        *)
(* whatever the build leaves in the return register (neg): then the work   *)
(* data is freed, NULL is handed to uv_queue_work, and the process dies.  *)
(***************************************************************************)
PeerRead(e, neg) ==
    /\ ~halted /\ ~eof
    /\ e > sent
    /\ IF neg
       THEN /\ exited' = TRUE
            /\ UNCHANGED workq
       ELSE /\ workq' = Append(workq, [type |-> 1, request |-> SubSeq(E!Wire, sent + 1, e)])
            /\ UNCHANGED exited
    /\ sent' = e
    /\ UNCHANGED <<fromwire_buf, ws_handshake_completed, message_data, crashed, written,
                   doneq, writeq, sockout, eof, freed, rejected, uaf>>

(***************************************************************************)
(* on_peer_read with nread < 0 (EOF or a read error): a work request of    *)
(* type 0 is queued with on_work_client_closed as its work callback and no *)
(* after-work callback.  libuv delivers nothing more after EOF.           *)
(***************************************************************************)
PeerEof ==
    /\ ~halted /\ ~eof
    /\ workq' = Append(workq, [type |-> 0, request |-> <<>>])
    /\ eof' = TRUE
    /\ UNCHANGED <<fromwire_buf, ws_handshake_completed, message_data, crashed, written,
                   sent, doneq, writeq, sockout, freed, rejected, exited, uaf>>

-----------------------------------------------------------------------------
(* Worker thread.                                                         *)

(***************************************************************************)
(* on_work_submitted: endpoint->process on the request's bytes.  The first *)
(* to_wire lands in work_data->response through on_write_response; a      *)
(* second one finds response.base set and calls fail().                   *)
(***************************************************************************)
WorkSubmitted(g, uk) ==
    /\ ~halted
    /\ workq # <<>> /\ Head(workq).type = 1
    /\ LET req == Head(workq).request IN
       \E r \in {E!from_wire(E!Endpoint, req, g, uk)} :
           /\ fromwire_buf' = r.fromwire_buf
           /\ ws_handshake_completed' = r.ws_handshake_completed
           /\ message_data' = r.message_data
           /\ crashed' = r.crashed
           /\ written' = written \o r.out
           /\ exited' = (Len(r.out) >= 2)
           /\ doneq' = Append(doneq, [request |-> req,
                                      response |-> IF r.out = <<>> THEN NoResponse
                                                   ELSE r.out[1]])
           /\ rejected' = (rejected \/ r.rc < 0)
    /\ workq' = Tail(workq)
    /\ UNCHANGED <<sent, writeq, sockout, eof, freed, uaf>>

(***************************************************************************)
(* on_work_client_closed: deletes the endpoint and frees the peer state    *)
(* and the uv_tcp_t, on the worker thread and without uv_close.           *)
(***************************************************************************)
WorkClientClosed ==
    /\ ~halted
    /\ workq # <<>> /\ Head(workq).type = 0
    /\ freed' = TRUE
    /\ workq' = Tail(workq)
    /\ UNCHANGED <<fromwire_buf, ws_handshake_completed, message_data, crashed, written,
                   sent, doneq, writeq, sockout, eof, rejected, exited, uaf>>

-----------------------------------------------------------------------------
(* Loop thread: completions.                                              *)

\* mutant: every completion is freed without a write
WorkCompletedDiscard ==
    /\ ~halted
    /\ doneq # <<>>
    /\ doneq' = Tail(doneq)
    /\ UNCHANGED <<fromwire_buf, ws_handshake_completed, message_data, crashed, written,
                   sent, workq, writeq, sockout, eof, freed, rejected, exited, uaf>>

\* on_work_completed with response.base == NULL: free the work data.
WorkCompletedNoResponse ==
    /\ ~halted
    /\ doneq # <<>> /\ Head(doneq).response = NoResponse
    /\ doneq' = Tail(doneq)
    /\ UNCHANGED <<fromwire_buf, ws_handshake_completed, message_data, crashed, written,
                   sent, workq, writeq, sockout, eof, freed, rejected, exited, uaf>>

\* mutant: uv_write is given the work data instead of its response buffer
WorkCompletedWriteWorkData ==
    /\ ~halted
    /\ doneq # <<>> /\ Head(doneq).response # NoResponse
    /\ writeq' = Append(writeq, Head(doneq))
    /\ uaf' = freed
    /\ doneq' = Tail(doneq)
    /\ UNCHANGED <<fromwire_buf, ws_handshake_completed, message_data, crashed, written,
                   sent, workq, sockout, eof, freed, rejected, exited>>

\* on_work_completed with a response: uv_write it to work_data->uvclient.
WorkCompletedWrite ==
    /\ ~halted
    /\ doneq # <<>> /\ Head(doneq).response # NoResponse
    /\ writeq' = Append(writeq, Head(doneq).response)
    /\ uaf' = freed
    /\ doneq' = Tail(doneq)
    /\ UNCHANGED <<fromwire_buf, ws_handshake_completed, message_data, crashed, written,
                   sent, workq, sockout, eof, freed, rejected, exited>>

\* The write completes and on_sent_response frees its work data; libuv
\* finishes the write request on the stream, which must still be live.
SentResponse ==
    /\ ~halted
    /\ writeq # <<>>
    /\ sockout' = Append(sockout, Head(writeq))
    /\ writeq' = Tail(writeq)
    /\ uaf' = freed
    /\ UNCHANGED <<fromwire_buf, ws_handshake_completed, message_data, crashed, written,
                   sent, workq, doneq, eof, freed, rejected, exited>>

\* The peer has gone: the write ends with an error and on_sent_response fails.
WriteFailed ==
    /\ ~halted /\ eof
    /\ writeq # <<>>
    /\ exited' = TRUE
    /\ UNCHANGED <<fromwire_buf, ws_handshake_completed, message_data, crashed, written,
                   sent, workq, doneq, writeq, sockout, eof, freed, rejected, uaf>>

-----------------------------------------------------------------------------
Next ==
    \/ \E e \in Cuts, neg \in CopyRcNegative : PeerRead(e, neg)
    \/ PeerEof
    \/ \E g \in StackGarbage, uk \in UninitKey : WorkSubmitted(g, uk)
    \/ WorkClientClosed
    \/ WorkCompletedNoResponse
    \/ WorkCompletedWrite
    \/ SentResponse
    \/ WriteFailed

(***************************************************************************)
(* The thread pool eventually takes the request at the head of its queue   *)
(* (only WorkSubmitted and WorkClientClosed do), and the loop thread runs  *)
(* every completion callback: weak fairness for the server's steps.  The  *)
(* client's reads and close are not fair: a client may fall silent.       *)
(***************************************************************************)
WorkerTakesHead == ~halted /\ workq # <<>> /\ workq' = Tail(workq)

Fairness ==
    /\ WF_workq(WorkerTakesHead)
    /\ WF_vars(WorkCompletedNoResponse)
    /\ WF_vars(WorkCompletedWrite)
    /\ WF_vars(SentResponse)

Spec == Init /\ [][Next]_vars /\ Fairness

-----------------------------------------------------------------------------
(* Properties.                                                            *)

\* What to_wire hands over: a handshake response or a frame's bytes.
Written == [kind : {"handshake"}, accept : STRING, protocol : STRING] \cup
           [kind : {"frame"}, bytes : Seq(E!Byte)]

TypeOK ==
    /\ sent \in 0..Len(E!Wire)
    /\ workq \in Seq([type : {0, 1}, request : Seq(E!Byte \cup Lines)])
    /\ doneq \in Seq([request : Seq(E!Byte \cup Lines), response : Written \cup {NoResponse}])
    /\ writeq \in Seq(Written)
    /\ sockout \in Seq(Written)
    /\ {eof, freed, rejected, exited, uaf} \subseteq BOOLEAN

(***************************************************************************)
(* Every response the endpoint produced eventually reaches the socket,     *)
(* unless the process has stopped: no completion callback loses one.      *)
(***************************************************************************)
ResponsesFlushed == <>[](halted \/ Len(sockout) = Len(written))

(***************************************************************************)
(* Spec section 5, teardown: the endpoint and the client are freed only    *)
(* after the connection's last processing task has completed, so the loop *)
(* thread never writes to a freed client.                                 *)
(***************************************************************************)
NoUseAfterFree == ~uaf

(***************************************************************************)
(* The socket's output as EchoConnection sees it: a handshake response is  *)
(* the key it accepts (its protocol line is not part of that promise).    *)
(***************************************************************************)
SocketView(w) ==
    IF w.kind = "handshake" THEN [kind |-> "handshake", accept |-> w.accept] ELSE w

EC == INSTANCE EchoConnection WITH
        WireLen <- Len(E!Wire), RequestLen <- Len(Request), Keys <- E!RequestKeys,
        Messages <- E!ExpectedMessages, Opcodes <- 0 .. 15,
        rcvd <- sent, out <- [i \in DOMAIN sockout |-> SocketView(sockout[i])],
        closed <- eof, stopped <- halted

(***************************************************************************)
(* The server, loop thread, thread pool and endpoint together, implements  *)
(* EchoConnection: the socket carries the handshake response for the       *)
(* client's key only once the request has been read, then one correctly    *)
(* encoded echo per message the client has completed, in order, none lost  *)
(* or repeated; and while the process runs, every response owed for what  *)
(* it has read eventually reaches the socket.                             *)
(***************************************************************************)
ImplementsEchoConnection == EC!Spec

(***************************************************************************)
(* Spec section 6: an invalid handshake (process() < 0) closes the         *)
(* connection.                                                            *)
(***************************************************************************)
InvalidHandshakeClosed == rejected ~> freed

=============================================================================
