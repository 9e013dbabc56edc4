# TLA+ models of websocketfiles

These are model-checked TLA+ specifications of the WebSocket server in `src/src/`: the byte buffer, the frame and handshake codecs, the per-connection session, and the libuv dispatcher in `main.cpp`. They also cover the element index of the bundled `markupstl` XML library. Every operator is translated from the C++ source. `PROJECT.json` maps each one to the lines it models.

## The system

| Part | Source | What it does |
|---|---|---|
| ByteBuffer | `ws_packet.h/.cpp` | A `std::vector<char>` plus a `uint32_t` read cursor `oft`. Reads either succeed or leave the cursor and the destination untouched. |
| Frame codec | `ws_packet.cpp` | `fetch_frame_info` parses a frame header (7/16/64-bit lengths, mask). `fetch_payload` unmasks the payload. `recv_dataframe` says whether a whole frame is present. `pack_dataframe` serializes a frame. |
| Handshake codec | `ws_packet.cpp` | `fetch_hs_element` finds CR LF CR LF, splits lines and fills `params_`. `recv_handshake` validates the headers. `pack_handshake_rsp` builds the 101 response. |
| Session | `ws_endpoint.cpp` | `process`/`from_wire` append a read to `fromwire_buf_` and loop `parse_packet` until more data is needed. Frames are joined in `message_data_` until `fin`. `process_message_data` echoes each message through `to_wire`. |
| Dispatcher | `main.cpp` | The loop thread's `on_peer_read` copies each read into a work request (see below). On EOF it queues `on_work_client_closed` as *work*. `on_write_response` keeps the single response. `on_work_completed` `uv_write`s it. |
| String helpers | `string_helper.cpp` | `trim` strips spaces. `splitStr` is in `string_helper.inl`, which is not in the repository. |
| markupstl | `markupstl.cpp/.h` | An XML library the server never calls. `CMarkupSTL` keeps the document text `m_strDoc` and an index `m_aPos` of element positions. Each `ElemPos` holds offsets, tag lengths, flags and level, plus parent, first-child and sibling links. The first child's `iElemPrev` points to the last child. There is also a cursor (`m_iPosParent`, `m_iPos`, `m_iPosChild`) and a map of saved positions. `SetDoc` parses the text into the index. The editing calls patch the text and the index in place. |

How the parts interact: socket bytes go to `on_peer_read` (loop thread). From there they go through the thread-pool queue to `on_work_submitted` (pool thread), which calls `WebSocketEndpoint::process`. That runs `parse_packet` → `WebSocketPacket` codecs → `ByteBuffer`, and `to_wire` → `on_write_response`. The response then goes back through the completion queue to `on_work_completed` (loop thread), and from there through `uv_write` to the socket.

Each work request carries `on_work_submitted` as its work callback and `on_work_completed` as its after-work callback.

`set_thread_pool_size` pins the pool to one thread before the loop starts, so work requests run one at a time in FIFO order. They run concurrently with the loop thread's callbacks.

## Modules

| Module | Models | State / operators |
|---|---|---|
| `ByteBuffer` | class ByteBuffer | A buffer is `[data, oft]`. There is one operator per method. `require` keeps the unsigned wrap of `len - oft`. |
| `WsFrame` | the frame half of WebSocketPacket | `uint64_t` is kept as 8 little-endian bytes (`U64`), because TLC's integers are 32-bit. `Decode16` and `Decode64` are the code's shift expressions after a host-order `memcpy` (`HostLittleEndian`). `fetch_frame_info` takes every unchecked read into account: a failed read leaves `onebyte`, `len` or `masking_key_` as they were. |
| `WsHandshake` | the handshake half | Request text is abstracted to line symbols plus CR (13) and LF (10). `LineInfo` says what `splitStr`/`trim`/`find_first_of(':')` make of a line. |
| `Rfc6455` | the protocol itself (reference) | `RFCEncode`: how RFC 6455 lays out a frame. It is used as the client and as the reference the codec is checked against. |
| `WebSocketEndpoint` | WebSocketEndpoint | Variables: `fromwire_buf`, `ws_handshake_completed`, `message_data`, plus the histories `sent`, `delivered`, `written`, `split_header` and `crashed`. One action, `process(k, g, uk)`, is a whole `process()` call on the next `k` bytes: every `parse_packet`, `to_wire` and `process_message_data` it makes, including the erase/resetoft after each packet. `g` is the value of the uninitialized `hs_length_`, and `uk` that of `masking_key_`. |
| `FrameCodec` | codec conformance | The state is one frame drawn from a bounded set. |
| `EchoConnection` | spec sections 3 to 5 | The abstract specification of one connection as its client sees it. Variables: `rcvd` (symbols read), `out` (responses on the socket), `closed` and `stopped`. Actions: `Receive`, `Close` and `Respond`, and any step may be the process's last. The server owes the handshake response for the client's key once the request has arrived, then one unmasked fin frame per completed message carrying the message's data, RFC-encoded, in order. `WF(Respond)`: while the process runs, each owed response reaches the socket. The echo's opcode is left open. |
| `Dispatcher` | main.cpp, composed with the endpoint | `E == INSTANCE WebSocketEndpoint`. Variables: the endpoint's state plus `workq` (the pool queue), `doneq` (completions awaiting the loop), `writeq` (pending `uv_write`s), `sockout`, `eof`, `freed`, `rejected`, `exited` and `uaf`. There is one action per callback: `PeerRead`, `PeerEof`, `WorkSubmitted`, `WorkClientClosed`, `WorkCompletedNoResponse`, `WorkCompletedWrite`, `SentResponse` and `WriteFailed`. `EC == INSTANCE EchoConnection WITH rcvd <- sent, out <- sockout (a handshake response seen as its accept key), closed <- eof, stopped <- halted`. |
| `MarkupSTL` | CMarkupSTL | The object is a record `N` with the text, `aPos`, `iPosFree`, `iPosDeleted`, the cursor, `saved` and `thrown`. Every public call is an operator `N -> N`, and one action per call applies it (`Become`). There are actions for AddElem/InsertElem/AddChildElem/InsertChildElem, SetData/SetChildData, SetAttrib/SetChildAttrib (also AddAttrib), AddSubDoc/InsertSubDoc/AddChildSubDoc/InsertChildSubDoc, RemoveElem, RemoveChildElem, FindElem, FindChildElem, IntoElem, OutOfElem, ResetPos/ResetMainPos/ResetChildPos, SavePos, RestorePos and SetDoc, plus `DoReparse` for `SetDoc(GetDoc())`. The parser is `ScanNode` (the character loop of `x_ParseNode`) and `ParseNodes` (the node loop of `x_ParseElem`). The index maintenance is `x_LocateNew`, `x_LinkElem`, `x_UnlinkElem` and `x_Adjust` (`AdjustFrom` is its walk). Text is a sequence of one-character strings. Offsets are 0-based as in the code, and `Char` returns the terminator past the end. `thrown` is set when `string::replace` would throw `out_of_range`. Attributes are read by `x_FindToken`/`x_FindAttrib` (quoted tokens included) and written by `x_SetAttrib`, which grows the start tag; values pass through `x_TextToDoc` and back through `x_TextFromDoc` (entities decoded). `x_AddSubDoc` parses the subdocument into a temporary slot with `x_ParseElem`, links it and splices its text. Two history variables, `setAttribs` and `setData`, record the last value the client set for each attribute and each childless element; they are not program state and only the properties read them. |
| `MC_Client` | test clients | The request lines, a Text+Continue message, a Ping, a 126-byte binary frame, and an invalid request. |
| `MC_*` | TLC instantiations | The constants for each run. |

`ByteBuffer.Then(e, F)` applies `F` to the value of `e`, computing `e` once. The codecs chain results: a read, then the next read on its buffer. Binding each result to a bound variable keeps TLC from re-expanding the whole chain at every use. This matters when coverage is collected.

### Undefined behaviour as nondeterminism

- **`hs_length_`** is never initialized. `StackGarbage` is the set of values it may hold. Every run fixes it to 0, so that the checked properties speak of defined behaviour. With `MCStackGarbageDirty` ({0, 3}) TLC finds `HandshakeOnlyAfterCompleteRequest` (defined in `WebSocketEndpoint`, checked by no run) violated after a one-symbol read: a partial request is answered with a 101 that accepts no key. That is recorded as a hazard of ws_endpoint.cpp:123.
- **`masking_key_`** is read when the masking key is cut off by a read boundary. `UninitKey` is the set of values it may hold.
- **`uv_buf_alloc_cpy`** falls off its end without a return statement. `CopyRcNegative` holds the outcomes of the caller's `< 0` test.

Each read of these is a free choice per step.

### Abstractions

- The SHA-1 and Base64 accept key is represented by the client key, which it is an injective function of. That code is not in `src/`.
- Response text and log lines are left out.
- A handshake read boundary falls only between whole line symbols. A partial line never contains CR LF CR LF, so it behaves like the missing line.
- An endpoint that hangs or dies in `fetch_payload` (the wrapped length) sets `crashed`, and the model stops there. Likewise for `exited` (`fail()`) and `uaf` in the dispatcher.

## Runs

| Run | Expect | What it shows |
|---|---|---|
| `endpoint` | pass | Every way of cutting the valid client's stream into reads (`MaxChunk` = whole wire, 198 states) is checked. **FramingWithWholeHeaders**: while no read boundary splits a frame header, the messages delivered are exactly the completed ones, in order, across partial payloads and Continue assembly. **TypeOK** also holds. |
| `endpoint_split_header` | violation | **FragmentationIndependence** fails: a lone `0x80` is parsed as a frame. |
| `endpoint_opcode` | violation | A Text+Continue message is delivered as opcode Continue. |
| `endpoint_wrap` | violation | A 64-bit length of 2^64−1 wraps at ws_packet.cpp:104 and the frame is taken as complete. `fetch_payload` then loops on a length it cannot read: for this unmasked frame `curat()` runs past the buffer and crashes; a masked one would loop for 2^64 rounds. `crashed` stands for both. |
| `endpoint_onewrite` | violation | **OneWritePerRead**, stated for reads that end on whole frame headers. TLC's trace: a read of 1 symbol, then one of 31 holding the rest of the request and both frames of the fragmented message. `from_wire` answers the handshake and echoes the message in the same call, so the write callback is called twice and `on_write_response` calls `fail()`, exiting the server. A client that sends its first frames without waiting for the 101 meets this. |
| `codec` | pass | 224 frames (fin × 7 opcodes × mask × 2 keys × lengths 0, 1, 2, 125). The codec decodes the RFC encoding exactly and encodes it byte for byte. |
| `codec_len16` | violation | Lengths 126 and 256 are mis-decoded. |
| `dispatcher` | pass | 19,944 states. Reads may end at 9 offsets, the client may close at any moment, and there are all interleavings of the loop and pool threads. **ResponsesFlushed** (liveness): every response the endpoint produced reaches the socket unless the process stopped. **TypeOK** also holds. **ImplementsEchoConnection**: the whole server (loop thread, pool thread and endpoint) implements `EchoConnection`, safety and liveness. The socket carries the handshake response only after the request has been read, then exactly one correct echo per completed message, in order, none lost or repeated. While the process runs, every owed response eventually arrives. Because `EchoConnection` lets the process stop at any step, a stop (`fail()` on two writes, a use after free) does not violate it; those are the `endpoint_onewrite` and `dispatcher_uaf` runs. |
| `dispatcher_uaf` | violation | The pool thread frees the client before the loop thread writes the previous response. |
| `markup` | pass | 180,486 states (under the `Observable` view). Every call is used, by a client that never removes an element at or above a position it saved (`RemovesSavedElems` = FALSE). **IndexMatchesDocument**: after every call, the index patched by the editing calls equals the one `x_ParseDoc` builds from the new text: elements, offsets, tag lengths, flags, levels and sibling-ring links. **AttribReadsBack**: GetAttrib returns the last value SetAttrib gave, through later edits of any element. **DataReadsBack**: GetData of a childless element returns the last value SetData gave it. **TypeOK** also holds. |
| `markup_link` | violation | Only the element-building calls, 5 slots: a root, two children, then InsertChildElem before the second. `x_LinkElem` (markupstl.cpp:1773) updates the following sibling's `iElemPrev` only when the new element is last, so the third child's prev still names the first child and **IndexMatchesDocument** fails. |
| `markup_subdoc` | violation | AddChildSubDoc(`<B>v</B>`) flags the new element `MNF_EMPTY` because it has no child element (markupstl.cpp:1709). GetData then returns the empty string and SetChildData writes into its end tag (`<B>v></B/B>`), so **DataReadsBack** fails. It runs at the earlier bound of 3 slots and `MaxDoc` = 20: a root and one child suffice, and the longer text leaves room for the rewrite. |

Every property of a pass run has a mutant in `PROJECT.json`: a plausible bug in the mapped code that TLC must catch.

- `frame_opcode` keeps the fin bit.
- `U64SumExceeds` uses `>=`.
- `Unmask` shifts the key index.
- `get_length_type` is off by one.
- `uv_write` is given the work data.
- `on_work_completed` discards a response.
- `process_message_data` lacks its Continue case (`process_message_data_noContinue`). The fragmented text message then gets no echo, because the code delivers it with the last frame's opcode, Continue. The ping's echo takes its place.
- `ElemLevel` counts levels from −1.
- `x_Adjust`'s walk never steps to an element's own next sibling, only climbs to a parent's (`AdjustFromClimbOnly`). It needs two siblings, so it survived the earlier bound of 3 slots and is caught at 4.
- `x_SetAttrib` inserts before `/>` of an empty element as if it were `>` (`AttribInsertAtIgnoringEmpty`).
- `x_SetAttrib` grows `nLength` but not the start-tag length (`GrowElemOnly`).

### Bounds

- **`endpoint`**: the client stream is 39 symbols (request 17, three masked frames). It has every cut point, including inside each header. Those cuts are recorded by `split_header`, which is what separates the pass property from the violated one.
- **`codec`**: the lengths sit on both sides of the 7-bit/16-bit boundary (125 and 126, plus 256 for a non-zero high byte), with two masking keys, one of them zero.
- **`dispatcher`**: the thread pool has one thread, as main.cpp:116 sets it, so the model cannot notice a second pool thread. The reads end mid-request, after the request, after each frame's header and masking key, inside the first payload, and after each frame. Those are the places where one read can carry zero, one or two replies, or leave a frame half read across pool tasks. No read ends inside a header: that case is the endpoint's `endpoint_split_header` finding, and the refinement states the promise for whole headers. The client may close after any read.

- **`markup`**: tag names `A` and `B`, values NULL and `<` (which must be escaped), one attribute name `t`, and one input document `<A>v<B/></A>` with text, nesting and an empty element. Subdocuments are `<B/>` and `<B>`, which does not parse and takes the failure path of `x_AddSubDoc`. `MaxPos` = 4 slots (slot 0 is the document) allows a root with two children, or a chain of three; AddElem stops one slot short so that AddSubDoc still finds its temporary slot. That reaches sibling rings of two, `x_Adjust`'s step to a next sibling and its climb to a parent, the unlink of a first and of a later child, inserts before a first child, empty-parent splitting, attributes on empty and non-empty elements, and no-content parents. A middle insert needs three children and is the `markup_link` run (5 slots, element-building calls only); with every call, even 4 slots and `MaxDoc` = 20 take more than five minutes. The text can grow without end (see the hazards), so `MaxDoc` = 16 stops the calls that lengthen it: a root with two children is still reached. The `Observable` view clears the slots outside the tree: the code rewrites every field of a slot before it reads it again, so states that differ only there behave alike. `RemovesSavedElems` is a client discipline, not code: nothing in `CMarkupSTL` forbids the removal, and with `RemovesSavedElems` = TRUE TLC finds IndexMatchesDocument violated: SavePos, RemoveElem of the saved element and RestorePos put the cursor on a deleted slot (RestorePos never checks `MNF_DELETED`), and the next AddElem links a root the index lacks. That case (markupstl.cpp:363) is therefore a hazard with no run. The alphabet has no `!`, `?`, `#`, `[` or apostrophe (the double quote and `=` come only from SetAttrib), so comments, CDATA, processing instructions and DOCTYPE are never parsed.

### Fairness

The `Dispatcher` assumes weak fairness for the pool thread taking the head of its queue (`WorkerTakesHead`) and for each loop-thread completion callback. libuv runs every queued work request and every completion. `EchoConnection` asks only for weak fairness of `Respond`. The implementation earns it from these four: the pool processes the read, the loop thread writes the response, and the write completes.

The client's reads and its close are not fair: a client may go silent. That is why `InvalidHandshakeClosed` fails under an invalid request (`MCRequestNoVersion`, `MCCutsInvalid`, `MCCopyRcNonNegative` in `MC_Dispatcher`): nothing in the server closes the connection. The `dispatcher` run sends only valid requests.

Deadlock checking is off in the endpoint and dispatcher runs, because the connection really does stop once the client has sent everything, or closed, and the queues are empty.

## Not modelled

- **markupstl, the rest**: comment, CDATA, PI and DOCTYPE nodes (and with them numeric character references), `GetSubDoc`, `GetAttribName` and the other read-only getters, `Load`/`Save` (file I/O), `operator=`, and `x_AllocPosArray` (`MaxPos` stays below the initial 8 slots). The `EP_STMASK` typo (0x2fffff) only matters for start tags of 2^20 characters.
- **SHA-1/Base64**: not in the repository.
- **`string_helper.inl`**: missing. `splitStr` is modelled from the spec.
- **libuv's own I/O**: `uv_accept`, `uv_tcp_*`, and listen errors.
- **`get_header_size`**: it is never called.
- **Several connections**: they share only the single-thread pool, so one connection is modelled.
- **Memory exhaustion from unbounded buffering**: recorded as a hazard.
- **A control frame between fragments**: no run's client sends one. With `ClientFrames <- MCClientFramesPingInside` the endpoint run finds FramingWithWholeHeaders violated: the Ping is delivered carrying the text fragment's bytes, because `parse_packet` appends every payload to `message_data_`. spec.md contradicts itself here. Section 4.4 describes that append, while section 3 defines a message as a Text/Binary frame plus its Continue frames.

## Plan for further work

1. **Several connections** sharing the single pool thread. One connection's close work would run between another's tasks.
