------------------------- MODULE MC_WebSocketEndpoint -------------------------
(***************************************************************************)
(* A well-formed client: a valid handshake request and a fragmented text  *)
(* message followed by a ping, every frame masked as RFC 6455 requires.   *)
(***************************************************************************)
EXTENDS WebSocketEndpoint, MC_Client

\* any read size up to the whole stream
MCMaxChunk == Len(Wire)

MCTrailer == <<>>

MCStackGarbage == {0}

\* an unmasked header announcing the 64-bit length 0xFFFFFFFFFFFFFFFF
MCTrailerWrap == <<129, 127, 255, 255, 255, 255, 255, 255, 255, 255>>

\* hs_length_ left non-zero by whatever used the stack slot before
MCStackGarbageDirty == {0, 3}

MCUninitKey == {<<0, 0, 0, 0>>, <<1, 1, 1, 1>>}

=============================================================================
