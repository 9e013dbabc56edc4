CONSTANTS
    ReqLine = ReqLine
    UpgradeLine = UpgradeLine
    ConnectionLine = ConnectionLine
    VersionLine = VersionLine
    KeyLine = KeyLine
    Lines <- MCLines
    LineInfo <- MCLineInfo
    WS_MAX_HANDSHAKE_FRAME_SIZE = 40
    HostLittleEndian = TRUE
    Request <- MCRequest
    ClientFrames <- MCClientFrames
    Trailer <- MCTrailer
    MaxChunk <- MCMaxChunk
    StackGarbage <- MCStackGarbage
    UninitKey <- MCUninitKey

SPECIFICATION Spec


\* The client stops after its last frame; the server then waits for input.
CHECK_DEADLOCK FALSE
PROPERTY OneWritePerRead
