CONSTANTS
    ReqLine = ReqLine
    UpgradeLine = UpgradeLine
    ConnectionLine = ConnectionLine
    VersionLine = VersionLine
    KeyLine = KeyLine
    Lines <- MCLines
    LineInfo <- MCLineInfo
    WS_MAX_HANDSHAKE_FRAME_SIZE = 40
    HostLittleEndian = TRUE
    Request <- MCRequest
    ClientFrames <- MCClientFrames
    Trailer <- MCTrailer
    StackGarbage <- MCStackGarbage
    UninitKey <- MCUninitKey
    Cuts <- MCCuts
    CopyRcNegative <- MCCopyRcNegative

SPECIFICATION Spec

INVARIANT NoUseAfterFree

\* After the client's close and the last callback, or once the process has
\* stopped, the connection has nothing left to do.
CHECK_DEADLOCK FALSE
