CONSTANTS
    HostLittleEndian = TRUE
    Opcodes <- MCOpcodes
    Lengths <- MCLengthsExt
    Keys <- MCKeys

SPECIFICATION Spec

INVARIANT DecodesRFC
