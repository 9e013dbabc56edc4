CONSTANTS
    HostLittleEndian = TRUE
    Opcodes <- MCOpcodes
    Lengths <- MCLengths
    Keys <- MCKeys

SPECIFICATION Spec

 
INVARIANT EncodesAsRFC
