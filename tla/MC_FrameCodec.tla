---------------------------- MODULE MC_FrameCodec ----------------------------
EXTENDS FrameCodec

\* every opcode the code names, and one it does not
MCOpcodes == KnownOpcodes \cup {3}

\* the 7-bit lengths, up to the last one before the 16-bit form
MCLengths == {0, 1, 2, 125}

\* the 16-bit form: 126 and 256 (two different length bytes)
MCLengthsExt == {126, 256}

MCKeys == {<<0, 0, 0, 0>>, <<1, 2, 3, 4>>}

=============================================================================
