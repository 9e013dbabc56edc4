------------------------------ MODULE MC_Dispatcher ------------------------------
(***************************************************************************)
(* One connection of the well-formed client of MC_Client, read in pieces  *)
(* that end mid-request, after the request, inside and after each frame.  *)
(***************************************************************************)
EXTENDS Dispatcher, MC_Client

\* mid-request, end of request, after the first frame's header and masking key
\* (23), inside its payload (24), after each later header and key (31, 38), and
\* at the end of each of the three frames: reads that end inside a payload
\* leave the endpoint waiting across pool tasks
MCCuts == {10, 17, 23, 24, 25, 31, 32, 38, 39}

\* the request alone, then a read mid-request
MCCutsInvalid == {8, 14}

\* no frames after the invalid request
MCNoFrames == <<>>

MCTrailer == <<>>

MCStackGarbage == {0}

MCUninitKey == {<<0, 0, 0, 0>>}

\* the return register may hold a negative or a non-negative value
MCCopyRcNegative == {FALSE, TRUE}

\* a build whose return register is never negative there
MCCopyRcNonNegative == {FALSE}

=============================================================================
