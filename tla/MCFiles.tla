------------------------------ MODULE MCFiles ------------------------------
\* Three streams on files of up to three sectors of two units.
EXTENDS Files, TLC

CONSTANTS stream1, stream2, stream3

Symmetry == Permutations({stream1, stream2, stream3})
MCFiles == 1..2
Reader == {}
Writer == {"write"}
Truncater == {"write", "trunc"}
Appender == {"write", "append"}
Bounds(calls, free, size, lengths, flags, files) ==
    [calls |-> calls, free |-> free, size |-> size, lengths |-> lengths, flags |-> flags, files |-> files]
MCModes ==
    {Bounds(6, 9, 3, {1, 4}, {Reader, Writer, Truncater}, {1, 2}),
     Bounds(6, 1, 1, {1, 3}, {Reader, Writer, Appender}, {1})}
============================================================================
