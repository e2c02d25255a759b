-------------------------- MODULE MCJitterBuffer --------------------------
(***************************************************************************)
(* Instances of JitterBuffer for TLC.  The sequence numbers are real       *)
(* uint16 values, picked around the boundaries the code compares with:     *)
(* the wrap, the 3000 window, lineAhead, and half of the number space.     *)
(***************************************************************************)
EXTENDS JitterBuffer

whole  == [start |-> TRUE,  end |-> TRUE,  padding |-> FALSE]
first  == [start |-> TRUE,  end |-> FALSE, padding |-> FALSE]
middle == [start |-> FALSE, end |-> FALSE, padding |-> FALSE]
last   == [start |-> FALSE, end |-> TRUE,  padding |-> FALSE]

padded(shape) == [shape EXCEPT !.padding = TRUE]

\* Audio: every packet is a sample.
AudioShapes == {whole}
\* Video: the packets of a frame, and padding.
FrameShapes == {first, last, padded(middle)}

\* Across the wrap of uint16, and with a jump of more than 3000.
JumpSNs == {65535, 0, 5000}
\* On a line from 65535, too far ahead of it and on the way there, and behind it.
LineSNs == {65535, 39, 59, 63000}
=============================================================================
