-------------------------- MODULE MCJitterHandler --------------------------
(***************************************************************************)
(* The jitter handler for TLC, with real uint16 sequence numbers.          *)
(***************************************************************************)
EXTENDS JitterHandler

\* Audio: every packet is a sample.
AudioShapes == {[start |-> TRUE, end |-> TRUE, padding |-> FALSE]}

\* Across the wrap of uint16, all within one window.
WrapSNs == {65534, 65535, 0, 1, 2}
=============================================================================
