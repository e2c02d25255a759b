---------------------------- MODULE MCNegotiation ----------------------------
(* An instance of Negotiation for TLC. *)
EXTENDS Negotiation

Lists == {<<>>, <<"AES128_32", "AES128_80">>, <<"other", "AES256_32">>}

line(i, profile, k) == [index |-> i, profile |-> profile, key |-> <<"peer", k>>]
fmt(type, name, rate, channels, params) ==
  [type |-> type, name |-> name, rate |-> rate, channels |-> channels, params |-> params]
modes(align, ms) == [octetAlign |-> align, modes |-> ms]

\* Static types without rtpmap, events at two rates, unknown codecs, AMR-WB with
\* and without octet-align, mono opus, and tags that do not start at one.
Peers == {
  [formats |-> <<fmt(0, "", 0, 0, NoParams), fmt(9, "G722", 8, 0, NoParams),
                 fmt(101, "telephone-event", 48, 0, NoParams),
                 fmt(96, "telephone-event", 8, 0, NoParams)>>,
   crypto |-> <<line(4, "other", 1), line(7, "AES128_32", 2)>>],
  [formats |-> <<fmt(98, "AMR-WB", 16, 1, modes(TRUE, {})),
                 fmt(99, "AMR-WB", 16, 1, modes(FALSE, {0, 1, 2})),
                 fmt(3, "", 0, 0, NoParams), fmt(97, "iLBC", 8, 0, NoParams),
                 fmt(101, "telephone-event", 48, 0, NoParams)>>,
   crypto |-> <<>>],
  [formats |-> <<fmt(8, "PCMA", 8, 1, NoParams), fmt(111, "opus", 48, 1, NoParams),
                 fmt(110, "telephone-event", 48, 0, NoParams)>>,
   crypto |-> <<line(2, "AES128_80", 1), line(3, "AES128_80", 2)>>]}
=============================================================================
