------------------------------- MODULE MCDTMF -------------------------------
(* An instance of DTMF for TLC. *)
EXTENDS DTMF

\* One digit, two with and without a delay between them, and a character that
\* is none.
Calls == {<<"1">>, <<"1", "2">>, <<"1", "w", "2">>, <<"x">>}
=============================================================================
