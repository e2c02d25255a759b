------------------------------- MODULE MCWriters -------------------------------
EXTENDS Writers

(* The pipe, and a MultiWriter over the pipe and a buffer. *)
MCTargets == {<<"pipe">>, <<"pipe", "mem">>}

MCChunks == [framed |-> {4}, direct |-> {0, 2}]

===============================================================================
