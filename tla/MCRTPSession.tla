---------------------------- MODULE MCRTPSession ----------------------------
(***************************************************************************)
(* An instance of RTPSession for TLC.                                      *)
(***************************************************************************)
EXTENDS RTPSession, TLC

\* One stream with a reader of its own, and one that two readers share.
TwoStreams == "r1" :> "s1" @@ "r2" :> "s2" @@ "r3" :> "s2"
=============================================================================
