------------------------------- MODULE Blocks -------------------------------
(***************************************************************************)
(* Five building blocks that share nothing, checked in one run: Init picks *)
(* one of them and the steps are its own.                                  *)
(***************************************************************************)
EXTENDS RingBuffer, BeepResampler, Listen, SRTPSession, SoxrWriter

\* Halving and doubling, 8 and 48 kHz, and ratios that are no integers.
Ratios == {<<1, 2>>, <<2, 1>>, <<1, 6>>, <<6, 1>>, <<3, 2>>, <<2, 3>>}
FewRatios == {<<1, 2>>, <<2, 1>>, <<3, 2>>, <<2, 3>>}

VARIABLE block

blockVars == <<ringVars, rsVars, listenVars, srtpVars, soxrVars, block>>

BlocksInit ==
  /\ block \in {"ring", "resampler", "listen", "srtp", "soxr"}
  /\ RingInit /\ ResamplerInit /\ ListenInit /\ SRTPInit /\ SoxrInit
  /\ block # "resampler" => /\ <<srcRate, dstRate>> = CHOOSE r \in Rates : TRUE
                            /\ frameLen = CHOOSE n \in FrameLens : TRUE
  /\ block # "listen" => /\ request = [even |-> FALSE, min |-> 0, max |-> 0]
                         /\ inUse = {}
  /\ block # "soxr" => <<inRate, outRate>> = CHOOSE r \in RatePairs : TRUE

BlocksNext ==
  /\ UNCHANGED block
  /\ \/ /\ block = "ring" /\ RingNext
        /\ UNCHANGED <<rsVars, listenVars, srtpVars, soxrVars>>
     \/ /\ block = "resampler" /\ ResamplerNext
        /\ UNCHANGED <<ringVars, listenVars, srtpVars, soxrVars>>
     \/ /\ block = "listen" /\ ListenNext
        /\ UNCHANGED <<ringVars, rsVars, srtpVars, soxrVars>>
     \/ /\ block = "srtp" /\ SRTPNext
        /\ UNCHANGED <<ringVars, rsVars, listenVars, soxrVars>>
     \/ /\ block = "soxr" /\ SoxrNext
        /\ UNCHANGED <<ringVars, rsVars, listenVars, srtpVars>>

BlocksSpec == BlocksInit /\ [][BlocksNext]_blockVars
=============================================================================
