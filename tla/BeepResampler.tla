--------------------------- MODULE BeepResampler ---------------------------
(***************************************************************************)
(* The resampler in Go (resampler_beep.go) behind its writer               *)
(* (resample_beep.go): a write appends to inbuf and asks Stream for as     *)
(* many samples as the rates give for it.  Stream finds the 2 * Quality    *)
(* source samples around each position in two buffers that swap roles,     *)
(* which it refills from inbuf whenever a sample lies beyond the second.   *)
(*                                                                         *)
(* A source sample is its number, from 0; Silence is the zero that stands  *)
(* for samples there are none of.  The interpolation is floating point and *)
(* left out, and so is the rounding of position times ratio.               *)
(***************************************************************************)
EXTENDS Integers, Sequences

CONSTANTS BufLen,       \* the length of the two buffers at first
          Quality,      \* beepQuality
          Rates,        \* pairs of source and destination rate
          FrameLens,    \* lengths of writes; all writes of a writer have one
          MaxFrames     \* bound on the writes

VARIABLES srcRate, dstRate, frameLen,
          written,      \* source samples written so far
          inbuf, first, buf1, buf2, off, pos,
          left,         \* len(samples) in Stream
          pts,          \* the points found for the current sample
          at            \* "idle", "stream", or "panic"

rsVars == <<srcRate, dstRate, frameLen, written, inbuf, first, buf1, buf2, off,
            pos, left, pts, at>>

Silence == -1

smaller(a, b) == IF a < b THEN a ELSE b

skipping(s, n) == SubSeq(s, n + 1, Len(s))

ResamplerInit ==
  /\ \E r \in Rates : srcRate = r[1] /\ dstRate = r[2]
  /\ frameLen \in FrameLens
  /\ written = 0 /\ inbuf = <<>> /\ first = TRUE
  /\ buf1 = [i \in 1..BufLen |-> Silence] /\ buf2 = buf1
  /\ off = 0 /\ pos = 0 /\ left = 0 /\ pts = <<>> /\ at = "idle"

----------------------------------------------------------------------------

\* How many samples a write of n asks for: the rates are divided as integers.
outLen(n) ==
  IF srcRate > dstRate THEN n \div (srcRate \div dstRate)
  ELSE n * (dstRate \div srcRate)

\* resampleWriterBeep.WriteSample, into Stream, which first fills buf2.
WriteSample ==
  LET in == inbuf \o [i \in 1..frameLen |-> written + i - 1]
      sn == IF first THEN smaller(Len(buf2), Len(in)) ELSE 0
  IN  /\ at = "idle" /\ written < MaxFrames * frameLen
      /\ written' = written + frameLen
      /\ inbuf' = skipping(in, sn)
      /\ buf2' = IF first THEN SubSeq(in, 1, sn) ELSE buf2
      /\ first' = FALSE
      /\ left' = outLen(frameLen)
      /\ at' = "stream"
      /\ UNCHANGED <<srcRate, dstRate, frameLen, buf1, off, pos, pts>>

\* The position in the source, and the sample wanted next around it.
srcPos == (pos * srcRate) \div dstRate
wanted(pi) == srcPos + pi - Quality + 1
k == wanted(Len(pts))

end2 == off + Len(buf2)

more == at = "stream" /\ left > 0 /\ Len(pts) < 2 * Quality

InBuf1 ==
  LET i == Len(buf1) + k - off
  IN  /\ more /\ k < off
      /\ IF i < 0 THEN at' = "panic" /\ UNCHANGED pts
         ELSE pts' = Append(pts, buf1[i + 1]) /\ UNCHANGED at
      /\ UNCHANGED <<srcRate, dstRate, frameLen, written, inbuf, first, buf1,
                     buf2, off, pos, left>>

InBuf2 ==
  /\ more /\ k >= off /\ k < end2
  /\ pts' = Append(pts, buf2[k - off + 1])
  /\ UNCHANGED <<srcRate, dstRate, frameLen, written, inbuf, first, buf1, buf2,
                 off, pos, left, at>>

\* Mutant of offAfter: the offset moves by what was read.
MutOffAfter(sn) == off + sn

offAfter(sn) == off + Len(buf2)

\* The sample is beyond buf2: read into buf1.  Then either the position itself is
\* still beyond the data, and Stream ends short; or only this sample is, and it
\* counts as silence; or the buffers swap and the sample starts over.
Load ==
  LET sn   == smaller(Len(buf1), Len(inbuf))
      data == SubSeq(inbuf, 1, sn)
      over == data \o skipping(buf1, sn)
  IN  /\ more /\ k >= end2
      /\ inbuf' = skipping(inbuf, sn)
      /\ \/ /\ srcPos >= end2 + sn
            /\ buf1' = over /\ left' = 0 /\ pts' = <<>>
            /\ UNCHANGED <<buf2, off>>
         \/ /\ srcPos < end2 + sn /\ k >= end2 + sn
            /\ buf1' = over /\ pts' = Append(pts, Silence)
            /\ UNCHANGED <<buf2, off, left>>
         \/ /\ k < end2 + sn
            /\ off' = offAfter(sn)
            /\ buf1' = buf2 /\ buf2' = data /\ pts' = <<>>
            /\ UNCHANGED left
      /\ UNCHANGED <<srcRate, dstRate, frameLen, written, first, pos, at>>

\* All points are there and the sample is computed.
Interpolate ==
  /\ at = "stream" /\ Len(pts) = 2 * Quality
  /\ left' = left - 1 /\ pos' = pos + 1 /\ pts' = <<>>
  /\ UNCHANGED <<srcRate, dstRate, frameLen, written, inbuf, first, buf1, buf2,
                 off, at>>

StreamEnds ==
  /\ at = "stream" /\ left = 0
  /\ at' = "idle"
  /\ UNCHANGED <<srcRate, dstRate, frameLen, written, inbuf, first, buf1, buf2,
                 off, pos, left, pts>>

ResamplerNext ==
  WriteSample \/ InBuf1 \/ InBuf2 \/ Load \/ Interpolate \/ StreamEnds

----------------------------------------------------------------------------

\* Every sample is interpolated from the samples around its position and no
\* others: through refills, swaps and ends of frames each point is the source
\* sample of that number, silence only before the first and after the last one
\* written, and no index leaves a buffer (beepResampler.Stream).
PointsInPlace ==
  /\ at # "panic"
  /\ \A i \in 1..Len(pts) :
       pts[i] = IF wanted(i - 1) \in 0..written-1 THEN wanted(i - 1) ELSE Silence
=============================================================================
