----------------------------- MODULE SoxrWriter -----------------------------
(***************************************************************************)
(* The resampler on the soxr library (resample_soxr.go): what soxr emits,  *)
(* late and in bursts, is collected in w.buf and written on in frames.     *)
(*                                                                         *)
(* soxr is external.  Of the input it takes what the room for the output   *)
(* asks for, it holds back up to MaxHeld samples, and an empty input makes *)
(* it emit what it holds.  An output sample is its number, from 1.         *)
(***************************************************************************)
EXTENDS Integers, Sequences

CONSTANTS RatePairs,    \* pairs of source and destination rate
          DataLens,     \* lengths of writes
          MaxHeld,      \* the most that soxr holds back
          FlushRoom,    \* 1024
          MaxSpare,     \* bound on cap(out) - len(out)
          MaxWrites     \* bound on the calls of WriteSample

ASSUME SoxrAssumption ==
  /\ RatePairs \subseteq (Nat \ {0}) \X (Nat \ {0}) /\ DataLens \subseteq Nat
  /\ MaxHeld \in Nat /\ FlushRoom \in Nat \ {0} /\ MaxSpare \in Nat /\ MaxWrites \in Nat

VARIABLES inRate, outRate,
          open,         \* soxr is not closed: r.ptr # nil
          maxIn,
          fed, produced,   \* the samples soxr has taken and emitted
          stage,        \* "idle", "process" in Resample, "flush", or "closed"
          doing,        \* the method: "write" or "close"
          data,         \* len(data) of the write
          input, room,  \* len(in) and len(dst) in Resample
          pcm,          \* w.buf
          dstFrame,
          given, frame, \* history: samples written on, and the last frame of them
          skipped,      \* history: input that Resample returned without
          cut,          \* history: the flush had no room for all that soxr held
          writes        \* the calls of WriteSample

lib      == <<inRate, outRate, open, maxIn, fed, produced>>
history  == <<given, frame, skipped, cut, writes>>
soxrVars == <<lib, stage, doing, data, input, room, pcm, dstFrame, history>>

larger(a, b) == IF a > b THEN a ELSE b
fewer(a, b)  == IF a < b THEN a ELSE b

SoxrInit ==
  /\ \E r \in RatePairs : inRate = r[1] /\ outRate = r[2]
  /\ open = TRUE /\ maxIn = 0 /\ fed = 0 /\ produced = 0
  /\ stage = "idle" /\ doing = "write" /\ data = 0 /\ input = 0 /\ room = 0
  /\ pcm = <<>> /\ dstFrame = 0
  /\ given = 0 /\ frame = <<>> /\ skipped = 0 /\ cut = FALSE /\ writes = 0

----------------------------------------------------------------------------

\* The room that Resample makes for the output of n samples.
roomFor(n, spare) ==
  LET exact == (n * outRate) \div inRate
  IN  IF exact # 0 THEN exact
      ELSE larger((larger(maxIn, n) * outRate) \div inRate, larger(spare, FlushRoom))

\* Resample is entered with n samples.
Resample(n) ==
  /\ maxIn' = larger(maxIn, n)
  /\ input' = n
  /\ \E spare \in 0..MaxSpare : room' = roomFor(n, spare)
  /\ stage' = "process"

\* WriteSample up to Resample; on a closed resampler it only returns an error.
WriteData(n) ==
  /\ stage = "idle" /\ open /\ writes < MaxWrites
  /\ Resample(n)
  /\ doing' = "write" /\ data' = n /\ writes' = writes + 1
  /\ UNCHANGED <<inRate, outRate, open, fed, produced, pcm, dstFrame, given, frame,
                 skipped, cut>>

CloseSoxr ==
  /\ stage = "idle" /\ open
  /\ Resample(0)
  /\ doing' = "close" /\ data' = 0
  /\ UNCHANGED <<inRate, outRate, open, fed, produced, pcm, dstFrame, history>>

\* How much input soxr takes for an output of n.
inputFor(n) == fewer(input, (n * inRate + outRate - 1) \div outRate)

ready(n) == (n * outRate) \div inRate - produced

resampleSize(n) ==
  IF outRate < inRate THEN n \div (inRate \div outRate) ELSE n * (outRate \div inRate)

\* After the last call of soxr_process.  WriteSample keeps the largest frame size,
\* Close closes soxr.
resampled(rest) ==
  /\ stage' = "flush"
  /\ skipped' = skipped + rest
  /\ dstFrame' = IF doing = "write" THEN larger(dstFrame, resampleSize(data)) ELSE dstFrame
  /\ open' = (doing = "write")

\* One call of soxr_process in the loop of Resample.
Process ==
  LET read == inputFor(room)
      most == ready(fed + read)
      rest == input - read
  IN  /\ stage = "process" /\ room > 0
      /\ fed' = fed + read
      /\ input' = rest
      /\ \E done \in 0..fewer(room, most) :
           /\ IF doing = "close" THEN done = fewer(room, most)
              ELSE done >= fewer(room, most - MaxHeld)
           /\ produced' = produced + done
           /\ pcm' = pcm \o [i \in 1..done |-> produced + i]
           /\ room' = room - done
           /\ cut' = (cut \/ (doing = "close" /\ done < most))
           /\ IF rest = 0 \/ done = room THEN resampled(rest)
              ELSE UNCHANGED <<stage, skipped, dstFrame, open>>
      /\ UNCHANGED <<inRate, outRate, maxIn, doing, data, given, frame, writes>>

\* Mutant of minSize: what there is is written, a whole frame or not.
MutMinSize == 0

\* The argument of flush, which keeps less than that for later.
minSize == IF doing = "write" THEN dstFrame ELSE 0

\* One iteration of the loop of flush; an error of w.w does not end it.
FlushFrame ==
  LET size == IF dstFrame = 0 THEN Len(pcm) ELSE fewer(dstFrame, Len(pcm))
  IN  /\ stage = "flush" /\ pcm # <<>> /\ Len(pcm) >= minSize
      /\ frame' = SubSeq(pcm, 1, size)
      /\ given' = given + size
      /\ pcm' = SubSeq(pcm, size + 1, Len(pcm))
      /\ UNCHANGED <<lib, stage, doing, data, input, room, dstFrame, skipped, cut, writes>>

\* The method returns; Close has then closed w.w.
FlushEnds ==
  /\ stage = "flush" /\ (pcm = <<>> \/ Len(pcm) < minSize)
  /\ stage' = IF doing = "write" THEN "idle" ELSE "closed"
  /\ UNCHANGED <<lib, doing, data, input, room, pcm, dstFrame, history>>

SoxrNext ==
  \/ \E n \in DataLens : WriteData(n)
  \/ CloseSoxr \/ Process \/ FlushFrame \/ FlushEnds

----------------------------------------------------------------------------

\* The writer behind the resampler gets every sample soxr emits, once, in order
\* and, until the close, in whole frames of the size the rates give for the longest
\* write, however late soxr is; Close gives it the rest, unless soxr holds more than
\* Resample makes room for when it flushes.  Input is skipped only by a write whose
\* length the rates do not divide.
SoxrWhole ==
  [][/\ given' # given =>
          /\ \A i \in 1..Len(frame') : frame'[i] = given + i
          /\ given' = given + Len(frame')
          /\ doing = "write" /\ dstFrame > 0 => Len(frame') = dstFrame
     /\ stage = "flush" /\ stage' = "closed" =>
          given = produced /\ (cut \/ ready(fed) = 0)
     /\ skipped' # skipped => (data * outRate) % inRate # 0]_soxrVars
=============================================================================
