-------------------------------- MODULE Mixer --------------------------------
(***************************************************************************)
(* The audio mixer of package mixer (mixer.go): the goroutine start, which *)
(* mixes when the ticker fires, the goroutine writer, which hands frames   *)
(* to the sink when there is an output channel, the producers of the       *)
(* inputs, and the callers of NewInput, RemoveInput and Stop.              *)
(*                                                                         *)
(* m.mu is held over several steps only by mixInputs (at = "inputs").  An  *)
(* input's ring buffer is the bounded queue that RingBuffer is shown to    *)
(* implement.  A sample is its input and its number among the samples      *)
(* written there, a mixed sample is the set of the samples added up in it. *)
(***************************************************************************)
EXTENDS Fifo, FiniteSets, SequencesExt

CONSTANTS Inputs,       \* the inputs that NewInput may return
          MixSize,      \* len(m.mixBuf)
          BufferFrames, \* m.inputBufferFrames
          ChanSize,     \* cap(m.outchan), when it is not nil
          TickerDur,    \* m.tickerDur
          WriteSizes,   \* how many samples a WriteSample may have
          MaxSamples,   \* bound on the samples written to an input
          MaxTime       \* bound on the clock

ASSUME MixerAssumption ==
  /\ MixSize \in Nat \ {0} /\ BufferFrames \in Nat \ {0}
  /\ TickerDur \in Nat \ {0} /\ ChanSize \in Nat \ {0}
  /\ WriteSizes \subseteq Nat /\ MaxSamples \in Nat /\ MaxTime \in Nat
  /\ IsFiniteSet(Inputs)

VARIABLES
  inputs,       \* m.inputs
  buf,          \* the buffered samples of every input
  buffering,    \* the inputs that are buffering
  created,      \* the inputs NewInput has returned
  written,      \* how many samples were written to an input
  stats,        \* the counters that the properties speak of
  now,          \* time.Now
  tick,         \* whether ticker.C holds a tick
  at,           \* where the goroutine start is
  left,         \* the mixes that mixUpdate has left to do
  lastMixEndTs, \* or None
  next,         \* mixInputs' place in m.inputs
  mixBuf,       \* the sets of samples added up so far
  outchan,
  writer,       \* where the goroutine writer is, "none" when m.outchan is nil
  out,          \* the last frame given to the sink
  heard,        \* history: the last sample of every input given to the sink
  mixCnt,       \* m.mixCnt
  firstMix,     \* history: the time of the first mix, or None
  stop          \* the call of Stop; "done" is m.stopped

inputVars == <<inputs, buf, buffering, created, written, stats>>
clockVars == <<now, tick, lastMixEndTs, firstMix>>
mixVars   == <<at, left, next, mixBuf, mixCnt>>
outVars   == <<outchan, writer, out, heard>>

vars == <<inputVars, clockVars, mixVars, outVars, stop>>

None == -1
Silence == [j \in 1..MixSize |-> {}]
BufferSize == MixSize * BufferFrames
BufferMin == (BufferFrames \div 2 + 1) * MixSize

Sample == Inputs \X (1..MaxSamples)
StatNames == {"tracks", "resets", "restarts", "input", "dropped", "mixed"}

\* The numbers of the samples of input i in a mixed frame.
numbersOf(frame, i) ==
  {n \in 1..MaxSamples : \E j \in 1..MixSize : <<i, n>> \in frame[j]}

Init ==
  /\ inputs = <<>> /\ created = {} /\ buffering = {}
  /\ buf = [i \in Inputs |-> <<>>] /\ written = [i \in Inputs |-> 0]
  /\ stats = [s \in StatNames |-> 0]
  /\ now = 0 /\ tick = FALSE /\ lastMixEndTs = None /\ firstMix = None
  /\ at = "select" /\ left = 0 /\ next = 1 /\ mixBuf = Silence /\ mixCnt = 0
  /\ outchan = <<>>
  /\ writer \in {"none", "select"}
  /\ out = Silence /\ heard = [i \in Inputs |-> 0]
  /\ stop = "no"

\* Mutant of muFree: the lock is kept until the frame has been written.
MutMuUntilWritten == at \notin {"inputs", "send", "write"}

muFree == at # "inputs"

----------------------------------------------------------------------------
(* The producers and the owners of the inputs.                             *)

NewInput(i) ==
  /\ muFree /\ stop # "done" /\ i \notin created
  /\ created' = created \cup {i}
  /\ inputs' = Append(inputs, i)
  /\ buffering' = buffering \cup {i}
  /\ stats' = [stats EXCEPT !["tracks"] = @ + 1]
  /\ UNCHANGED <<buf, written, clockVars, mixVars, outVars, stop>>

\* RemoveInput, and Close of the input, any number of times.
RemoveInput(i) ==
  /\ muFree /\ i \in created
  /\ \E k \in DOMAIN inputs : inputs[k] = i /\ inputs' = RemoveAt(inputs, k)
  /\ stats' = [stats EXCEPT !["tracks"] = @ - 1]
  /\ UNCHANGED <<buf, buffering, created, written, clockVars, mixVars, outVars, stop>>

\* Mutant of discarded: what a write longer than the buffer skips is missed.
MutDiscarded(b, n) == LET d == Len(b) + Least(n, BufferSize) - BufferSize
                      IN  IF d > 0 THEN d ELSE 0

discarded(b, n) == LET d == Len(b) + n - BufferSize IN IF d > 0 THEN d ELSE 0

\* Input.WriteSample of n samples, of an input in or out of the mix.
WriteSample(i, n) ==
  /\ i \in created /\ written[i] + n <= MaxSamples
  /\ written' = [written EXCEPT ![i] = @ + n]
  /\ stats' = [stats EXCEPT !["input"] = @ + n,
                            !["dropped"] = @ + discarded(buf[i], n)]
  /\ buf' = [buf EXCEPT ![i] =
               newest(@ \o [k \in 1..n |-> <<i, written[i] + k>>], BufferSize)]
  /\ UNCHANGED <<inputs, buffering, created, clockVars, mixVars, outVars, stop>>

----------------------------------------------------------------------------
(* The ticker goroutine.                                                   *)

\* Time passes; the ticker drops a tick that nobody has taken.
Clock ==
  /\ now < MaxTime
  /\ now' = now + 1
  /\ tick' = (tick \/ (at # "exit" /\ now' % TickerDur = 0))
  /\ UNCHANGED <<inputVars, lastMixEndTs, firstMix, mixVars, outVars, stop>>

fuzz == TickerDur \div 4

\* Mutant of periods: a period that has only begun is mixed as well.
MutPeriodsUp == (now - lastMixEndTs + TickerDur - 1) \div TickerDur

\* The periods since the last mix, rounded as mixUpdate rounds them; none when
\* the last time went over the clock by the fuzz (NegativeMixes).
periods == IF now < lastMixEndTs THEN 0
           ELSE (now - lastMixEndTs + fuzz) \div TickerDur

\* How many of them are mixed.
burst == Least(periods, BufferFrames)

\* Mutant of mixUntil: the timeline is moved to the time of the wake-up.
MutMixUntilNow(n) == now

mixUntil(n) == lastMixEndTs + n * TickerDur

\* The select receives a tick and mixUpdate runs up to its loop, ...
FirstMix ==
  /\ at = "select" /\ tick /\ lastMixEndTs = None
  /\ lastMixEndTs' = now /\ firstMix' = now
  /\ left' = 1 /\ at' = "mix" /\ tick' = FALSE
  /\ UNCHANGED <<inputVars, now, next, mixBuf, mixCnt, outVars, stop>>

TimedMix ==
  /\ at = "select" /\ tick /\ lastMixEndTs # None
  /\ tick' = FALSE /\ at' = "mix"
  /\ left' = burst
  /\ \/ /\ periods <= BufferFrames
        /\ lastMixEndTs' = mixUntil(periods)
        /\ stats' = stats
     \/ /\ periods > BufferFrames
        /\ lastMixEndTs' = now
        /\ stats' = [stats EXCEPT !["resets"] = @ + BufferFrames]
  /\ UNCHANGED <<inputs, buf, buffering, created, written, now, firstMix, next,
                 mixBuf, mixCnt, outVars, stop>>

UpdateDone ==
  /\ at = "mix" /\ left = 0
  /\ at' = "select"
  /\ UNCHANGED <<inputVars, clockVars, left, next, mixBuf, mixCnt, outVars, stop>>

\* Mutant of reset: the buffer keeps the frame mixed before.
MutResetKeeps == mixBuf' = mixBuf

reset == mixBuf' = Silence

\* mixOnce up to the lock of mixInputs.
MixOnce ==
  /\ at = "mix" /\ left > 0
  /\ left' = left - 1 /\ mixCnt' = mixCnt + 1
  /\ reset
  /\ at' = "inputs"
  /\ UNCHANGED <<inputVars, clockVars, next, outVars, stop>>

\* readSample of the next input, which is not buffered enough.
KeepBuffering ==
  /\ at = "inputs" /\ next <= Len(inputs)
  /\ inputs[next] \in buffering /\ Len(buf[inputs[next]]) < BufferMin
  /\ next' = next + 1
  /\ UNCHANGED <<inputVars, clockVars, at, left, mixBuf, mixCnt, outVars, stop>>

\* Mutant of Starve: the input is played again as soon as it has samples.
MutStarveOn ==
  /\ at = "inputs" /\ next <= Len(inputs)
  /\ inputs[next] \notin buffering /\ buf[inputs[next]] = <<>>
  /\ stats' = [stats EXCEPT !["restarts"] = @ + 1]
  /\ next' = next + 1
  /\ UNCHANGED <<inputs, buf, buffering, created, written, clockVars, at, left,
                 mixBuf, mixCnt, outVars, stop>>

\* readSample of the next input, which plays and has nothing left.
Starve ==
  /\ at = "inputs" /\ next <= Len(inputs)
  /\ inputs[next] \notin buffering /\ buf[inputs[next]] = <<>>
  /\ buffering' = buffering \cup {inputs[next]}
  /\ stats' = [stats EXCEPT !["restarts"] = @ + 1]
  /\ next' = next + 1
  /\ UNCHANGED <<inputs, buf, created, written, clockVars, at, left, mixBuf,
                 mixCnt, outVars, stop>>

\* readSample of the next input and the addition of what it returned.
Play ==
  /\ at = "inputs" /\ next <= Len(inputs)
  /\ LET i    == inputs[next]
         tmp  == oldest(buf[i], MixSize)
     IN  /\ i \in buffering => Len(buf[i]) >= BufferMin
         /\ tmp # <<>>
         /\ buffering' = buffering \ {i}
         /\ buf' = [buf EXCEPT ![i] = without(@, MixSize)]
         /\ mixBuf' = [j \in 1..MixSize |->
                         mixBuf[j] \cup IF j <= Len(tmp) THEN {tmp[j]} ELSE {}]
         /\ stats' = [stats EXCEPT !["mixed"] = @ + Len(tmp)]
  /\ next' = next + 1
  /\ UNCHANGED <<inputs, created, written, clockVars, at, left, mixCnt, outVars, stop>>

\* The inputs are mixed and the lock is released.
MixUnlock ==
  /\ at = "inputs" /\ next > Len(inputs)
  /\ at' = "send" /\ next' = 1
  /\ UNCHANGED <<inputVars, clockVars, left, mixBuf, mixCnt, outVars, stop>>

\* out.WriteSample(frame) is entered.
give(frame) ==
  /\ out' = frame
  /\ heard' = [i \in Inputs |-> Max(numbersOf(frame, i) \cup {heard[i]})]

WriteDirect ==
  /\ at = "send" /\ writer = "none"
  /\ give(mixBuf)
  /\ at' = "write"
  /\ UNCHANGED <<inputVars, clockVars, left, next, mixBuf, mixCnt, outchan, writer,
                 stop>>

WriteReturns ==
  /\ at = "write"
  /\ at' = "mix"
  /\ UNCHANGED <<inputVars, clockVars, left, next, mixBuf, mixCnt, outVars, stop>>

\* m.outchan <- out, at once or when there is room again.
Send ==
  /\ at = "send" /\ writer # "none" /\ Len(outchan) < ChanSize
  /\ outchan' = Append(outchan, mixBuf)
  /\ at' = "mix"
  /\ UNCHANGED <<inputVars, clockVars, left, next, mixBuf, mixCnt, writer, out,
                 heard, stop>>

MixerExit ==
  /\ at = "select" /\ stop = "done"
  /\ at' = "exit"
  /\ UNCHANGED <<inputVars, clockVars, left, next, mixBuf, mixCnt, outVars, stop>>

----------------------------------------------------------------------------
(* The writer goroutine and Stop.                                          *)

WriterTake ==
  /\ writer = "select" /\ outchan # <<>>
  /\ outchan' = Tail(outchan)
  /\ give(outchan[1])
  /\ writer' = "write"
  /\ UNCHANGED <<inputVars, clockVars, mixVars, stop>>

WriterReturns ==
  /\ writer = "write"
  /\ writer' = "select"
  /\ UNCHANGED <<inputVars, clockVars, mixVars, outchan, out, heard, stop>>

WriterExit ==
  /\ writer = "select" /\ stop = "done"
  /\ writer' = "exit"
  /\ UNCHANGED <<inputVars, clockVars, mixVars, outchan, out, heard, stop>>

StopCall ==
  /\ stop = "no" /\ stop' = "locking"
  /\ UNCHANGED <<inputVars, clockVars, mixVars, outVars>>

StopLock ==
  /\ stop = "locking" /\ muFree /\ stop' = "done"
  /\ UNCHANGED <<inputVars, clockVars, mixVars, outVars>>

----------------------------------------------------------------------------

MixUpdate == FirstMix \/ TimedMix \/ UpdateDone
ReadInput == KeepBuffering \/ Starve \/ Play
Mix == MixOnce \/ ReadInput \/ MixUnlock \/ WriteDirect \/ Send
Returns == WriteReturns \/ WriterReturns

Next ==
  \/ \E i \in Inputs : NewInput(i) \/ RemoveInput(i)
  \/ \E i \in Inputs, n \in WriteSizes : WriteSample(i, n)
  \/ Clock \/ MixUpdate \/ Mix \/ MixerExit
  \/ WriterTake \/ WriterExit \/ Returns
  \/ StopCall \/ StopLock

Spec == Init /\ [][Next]_vars

\* The scheduler runs every goroutine that can go on; Go's select picks among
\* ready cases at random and its mutex hands over to a waiter that starves.
Fairness ==
  /\ WF_vars(MixUpdate) /\ WF_vars(Mix) /\ WF_vars(WriterTake)
  /\ SF_vars(MixerExit) /\ SF_vars(WriterExit)
  /\ SF_vars(StopLock)

FairSpec == Spec /\ Fairness

\* In addition the sink returns from WriteSample.
FairSinkSpec == FairSpec /\ WF_vars(WriteReturns) /\ WF_vars(WriterReturns)

----------------------------------------------------------------------------
(* Properties.                                                             *)

\* The type invariant: in particular the ring of an input never holds more than
\* inputBufferFrames, and mixUpdate never plans more than as many mixes.
MixerTypeOK ==
  /\ inputs \in Seq(Inputs) /\ created \subseteq Inputs /\ buffering \subseteq created
  /\ buf \in [Inputs -> Seq(Sample)] /\ written \in [Inputs -> 0..MaxSamples]
  /\ \A i \in Inputs : Len(buf[i]) <= BufferSize
  /\ stats \in [StatNames -> Int]
  /\ now \in Nat /\ tick \in BOOLEAN
  /\ lastMixEndTs \in Nat \cup {None} /\ firstMix \in Nat \cup {None}
  /\ at \in {"select", "mix", "inputs", "send", "write", "exit"}
  /\ left \in 0..BufferFrames /\ next \in 1..Len(inputs)+1
  /\ mixBuf \in [1..MixSize -> SUBSET Sample] /\ mixCnt \in Nat
  /\ outchan \in Seq([1..MixSize -> SUBSET Sample]) /\ Len(outchan) <= ChanSize
  /\ writer \in {"none", "select", "write", "exit"}
  /\ out \in [1..MixSize -> SUBSET Sample] /\ heard \in [Inputs -> 0..MaxSamples]
  /\ stop \in {"no", "locking", "done"}

\* The places of the rings that hold a sample.
buffered == {p \in Inputs \X (1..BufferSize) : p[2] <= Len(buf[p[1]])}

\* InputSamples is the sum of MixedSamples, InputSamplesDropped and what is
\* buffered: WriteSample counts as dropped exactly what the ring discards, in
\* writes that are longer than the buffer too, whatever readSample does meanwhile.
SamplesConserved ==
  stats["input"] = stats["mixed"] + stats["dropped"] + Cardinality(buffered)

\* An input that starved is not played before inputBufferMin frames are there
\* again, so that Restarts cannot grow faster than one per inputBufferMin
\* frames mixed: a slow producer is not chopped into single frames.
RestartsEarned == stats["restarts"] * BufferMin <= stats["mixed"]

planned == mixCnt + left

\* mixUpdate never mixes ahead of real time by more than the frame in hand and
\* the fuzz, through late ticks, dropped ticks, catching up and timing resets.
InRealTime ==
  firstMix # None =>
    planned * TickerDur <= now - firstMix + TickerDur + fuzz

\* When mixUpdate has planned its mixes it has caught up with real time to less
\* than a period, unless it gave up on more than inputBufferFrames of them.
KeepsUp ==
  [][at = "select" /\ at' = "mix" /\ stats'["resets"] = 0 =>
       planned' * TickerDur > now - firstMix' + fuzz]_vars

\* The sink receives the samples of every input in the order in which they were
\* written and no sample twice: mixOnce clears the buffer it adds up in, and
\* frames do not overtake each other on their way through the channel.
OutputInOrder ==
  [][out' # out =>
       \A i \in Inputs : \A n \in numbersOf(out', i) : n > heard[i]]_vars

\* Whoever holds m.mu can go on by itself: a mix waits neither for the sink nor for
\* room in the channel with the lock in its hands, so that Stop, NewInput and
\* RemoveInput are not held up by a sink that blocks.
StopNotHeldUp == ~muFree => ENABLED (ReadInput \/ MixUnlock)

\* After Stop the goroutine that mixes comes to its end.
MixerStops == stop = "done" ~> at = "exit"
=============================================================================
