----------------------------- MODULE MixerProofs -----------------------------
(***************************************************************************)
(* Proofs about the mixer, for every set of inputs, every frame and buffer *)
(* size and every ticker.                                                  *)
(***************************************************************************)
EXTENDS MixedStream, ListLemmas, FiniteSetTheorems

\* mixInputs starts at the first input, and m.inputs holds what NewInput made.
MixPlace == (at # "inputs" => next = 1) /\ inputs \in Seq(created)

MixerInv == MixerTypeOK /\ MixPlace

----------------------------------------------------------------------------
(* The samples: an input that plays still owes what is missing from        *)
(* inputBufferMin in its ring.                                             *)

owed == {p \in Inputs \X (1..BufferMin) :
           p[1] \in created \ buffering /\ p[2] > Len(buf[p[1]])}

Earned == stats["restarts"] * BufferMin + Cardinality(owed) <= stats["mixed"]

SampleInv == SamplesConserved /\ Earned

----------------------------------------------------------------------------
(* The timeline.                                                           *)

TimeInv ==
  /\ (firstMix = None) <=> (lastMixEndTs = None)
  /\ at \in {"select", "exit"} => left = 0
  /\ firstMix = None => planned = 0
  /\ firstMix # None =>
       /\ lastMixEndTs <= now + fuzz /\ firstMix <= now
       /\ planned * TickerDur <= (lastMixEndTs - firstMix) + TickerDur
       /\ stats["resets"] = 0 =>
            planned * TickerDur = (lastMixEndTs - firstMix) + TickerDur
  /\ stats["resets"] >= 0

----------------------------------------------------------------------------
(* The way of the samples of an input: given to the sink, in the channel,  *)
(* in the frame that is mixed, in the ring.                                *)

\* The frame in mixBuf that is not on its way yet.
inHand(i) == IF at \in {"inputs", "send"} THEN numbersOf(mixBuf, i) ELSE {}

\* The samples of input i in the channel.
ChannelOrder(i) ==
  /\ \A k \in 1..Len(outchan) : \A n \in numbersOf(outchan[k], i) :
       heard[i] < n /\ n <= written[i]
  /\ \A j, k \in 1..Len(outchan) : j < k =>
       \A m \in numbersOf(outchan[j], i), n \in numbersOf(outchan[k], i) : m < n

\* Those in the frame in hand come after the ones in the channel.
HandOrder(i) ==
  \A n \in inHand(i) :
    /\ heard[i] < n /\ n <= written[i]
    /\ \A k \in 1..Len(outchan) : \A m \in numbersOf(outchan[k], i) : m < n

\* Those in the ring come after all of them, in order.
RingOrder(i) ==
  /\ \A k \in 1..Len(buf[i]) :
       /\ buf[i][k][1] = i /\ heard[i] < buf[i][k][2] /\ buf[i][k][2] <= written[i]
       /\ \A n \in inHand(i) : n < buf[i][k][2]
       /\ \A l \in 1..Len(outchan) : \A n \in numbersOf(outchan[l], i) : n < buf[i][k][2]
  /\ \A k, l \in 1..Len(buf[i]) : k < l => buf[i][k][2] < buf[i][l][2]

InOrder(i) ==
  heard[i] <= written[i] /\ ChannelOrder(i) /\ HandOrder(i) /\ RingOrder(i)

OrderInv ==
  /\ writer = "none" => outchan = <<>>
  /\ \A i \in Inputs : InOrder(i)

----------------------------------------------------------------------------
(* Numbers and sequences.                                                  *)

LEMMA Sizes ==
  /\ MixSize \in Nat \ {0} /\ BufferFrames \in Nat \ {0} /\ TickerDur \in Nat \ {0}
  /\ ChanSize \in Nat \ {0} /\ MaxSamples \in Nat
  /\ BufferSize \in Nat /\ BufferMin \in Nat \ {0}
  /\ fuzz \in Nat /\ fuzz < TickerDur
<1>1. /\ MixSize \in Nat \ {0} /\ BufferFrames \in Nat \ {0} /\ TickerDur \in Nat \ {0}
      /\ ChanSize \in Nat \ {0} /\ MaxSamples \in Nat
  BY MixerAssumption
<1>2. BufferSize \in Nat
  <2>1. \A a, b \in Nat : a * b \in Nat
    OBVIOUS
  <2> QED BY <1>1, <2>1 DEF BufferSize
<1>3. BufferMin \in Nat \ {0}
  <2>1. \A a, b \in Nat \ {0} : a * b \in Nat \ {0}
    OBVIOUS
  <2>2. BufferFrames \div 2 + 1 \in Nat \ {0}
    BY <1>1
  <2> QED BY <1>1, <2>1, <2>2 DEF BufferMin
<1>4. fuzz \in Nat /\ fuzz < TickerDur
  BY <1>1 DEF fuzz
<1> QED BY <1>1, <1>2, <1>3, <1>4

\* What mixUpdate's division says of the time since the last mix.
LEMMA PeriodsAre ==
  ASSUME MixerTypeOK, lastMixEndTs # None
  PROVE  /\ periods \in Nat /\ burst \in 0..BufferFrames /\ lastMixEndTs \in Nat
         /\ periods * TickerDur \in Nat
         /\ lastMixEndTs <= now + fuzz =>
              /\ lastMixEndTs + periods * TickerDur <= now + fuzz
              /\ lastMixEndTs + (periods + 1) * TickerDur > now + fuzz
<1>1. now \in Nat /\ lastMixEndTs \in Nat
  BY DEF MixerTypeOK
<1>2. /\ TickerDur \in Nat \ {0} /\ BufferFrames \in Nat /\ fuzz \in Nat
      /\ fuzz < TickerDur
  BY Sizes
<1>3. \A a \in Nat, d \in Nat \ {0} :
        /\ a \div d \in Nat /\ (a \div d) * d <= a /\ a < ((a \div d) + 1) * d
        /\ (a \div d) * d \in Nat
  OBVIOUS
<1>4. CASE now < lastMixEndTs
  <2>1. periods = 0
    BY <1>4 DEF periods
  <2>2. burst \in 0..BufferFrames
    BY <1>2, <2>1 DEF burst, Least
  <2> QED BY <1>1, <1>2, <1>4, <2>1, <2>2
<1>5. CASE ~(now < lastMixEndTs)
  <2> DEFINE a == (now - lastMixEndTs) + fuzz
  <2>1. a \in Nat
    BY <1>1, <1>2, <1>5
  <2>2. periods = a \div TickerDur
    BY <1>5 DEF periods
  <2> HIDE DEF a
  <2>3. periods \in Nat /\ periods * TickerDur <= a /\ a < (periods + 1) * TickerDur
        /\ periods * TickerDur \in Nat /\ (periods + 1) * TickerDur \in Nat
    BY <1>2, <1>3, <2>1, <2>2
  <2>4. burst \in 0..BufferFrames
    BY <1>2, <2>3 DEF burst, Least
  <2>5. a = (now - lastMixEndTs) + fuzz
    BY DEF a
  <2> QED BY <1>1, <1>2, <2>1, <2>3, <2>4, <2>5
<1> QED BY <1>4, <1>5

\* slices.Delete of one element.
LEMMA RemoveAtIs ==
  ASSUME NEW S, NEW s \in Seq(S), NEW k \in 1..Len(s)
  PROVE  RemoveAt(s, k) \in Seq(S)
<1>1. Len(s) \in Nat /\ k \in Int /\ 1 <= k /\ k <= Len(s)
  BY LenProperties
<1>2. SubSeq(s, 1, k - 1) \in Seq(S)
  BY <1>1, SliceProperties
<1>3. SubSeq(s, k + 1, Len(s)) \in Seq(S)
  BY <1>1, SliceProperties
<1> QED BY <1>2, <1>3, ConcatProperties DEF RemoveAt

\* A frame is given to the sink: heard moves to the greatest number in it.
LEMMA HeardIs ==
  ASSUME NEW f, heard \in [Inputs -> 0..MaxSamples], give(f)
  PROVE  /\ heard' \in [Inputs -> 0..MaxSamples]
         /\ \A i \in Inputs : /\ heard'[i] \in numbersOf(f, i) \cup {heard[i]}
                              /\ heard'[i] >= heard[i]
                              /\ \A n \in numbersOf(f, i) : n <= heard'[i]
<1>1. heard' = [i \in Inputs |-> Max(numbersOf(f, i) \cup {heard[i]})]
  BY DEF give
<1>2. ASSUME NEW i \in Inputs
      PROVE  /\ heard'[i] \in numbersOf(f, i) \cup {heard[i]} /\ heard'[i] \in 0..MaxSamples
             /\ \A n \in numbersOf(f, i) \cup {heard[i]} : n <= heard'[i]
  <2> DEFINE T == numbersOf(f, i) \cup {heard[i]}
  <2>1. MaxSamples \in Nat /\ heard[i] \in 0..MaxSamples
    BY Sizes
  <2>2. numbersOf(f, i) \subseteq 0..MaxSamples
    BY <2>1 DEF numbersOf
  <2>3. T \in SUBSET (0..MaxSamples) /\ T # {}
    BY <2>1, <2>2
  <2>4. heard'[i] = Max(T)
    BY <1>1
  <2> HIDE DEF T
  <2>5. Max(T) \in T /\ \A y \in T : y <= Max(T)
    BY <2>1, <2>3, MaxIsGreatest
  <2> QED BY <2>3, <2>4, <2>5 DEF T
<1>3. heard' \in [Inputs -> 0..MaxSamples]
  BY <1>1, <1>2
<1>4. ASSUME NEW i \in Inputs PROVE heard'[i] >= heard[i]
  <2>1. heard[i] \in numbersOf(f, i) \cup {heard[i]}
    OBVIOUS
  <2>2. heard[i] <= heard'[i]
    BY <1>2, <2>1
  <2>3. heard[i] \in Int /\ heard'[i] \in Int
    BY <1>2, Sizes
  <2> QED BY <2>2, <2>3
<1> QED BY <1>2, <1>3, <1>4

----------------------------------------------------------------------------
(* Types.                                                                  *)

Frame == [1..MixSize -> SUBSET Sample]

LEMMA MixerTypes ==
  ASSUME MixerInv
  PROVE  /\ inputs \in Seq(Inputs) /\ Len(inputs) \in Nat
         /\ created \subseteq Inputs /\ buffering \subseteq created
         /\ buf \in [Inputs -> Seq(Sample)] /\ written \in [Inputs -> 0..MaxSamples]
         /\ \A i \in Inputs : Len(buf[i]) \in Nat /\ Len(buf[i]) <= BufferSize
         /\ stats \in [StatNames -> Int] /\ next \in 1..Len(inputs)+1
         /\ inputs \in Seq(created) /\ (at # "inputs" => next = 1)
         /\ mixBuf \in Frame /\ outchan \in Seq(Frame)
<1>1. /\ inputs \in Seq(Inputs) /\ buf \in [Inputs -> Seq(Sample)]
  BY DEF MixerInv, MixerTypeOK
<1>2. Len(inputs) \in Nat /\ \A i \in Inputs : Len(buf[i]) \in Nat
  BY <1>1, LenProperties
<1> QED BY <1>1, <1>2 DEF MixerInv, MixerTypeOK, MixPlace, Frame

LEMMA StatInts ==
  ASSUME stats \in [StatNames -> Int]
  PROVE  \A s \in {"tracks", "resets", "restarts", "input", "dropped", "mixed"} :
           s \in StatNames /\ stats[s] \in Int
BY DEF StatNames

LEMMA MixerStarts == Init => MixerInv
<1> SUFFICES ASSUME Init PROVE MixerInv
  OBVIOUS
<1>1. Silence \in [1..MixSize -> SUBSET Sample]
  BY DEF Silence
<1>2. <<>> \in Seq(Sample) /\ <<>> \in Seq(Inputs) /\ <<>> \in Seq(created)
      /\ <<>> \in Seq([1..MixSize -> SUBSET Sample]) /\ Len(<<>>) = 0
  OBVIOUS
<1>3. 0 \in 0..MaxSamples /\ 0 \in 0..BufferFrames /\ 0 <= BufferSize /\ 0 <= ChanSize
  BY Sizes
<1>4. /\ inputs \in Seq(Inputs) /\ created \subseteq Inputs /\ buffering \subseteq created
      /\ buf \in [Inputs -> Seq(Sample)] /\ written \in [Inputs -> 0..MaxSamples]
      /\ \A i \in Inputs : Len(buf[i]) <= BufferSize
      /\ stats \in [StatNames -> Int]
  BY <1>2, <1>3 DEF Init
<1>5. /\ now \in Nat /\ tick \in BOOLEAN
      /\ lastMixEndTs \in Nat \cup {None} /\ firstMix \in Nat \cup {None}
      /\ at \in {"select", "mix", "inputs", "send", "write", "exit"}
      /\ left \in 0..BufferFrames /\ next \in 1..Len(inputs)+1 /\ next = 1
  <2>1. tick \in BOOLEAN
    BY DEF Init
  <2>2. Len(inputs) = 0 /\ next = 1 /\ 1 \in 1..0+1
    BY <1>2 DEF Init
  <2> QED BY <1>3, <2>1, <2>2 DEF Init
<1>6. /\ mixBuf \in [1..MixSize -> SUBSET Sample] /\ mixCnt \in Nat
      /\ outchan \in Seq([1..MixSize -> SUBSET Sample]) /\ Len(outchan) <= ChanSize
      /\ writer \in {"none", "select", "write", "exit"}
      /\ out \in [1..MixSize -> SUBSET Sample] /\ heard \in [Inputs -> 0..MaxSamples]
      /\ stop \in {"no", "locking", "done"}
  BY <1>1, <1>2, <1>3 DEF Init
<1>7. inputs \in Seq(created)
  BY <1>2 DEF Init
<1> QED BY <1>4, <1>5, <1>6, <1>7 DEF MixerInv, MixerTypeOK, MixPlace

\* The calls of the owners and of the producers.
LEMMA TypeCalls ==
  ASSUME MixerInv, NEW i \in Inputs
  PROVE  /\ NewInput(i) => MixerInv'
         /\ RemoveInput(i) => MixerInv'
         /\ \A n \in WriteSizes : WriteSample(i, n) => MixerInv'
<1>0. MixerTypeOK /\ MixPlace
  BY DEF MixerInv
<1>1. ASSUME NewInput(i) PROVE MixerInv'
  <2>1. /\ created' = created \cup {i} /\ inputs' = Append(inputs, i) /\ at # "inputs"
        /\ buffering' = buffering \cup {i}
        /\ stats' = [stats EXCEPT !["tracks"] = @ + 1]
        /\ UNCHANGED <<buf, written, clockVars, mixVars, outVars, stop>>
    BY <1>1 DEF NewInput, muFree
  <2>2. inputs' \in Seq(Inputs) /\ inputs' \in Seq(created') /\ next' \in 1..Len(inputs')+1
    <3>1. inputs \in Seq(created') /\ i \in created'
      BY <1>0, <2>1, SeqMonotonic DEF MixPlace
    <3>2. Len(inputs') \in Nat /\ next' = 1
      BY <1>0, <2>1, <3>1, LenProperties, AppendProperties DEF MixerTypeOK, MixPlace, mixVars
    <3> QED BY <1>0, <2>1, <3>1, <3>2, AppendProperties DEF MixerTypeOK
  <2>3. stats' \in [StatNames -> Int]
    BY <1>0, <2>1 DEF MixerTypeOK, StatNames
  <2> QED BY <1>0, <2>1, <2>2, <2>3
          DEF MixerInv, MixerTypeOK, MixPlace, clockVars, mixVars, outVars
<1>2. ASSUME RemoveInput(i) PROVE MixerInv'
  <2>1. PICK k \in DOMAIN inputs : inputs' = RemoveAt(inputs, k)
    BY <1>2 DEF RemoveInput
  <2>2. /\ at # "inputs" /\ stats' = [stats EXCEPT !["tracks"] = @ - 1]
        /\ UNCHANGED <<buf, buffering, created, written, clockVars, mixVars, outVars, stop>>
    BY <1>2 DEF RemoveInput, muFree
  <2>3. k \in 1..Len(inputs)
    BY <1>0, LenProperties DEF MixerTypeOK
  <2>4. inputs' \in Seq(Inputs) /\ inputs' \in Seq(created')
    BY <1>0, <2>1, <2>2, <2>3, RemoveAtIs DEF MixerTypeOK, MixPlace
  <2>5. next' \in 1..Len(inputs')+1 /\ next' = 1
    <3>1. Len(inputs') \in Nat /\ next' = 1
      BY <1>0, <2>2, <2>4, LenProperties DEF MixPlace, mixVars
    <3> QED BY <3>1
  <2>6. stats' \in [StatNames -> Int]
    <3>1. stats \in [StatNames -> Int] /\ "tracks" \in StatNames
      BY <1>0, StatInts DEF MixerTypeOK
    <3>2. stats["tracks"] - 1 \in Int
      BY <3>1
    <3> QED BY <2>2, <3>1, <3>2
  <2> QED BY <1>0, <2>2, <2>4, <2>5, <2>6
          DEF MixerInv, MixerTypeOK, MixPlace, clockVars, mixVars, outVars
<1>3. ASSUME NEW n \in WriteSizes, WriteSample(i, n) PROVE MixerInv'
  <2> DEFINE p == [k \in 1..n |-> <<i, written[i] + k>>]
  <2>1. /\ written[i] + n <= MaxSamples /\ written' = [written EXCEPT ![i] = @ + n]
        /\ stats' = [stats EXCEPT !["input"] = @ + n,
                                  !["dropped"] = @ + discarded(buf[i], n)]
        /\ buf' = [buf EXCEPT ![i] = newest(@ \o p, BufferSize)]
        /\ UNCHANGED <<inputs, buffering, created, clockVars, mixVars, outVars, stop>>
    BY <1>3 DEF WriteSample
  <2>2. n \in Nat /\ written[i] \in Nat /\ BufferSize \in Nat /\ MaxSamples \in Nat
    BY <1>0, Sizes, MixerAssumption DEF MixerTypeOK
  <2>3. p \in Seq(Sample)
    <3>1. \A k \in 1..n : <<i, written[i] + k>> \in Sample
      BY <2>1, <2>2 DEF Sample
    <3> QED BY <2>2, <3>1, SeqDef
  <2>4. buf[i] \in Seq(Sample) /\ Len(buf[i]) \in Nat
    BY <1>0, LenProperties DEF MixerTypeOK
  <2> HIDE DEF p
  <2>5. buf[i] \o p \in Seq(Sample)
    BY <2>3, <2>4, ConcatProperties
  <2>6. /\ newest(buf[i] \o p, BufferSize) \in Seq(Sample)
        /\ Len(newest(buf[i] \o p, BufferSize)) <= BufferSize
    <3>1. /\ newest(buf[i] \o p, BufferSize) \in Seq(Sample)
          /\ Len(newest(buf[i] \o p, BufferSize)) = Least(BufferSize, Len(buf[i] \o p))
      BY <2>2, <2>5, NewestIs
    <3>2. Least(BufferSize, Len(buf[i] \o p)) <= BufferSize
      BY <2>2, <2>5, LenProperties DEF Least
    <3> QED BY <3>1, <3>2
  <2>7. buf' \in [Inputs -> Seq(Sample)] /\ \A j \in Inputs : Len(buf'[j]) <= BufferSize
    BY <1>0, <2>1, <2>6 DEF MixerTypeOK
  <2>8. written' \in [Inputs -> 0..MaxSamples]
    BY <1>0, <2>1, <2>2 DEF MixerTypeOK
  <2>9. stats' \in [StatNames -> Int]
    <3>1. discarded(buf[i], n) \in Int
      BY <2>2, <2>4 DEF discarded
    <3>2. /\ stats \in [StatNames -> Int] /\ "input" \in StatNames
          /\ "dropped" \in StatNames
      BY <1>0, StatInts DEF MixerTypeOK
    <3>3. stats["input"] + n \in Int /\ stats["dropped"] + discarded(buf[i], n) \in Int
      BY <2>2, <3>1, <3>2
    <3> QED BY <2>1, <3>2, <3>3
  <2> QED BY <1>0, <2>1, <2>7, <2>8, <2>9
          DEF MixerInv, MixerTypeOK, MixPlace, clockVars, mixVars, outVars
<1> QED BY <1>1, <1>2, <1>3

\* The clock and the steps of mixUpdate.
LEMMA TypeUpdate ==
  ASSUME MixerInv
  PROVE  /\ Clock => MixerInv'
         /\ MixUpdate => MixerInv'
         /\ MixOnce => MixerInv'
<1>0. MixerTypeOK /\ MixPlace
  BY DEF MixerInv
<1>1. ASSUME Clock PROVE MixerInv'
  <2>1. /\ now' = now + 1 /\ tick' \in BOOLEAN
        /\ UNCHANGED <<inputVars, lastMixEndTs, firstMix, mixVars, outVars, stop>>
    BY <1>1 DEF Clock
  <2> QED BY <1>0, <2>1 DEF MixerInv, MixerTypeOK, MixPlace, inputVars, mixVars, outVars
<1>2. ASSUME FirstMix PROVE MixerInv'
  <2>1. 1 \in 0..BufferFrames
    BY Sizes
  <2> QED BY <1>0, <1>2, <2>1
          DEF FirstMix, MixerInv, MixerTypeOK, MixPlace, inputVars, outVars
<1>3. ASSUME TimedMix PROVE MixerInv'
  <2>1. /\ at = "select" /\ tick' = FALSE /\ at' = "mix" /\ left' = burst
        /\ UNCHANGED <<inputs, buf, buffering, created, written, now, firstMix, next,
                       mixBuf, mixCnt, outVars, stop>>
    BY <1>3 DEF TimedMix
  <2>2. periods \in Nat /\ burst \in 0..BufferFrames /\ lastMixEndTs \in Nat
        /\ periods * TickerDur \in Nat
    BY <1>0, <1>3, PeriodsAre DEF TimedMix
  <2>3. lastMixEndTs' \in Nat
    <3>1. lastMixEndTs' = mixUntil(periods) \/ lastMixEndTs' = now
      BY <1>3 DEF TimedMix
    <3> QED BY <1>0, <2>2, <3>1 DEF mixUntil, MixerTypeOK
  <2>4. stats' \in [StatNames -> Int]
    <3>1. stats \in [StatNames -> Int] /\ "resets" \in StatNames
      BY <1>0, StatInts DEF MixerTypeOK
    <3>2. stats["resets"] + BufferFrames \in Int
      BY <3>1, Sizes
    <3>3. stats' = stats \/ stats' = [stats EXCEPT !["resets"] = @ + BufferFrames]
      BY <1>3 DEF TimedMix
    <3> QED BY <3>1, <3>2, <3>3
  <2> QED BY <1>0, <2>1, <2>2, <2>3, <2>4
          DEF MixerInv, MixerTypeOK, MixPlace, outVars
<1>4. ASSUME UpdateDone PROVE MixerInv'
  BY <1>0, <1>4
     DEF UpdateDone, MixerInv, MixerTypeOK, MixPlace, inputVars, clockVars, outVars
<1>5. ASSUME MixOnce PROVE MixerInv'
  <2>1. Silence \in [1..MixSize -> SUBSET Sample]
    BY DEF Silence
  <2>2. left - 1 \in 0..BufferFrames /\ mixCnt + 1 \in Nat
    BY <1>0, <1>5, Sizes DEF MixOnce, MixerTypeOK
  <2> QED BY <1>0, <1>5, <2>1, <2>2
          DEF MixOnce, reset, MixerInv, MixerTypeOK, MixPlace, inputVars, clockVars, outVars
<1> QED BY <1>1, <1>2, <1>3, <1>4, <1>5 DEF MixUpdate

\* The input that mixInputs is at.
LEMMA AtInput ==
  ASSUME MixerInv, next <= Len(inputs)
  PROVE  /\ inputs[next] \in created /\ inputs[next] \in Inputs
         /\ next + 1 \in 1..Len(inputs)+1
<1>1. Len(inputs) \in Nat /\ next \in 1..Len(inputs)+1 /\ inputs \in Seq(created)
      /\ created \subseteq Inputs
  BY MixerTypes
<1>2. next \in 1..Len(inputs)
  BY <1>1
<1> QED BY <1>1, <1>2, ElementOfSeq

\* What Play takes from the ring and what it leaves.
LEMMA PlayTakes ==
  ASSUME MixerInv, Play
  PROVE  LET i == inputs[next]
             b == buf[i]
             m == Least(MixSize, Len(b))
         IN  /\ i \in Inputs /\ b \in Seq(Sample) /\ Len(b) \in Nat /\ m \in Nat \ {0}
             /\ m <= Len(b) /\ m <= MixSize
             /\ oldest(b, MixSize) \in Seq(Sample) /\ Len(oldest(b, MixSize)) = m
             /\ \A j \in 1..m : oldest(b, MixSize)[j] = b[j]
             /\ without(b, MixSize) \in Seq(Sample)
             /\ Len(without(b, MixSize)) = Len(b) - m
             /\ \A j \in 1..(Len(b) - m) : without(b, MixSize)[j] = b[j + m]
             /\ buf' = [buf EXCEPT ![i] = without(b, MixSize)]
<1> DEFINE i == inputs[next]
           b == buf[i]
           m == Least(MixSize, Len(b))
<1>1. next <= Len(inputs) /\ oldest(b, MixSize) # <<>>
      /\ buf' = [buf EXCEPT ![i] = without(b, MixSize)]
  BY DEF Play
<1>2. i \in Inputs
  BY <1>1, AtInput
<1>3. b \in Seq(Sample) /\ Len(b) \in Nat /\ MixSize \in Nat
  BY <1>2, MixerTypes, Sizes
<1> HIDE DEF b
<1>4. m \in Nat /\ m <= Len(b) /\ m <= MixSize
  BY <1>3 DEF Least
<1>5. /\ oldest(b, MixSize) \in Seq(Sample) /\ Len(oldest(b, MixSize)) = m
      /\ \A j \in 1..m : oldest(b, MixSize)[j] = b[j]
  BY <1>3, OldestIs
<1>6. /\ without(b, MixSize) \in Seq(Sample) /\ Len(without(b, MixSize)) = Len(b) - m
      /\ \A j \in 1..(Len(b) - m) : without(b, MixSize)[j] = b[j + m]
  BY <1>3, WithoutIs
<1>7. m # 0
  BY <1>1, <1>5, EmptySeq
<1> QED BY <1>1, <1>2, <1>3, <1>4, <1>5, <1>6, <1>7 DEF b

\* The steps of mixInputs.
LEMMA TypeInputs ==
  ASSUME MixerInv
  PROVE  /\ ReadInput => MixerInv'
         /\ MixUnlock => MixerInv'
<1>0. MixerTypeOK /\ MixPlace
  BY DEF MixerInv
<1>1. ASSUME KeepBuffering PROVE MixerInv'
  <2>1. next + 1 \in 1..Len(inputs)+1
    BY <1>1, AtInput DEF KeepBuffering
  <2> QED BY <1>0, <1>1, <2>1 DEF KeepBuffering, MixerInv, MixerTypeOK, MixPlace,
                                  inputVars, clockVars, outVars
<1>2. ASSUME Starve PROVE MixerInv'
  <2>1. next + 1 \in 1..Len(inputs)+1 /\ inputs[next] \in created
    BY <1>2, AtInput DEF Starve
  <2>2. stats' \in [StatNames -> Int]
    <3>1. stats \in [StatNames -> Int] /\ "restarts" \in StatNames
      BY <1>0, StatInts DEF MixerTypeOK
    <3>2. stats["restarts"] + 1 \in Int
      BY <3>1
    <3> QED BY <1>2, <3>1, <3>2 DEF Starve
  <2> QED BY <1>0, <1>2, <2>1, <2>2 DEF Starve, MixerInv, MixerTypeOK, MixPlace,
                                        clockVars, outVars
<1>3. ASSUME Play PROVE MixerInv'
  <2> DEFINE i == inputs[next]
             tmp == oldest(buf[i], MixSize)
             m == Least(MixSize, Len(buf[i]))
  <2>1. /\ at = "inputs" /\ next <= Len(inputs) /\ buffering' = buffering \ {i}
        /\ mixBuf' = [j \in 1..MixSize |->
                        mixBuf[j] \cup IF j <= Len(tmp) THEN {tmp[j]} ELSE {}]
        /\ stats' = [stats EXCEPT !["mixed"] = @ + Len(tmp)] /\ next' = next + 1
        /\ UNCHANGED <<inputs, created, written, clockVars, at, left, mixCnt, outVars, stop>>
    BY <1>3 DEF Play
  <2>2. /\ i \in Inputs /\ m \in Nat /\ m <= Len(buf[i]) /\ Len(buf[i]) \in Nat
        /\ tmp \in Seq(Sample) /\ Len(tmp) = m
        /\ without(buf[i], MixSize) \in Seq(Sample)
        /\ Len(without(buf[i], MixSize)) = Len(buf[i]) - m
        /\ buf' = [buf EXCEPT ![i] = without(buf[i], MixSize)]
    BY <1>3, PlayTakes
  <2>3. next' \in 1..Len(inputs)+1
    BY <2>1, AtInput
  <2> HIDE DEF i, tmp, m
  <2>4. mixBuf' \in [1..MixSize -> SUBSET Sample]
    <3>1. \A j \in 1..MixSize : j <= Len(tmp) => tmp[j] \in Sample
      <4>1. \A j \in 1..MixSize : j <= Len(tmp) => j \in 1..Len(tmp)
        BY <2>2
      <4> QED BY <2>2, <4>1, ElementOfSeq
    <3> QED BY <1>0, <2>1, <3>1 DEF MixerTypeOK
  <2>5. stats' \in [StatNames -> Int]
    <3>1. stats \in [StatNames -> Int] /\ "mixed" \in StatNames
      BY <1>0, StatInts DEF MixerTypeOK
    <3>2. stats["mixed"] + Len(tmp) \in Int
      BY <2>2, <3>1
    <3> QED BY <2>1, <3>1, <3>2
  <2>6. buf' \in [Inputs -> Seq(Sample)] /\ \A j \in Inputs : Len(buf'[j]) <= BufferSize
    <3>1. buf \in [Inputs -> Seq(Sample)] /\ \A j \in Inputs : Len(buf[j]) <= BufferSize
      BY <1>0 DEF MixerTypeOK
    <3>2. buf' \in [Inputs -> Seq(Sample)] /\ \A j \in Inputs :
            buf'[j] = IF j = i THEN without(buf[i], MixSize) ELSE buf[j]
      BY <2>2, <3>1
    <3>3. Len(without(buf[i], MixSize)) <= BufferSize
      BY <2>2, <3>1, Sizes
    <3> QED BY <3>1, <3>2, <3>3
  <2> QED BY <1>0, <2>1, <2>3, <2>4, <2>5, <2>6
          DEF MixerInv, MixerTypeOK, MixPlace, clockVars, outVars
<1>4. ASSUME MixUnlock PROVE MixerInv'
  <2>1. 1 \in 1..Len(inputs)+1
    BY MixerTypes
  <2> QED BY <1>0, <1>4, <2>1 DEF MixUnlock, MixerInv, MixerTypeOK, MixPlace,
                                  inputVars, clockVars, outVars
<1> QED BY <1>1, <1>2, <1>3, <1>4 DEF ReadInput

\* The frames on their way to the sink, the two exits and Stop.
LEMMA TypeOutput ==
  ASSUME MixerInv
  PROVE  /\ WriteDirect => MixerInv'
         /\ Send => MixerInv'
         /\ WriterTake => MixerInv'
         /\ MixerExit \/ WriterExit \/ Returns \/ StopCall \/ StopLock => MixerInv'
<1>0. MixerTypeOK /\ MixPlace
  BY DEF MixerInv
<1>1. ASSUME WriteDirect PROVE MixerInv'
  <2>1. give(mixBuf)
    BY <1>1 DEF WriteDirect
  <2>2. heard' \in [Inputs -> 0..MaxSamples] /\ out' = mixBuf
    BY <1>0, <2>1, HeardIs DEF MixerTypeOK, give
  <2> QED BY <1>0, <1>1, <2>2 DEF WriteDirect, MixerInv, MixerTypeOK, MixPlace,
                                  inputVars, clockVars
<1>2. ASSUME Send PROVE MixerInv'
  <2>1. /\ outchan \in Seq([1..MixSize -> SUBSET Sample]) /\ Len(outchan) < ChanSize
        /\ mixBuf \in [1..MixSize -> SUBSET Sample] /\ outchan' = Append(outchan, mixBuf)
    BY <1>0, <1>2 DEF Send, MixerTypeOK
  <2>2. /\ outchan' \in Seq([1..MixSize -> SUBSET Sample])
        /\ Len(outchan') = Len(outchan) + 1
    BY <2>1, AppendProperties
  <2>3. Len(outchan') <= ChanSize
    BY <2>1, <2>2, LenProperties, Sizes
  <2> QED BY <1>0, <1>2, <2>2, <2>3 DEF Send, MixerInv, MixerTypeOK, MixPlace,
                                        inputVars, clockVars
<1>3. ASSUME WriterTake PROVE MixerInv'
  <2>1. /\ outchan \in Seq([1..MixSize -> SUBSET Sample]) /\ outchan # <<>>
        /\ outchan' = Tail(outchan) /\ give(outchan[1]) /\ Len(outchan) <= ChanSize
    BY <1>0, <1>3 DEF WriterTake, MixerTypeOK
  <2>2. /\ outchan' \in Seq([1..MixSize -> SUBSET Sample])
        /\ Len(outchan') = Len(outchan) - 1 /\ Len(outchan) \in Nat
        /\ Head(outchan) \in [1..MixSize -> SUBSET Sample] /\ outchan[1] = Head(outchan)
    BY <2>1, HeadTailProperties, LenProperties
  <2>3. Len(outchan') <= ChanSize
    BY <2>1, <2>2, Sizes
  <2>4. heard' \in [Inputs -> 0..MaxSamples] /\ out' \in [1..MixSize -> SUBSET Sample]
    BY <1>0, <2>1, <2>2, HeardIs DEF MixerTypeOK, give
  <2> QED BY <1>0, <1>3, <2>2, <2>3, <2>4
          DEF WriterTake, MixerInv, MixerTypeOK, MixPlace, inputVars, clockVars, mixVars
<1>4. ASSUME MixerExit \/ WriterExit \/ Returns \/ StopCall \/ StopLock PROVE MixerInv'
  BY <1>0, <1>4 DEF MixerExit, WriterExit, Returns, WriteReturns, WriterReturns,
                    StopCall, StopLock, MixerInv, MixerTypeOK, MixPlace,
                    inputVars, clockVars, mixVars, outVars
<1> QED BY <1>1, <1>2, <1>3, <1>4

LEMMA MixerSteps == MixerInv /\ [Next]_vars => MixerInv'
<1>1. ASSUME MixerInv, Next PROVE MixerInv'
  BY <1>1, TypeCalls, TypeUpdate, TypeInputs, TypeOutput DEF Next, Mix
<1>2. ASSUME MixerInv, UNCHANGED vars PROVE MixerInv'
  BY <1>2 DEF vars, inputVars, clockVars, mixVars, outVars, MixerInv, MixerTypeOK, MixPlace
<1> QED BY <1>1, <1>2

LEMMA MixerInvariant == Spec => []MixerInv
BY MixerStarts, MixerSteps, PTL DEF Spec

\* Every variable of the mixer keeps its type, through every interleaving of
\* the ticker, the producers, the writer and Stop: in particular no ring and no
\* burst of mixes is larger than inputBufferFrames.
THEOREM MixerTypeCorrect == Spec => []MixerTypeOK
<1>1. MixerInv => MixerTypeOK
  BY DEF MixerInv
<1> QED BY <1>1, MixerInvariant, PTL

----------------------------------------------------------------------------
(* The timeline of mixUpdate.                                              *)

LEMMA TimeStarts == Init => TimeInv
<1> SUFFICES ASSUME Init PROVE TimeInv
  OBVIOUS
<1>1. planned = 0 /\ left = 0 /\ stats["resets"] = 0
  BY DEF Init, planned, StatNames
<1> QED BY <1>1 DEF Init, TimeInv

\* Steps that leave the timeline alone.
LEMMA TimeStays ==
  ASSUME MixerInv, TimeInv,
         UNCHANGED <<lastMixEndTs, firstMix>>, stats'["resets"] = stats["resets"],
         now' \in Nat, now' >= now, planned' = planned,
         at' \in {"select", "exit"} => left' = 0
  PROVE  TimeInv'
<1>1. now \in Nat /\ now' \in Nat /\ now <= now' /\ fuzz \in Nat /\ fuzz' = fuzz
      /\ lastMixEndTs \in Nat \cup {None} /\ firstMix \in Nat \cup {None}
  BY Sizes DEF MixerInv, MixerTypeOK, fuzz
<1>2. firstMix # None => lastMixEndTs \in Nat /\ firstMix \in Nat
  BY <1>1 DEF TimeInv
<1>3. firstMix # None => lastMixEndTs <= now' + fuzz /\ firstMix <= now'
  <2> SUFFICES ASSUME firstMix # None
               PROVE  lastMixEndTs <= now' + fuzz /\ firstMix <= now'
    OBVIOUS
  <2>1. lastMixEndTs <= now + fuzz /\ firstMix <= now
    BY DEF TimeInv
  <2>2. PICK t \in Nat : t = now'
    BY <1>1
  <2>3. lastMixEndTs <= t + fuzz /\ firstMix <= t
    <3>1. t >= now
      BY <1>1, <2>2
    <3> QED BY <1>1, <1>2, <2>1, <3>1
  <2> QED BY <2>2, <2>3
<1> QED BY <1>1, <1>3 DEF TimeInv

\* Multiplication over sums, for the provers.
LEMMA Times ==
  ASSUME NEW a \in Int, NEW b \in Int, NEW d \in Int
  PROVE  (a + b) * d = a * d + b * d /\ a * d \in Int /\ 1 * d = d /\ 0 * d = 0
OBVIOUS

LEMMA TimesMonotone ==
  ASSUME NEW a \in Int, NEW b \in Int, NEW d \in Nat, a <= b
  PROVE  a * d <= b * d
OBVIOUS

LEMMA TimeFirst ==
  ASSUME MixerInv, TimeInv, FirstMix
  PROVE  TimeInv' /\ planned' * TickerDur = (lastMixEndTs' - firstMix') + TickerDur
         /\ lastMixEndTs' = now /\ firstMix' = now
<1>1. /\ at' = "mix" /\ left' = 1 /\ lastMixEndTs' = now /\ firstMix' = now
      /\ lastMixEndTs = None /\ left = 0 /\ UNCHANGED <<now, mixCnt, stats>>
  BY DEF FirstMix, TimeInv, inputVars
<1>2. mixCnt = 0 /\ stats["resets"] >= 0 /\ now \in Nat /\ fuzz \in Nat
      /\ TickerDur \in Nat /\ fuzz' = fuzz
  <2>1. planned = 0 /\ stats["resets"] >= 0
    BY <1>1 DEF TimeInv
  <2>2. mixCnt \in Nat /\ now \in Nat
    BY DEF MixerInv, MixerTypeOK
  <2> QED BY <1>1, <2>1, <2>2, Sizes DEF planned, fuzz
<1>3. planned' = 1
  BY <1>1, <1>2 DEF planned
<1>4. planned' * TickerDur = TickerDur /\ (now - now) + TickerDur = TickerDur
  BY <1>2, <1>3
<1>5. firstMix' # None /\ lastMixEndTs' # None
  BY <1>1, <1>2 DEF None
<1>6. now <= now + fuzz
  BY <1>2
<1>7. planned' * TickerDur = (lastMixEndTs' - firstMix') + TickerDur
  BY <1>1, <1>4
<1>8. planned' * TickerDur <= (lastMixEndTs' - firstMix') + TickerDur
  BY <1>1, <1>2, <1>4
<1> QED BY <1>1, <1>2, <1>5, <1>6, <1>7, <1>8 DEF TimeInv

LEMMA TimeTimed ==
  ASSUME MixerInv, TimeInv, TimedMix
  PROVE  /\ TimeInv' /\ firstMix' \in Nat /\ lastMixEndTs' \in Nat
         /\ lastMixEndTs' + TickerDur > now + fuzz
<1> DEFINE P == planned * TickerDur
<1>1. /\ at = "select" /\ at' = "mix" /\ left' = burst /\ lastMixEndTs # None
      /\ left = 0 /\ firstMix # None /\ UNCHANGED <<now, mixCnt, firstMix>>
  BY DEF TimedMix, TimeInv
<1>2. /\ now \in Nat /\ mixCnt \in Nat /\ firstMix \in Nat /\ fuzz \in Nat /\ fuzz < TickerDur
      /\ TickerDur \in Nat \ {0} /\ BufferFrames \in Nat \ {0}
      /\ fuzz' = fuzz /\ stats["resets"] \in Int
  BY <1>1, Sizes, StatInts DEF MixerInv, MixerTypeOK, fuzz
<1>3. /\ periods \in Nat /\ burst \in 0..BufferFrames /\ lastMixEndTs \in Nat
      /\ periods * TickerDur \in Nat
      /\ lastMixEndTs <= now + fuzz =>
           /\ lastMixEndTs + periods * TickerDur <= now + fuzz
           /\ lastMixEndTs + (periods + 1) * TickerDur > now + fuzz
  BY <1>1, PeriodsAre DEF MixerInv
<1>4. /\ lastMixEndTs <= now + fuzz /\ firstMix <= now
      /\ P <= (lastMixEndTs - firstMix) + TickerDur
      /\ (stats["resets"] = 0 => P = (lastMixEndTs - firstMix) + TickerDur)
      /\ stats["resets"] >= 0
  BY <1>1 DEF TimeInv
<1>5. planned = mixCnt /\ planned' = mixCnt + burst /\ planned \in Nat
  BY <1>1, <1>2 DEF planned
<1>6. planned' * TickerDur = P + burst * TickerDur /\ P \in Int
      /\ burst * TickerDur \in Int
  BY <1>2, <1>3, <1>5, Times
<1>7. (periods + 1) * TickerDur = periods * TickerDur + TickerDur
  BY <1>2, <1>3, Times
<1> DEFINE Q == periods * TickerDur
<1> HIDE DEF P, Q
<1>8. Q \in Nat /\ lastMixEndTs + Q <= now + fuzz /\ lastMixEndTs + (Q + TickerDur) > now + fuzz
  BY <1>3, <1>4, <1>7 DEF Q
<1>9. CASE periods <= BufferFrames
  <2>1. lastMixEndTs' = lastMixEndTs + Q /\ stats' = stats
    BY <1>2, <1>3, <1>9 DEF TimedMix, mixUntil, Q
  <2>2. burst * TickerDur = Q
    BY <1>3, <1>9 DEF burst, Least, Q
  <2>3. planned' * TickerDur = P + Q
    BY <1>6, <2>2
  <2>4. /\ lastMixEndTs' \in Nat /\ lastMixEndTs' <= now + fuzz
        /\ lastMixEndTs' + TickerDur > now + fuzz
        /\ P + Q <= (lastMixEndTs' - firstMix) + TickerDur
        /\ stats["resets"] = 0 => P + Q = (lastMixEndTs' - firstMix) + TickerDur
    BY <1>2, <1>3, <1>4, <1>6, <1>8, <2>1
  <2>5. lastMixEndTs' # None /\ firstMix' # None
    BY <1>1, <2>4 DEF None
  <2> QED BY <1>1, <1>2, <1>4, <2>1, <2>3, <2>4, <2>5 DEF TimeInv
<1>10. CASE ~(periods <= BufferFrames)
  <2>1. lastMixEndTs' = now /\ stats' = [stats EXCEPT !["resets"] = @ + BufferFrames]
    BY <1>2, <1>3, <1>10 DEF TimedMix
  <2>2. stats'["resets"] = stats["resets"] + BufferFrames
    BY <2>1 DEF MixerInv, MixerTypeOK, StatNames
  <2>3. stats'["resets"] > 0 /\ stats'["resets"] \in Int
    BY <1>2, <1>4, <2>2
  <2>4. burst = BufferFrames
    BY <1>10 DEF burst, Least
  <2>5. burst * TickerDur + TickerDur <= Q
    <3>1. (burst + 1) * TickerDur <= periods * TickerDur
      <4>1. burst + 1 \in Int /\ periods \in Int /\ burst + 1 <= periods /\ TickerDur \in Nat
        BY <1>2, <1>3, <1>10, <2>4
      <4> QED BY <4>1, TimesMonotone
    <3>2. (burst + 1) * TickerDur = burst * TickerDur + TickerDur
      BY <1>2, <1>3, Times
    <3> QED BY <3>1, <3>2 DEF Q
  <2> DEFINE R == burst * TickerDur
  <2>6. R \in Int /\ R + TickerDur <= Q /\ planned' * TickerDur = P + R
    BY <1>6, <2>5
  <2> HIDE DEF R
  <2>7. P + R <= (now - firstMix) + TickerDur
    BY <1>2, <1>3, <1>4, <1>6, <1>8, <2>6
  <2>8. lastMixEndTs' # None /\ firstMix' # None /\ now <= now + fuzz
        /\ now + TickerDur > now + fuzz
    BY <1>1, <1>2, <2>1 DEF None
  <2> QED BY <1>1, <1>2, <1>4, <2>1, <2>3, <2>6, <2>7, <2>8 DEF TimeInv
<1> QED BY <1>9, <1>10

\* Steps that leave the clock and the plan alone, and count no reset.
LEMMA TimeAside ==
  ASSUME MixerInv, TimeInv, UNCHANGED <<lastMixEndTs, firstMix, now, left, mixCnt>>,
         stats'["resets"] = stats["resets"],
         at' = at \/ left = 0 \/ at' \notin {"select", "exit"}
  PROVE  TimeInv'
<1>1. now \in Nat /\ now' = now /\ now >= now
  BY DEF MixerInv, MixerTypeOK
<1>2. planned' = planned
  BY DEF planned
<1>3. at' \in {"select", "exit"} => left' = 0
  BY DEF TimeInv
<1> QED BY <1>1, <1>2, <1>3, TimeStays

LEMMA TimeSteps ==
  ASSUME MixerInv, TimeInv, [Next]_vars
  PROVE  TimeInv'
<1>0. /\ stats \in [StatNames -> Int] /\ now \in Nat /\ left \in Nat /\ mixCnt \in Nat
      /\ "resets" \in StatNames
  BY Sizes, StatInts DEF MixerInv, MixerTypeOK
<1>1. ASSUME NEW i \in Inputs, NewInput(i) \/ RemoveInput(i) PROVE TimeInv'
  <2>1. stats'["resets"] = stats["resets"]
    BY <1>0, <1>1 DEF NewInput, RemoveInput
  <2> QED BY <1>1, <2>1, TimeAside DEF NewInput, RemoveInput, clockVars, mixVars
<1>2. ASSUME NEW i \in Inputs, NEW n \in WriteSizes, WriteSample(i, n) PROVE TimeInv'
  <2>1. stats'["resets"] = stats["resets"]
    BY <1>0, <1>2 DEF WriteSample
  <2> QED BY <1>2, <2>1, TimeAside DEF WriteSample, clockVars, mixVars
<1>3. ASSUME Clock PROVE TimeInv'
  <2>1. /\ now' = now + 1
        /\ UNCHANGED <<stats, lastMixEndTs, firstMix, left, mixCnt, at>>
    BY <1>3 DEF Clock, inputVars, mixVars
  <2>2. now' \in Nat /\ now' >= now /\ planned' = planned
    BY <1>0, <2>1 DEF planned
  <2>3. at' \in {"select", "exit"} => left' = 0
    BY <2>1 DEF TimeInv
  <2> QED BY <2>1, <2>2, <2>3, TimeStays
<1>4. ASSUME MixUpdate PROVE TimeInv'
  <2>1. CASE UpdateDone
    BY <2>1, TimeAside DEF UpdateDone, inputVars, clockVars
  <2> QED BY <1>4, <2>1, TimeFirst, TimeTimed DEF MixUpdate
<1>5. ASSUME MixOnce PROVE TimeInv'
  <2>1. /\ left' = left - 1 /\ mixCnt' = mixCnt + 1 /\ at' = "inputs" /\ left > 0
        /\ UNCHANGED <<stats, lastMixEndTs, firstMix, now>>
    BY <1>5 DEF MixOnce, inputVars, clockVars
  <2>2. planned' = planned /\ now' \in Nat /\ now' >= now
    BY <1>0, <2>1 DEF planned
  <2> QED BY <2>1, <2>2, TimeStays
<1>6. ASSUME ReadInput PROVE TimeInv'
  <2>1. /\ UNCHANGED <<lastMixEndTs, firstMix, now, left, mixCnt, at>>
    BY <1>6 DEF ReadInput, KeepBuffering, Starve, Play, clockVars
  <2>2. stats'["resets"] = stats["resets"]
    BY <1>0, <1>6 DEF ReadInput, KeepBuffering, Starve, Play, inputVars
  <2> QED BY <2>1, <2>2, TimeAside
<1>7. ASSUME MixUnlock \/ WriteDirect \/ Send \/ WriterTake \/ WriterExit \/ Returns
             \/ StopCall \/ StopLock
      PROVE  TimeInv'
  <2>1. /\ UNCHANGED <<lastMixEndTs, firstMix, now, left, mixCnt, stats>>
        /\ at' = at \/ at' \notin {"select", "exit"}
    BY <1>7 DEF MixUnlock, WriteDirect, Send, WriterTake, WriterExit, Returns,
                WriteReturns, WriterReturns, StopCall, StopLock, inputVars, clockVars, mixVars
  <2> QED BY <2>1, TimeAside
<1>8. ASSUME MixerExit PROVE TimeInv'
  <2>1. left = 0 /\ UNCHANGED <<lastMixEndTs, firstMix, now, left, mixCnt, stats>>
    BY <1>8 DEF MixerExit, TimeInv, inputVars, clockVars
  <2> QED BY <2>1, TimeAside
<1>9. ASSUME UNCHANGED vars PROVE TimeInv'
  BY <1>9, TimeAside DEF vars, inputVars, clockVars, mixVars
<1> QED BY <1>1, <1>2, <1>3, <1>4, <1>5, <1>6, <1>7, <1>8, <1>9 DEF Next, Mix

LEMMA TimeInvariant == Spec => []TimeInv
<1>1. MixerInv /\ TimeInv /\ [Next]_vars => TimeInv'
  BY TimeSteps
<1> QED BY <1>1, TimeStarts, MixerInvariant, PTL DEF Spec

\* mixUpdate never mixes ahead of real time by more than the frame in hand and
\* the fuzz, however long the goroutine is held up and however often.
THEOREM InRealTimeHolds == Spec => []InRealTime
<1>1. MixerInv /\ TimeInv => InRealTime
  <2> SUFFICES ASSUME MixerInv, TimeInv, firstMix # None
               PROVE  planned * TickerDur <= now - firstMix + TickerDur + fuzz
    BY DEF InRealTime
  <2> DEFINE P == planned * TickerDur
  <2>1. /\ lastMixEndTs <= now + fuzz
        /\ P <= (lastMixEndTs - firstMix) + TickerDur
    BY DEF TimeInv
  <2>2. /\ now \in Nat /\ firstMix \in Nat /\ lastMixEndTs \in Nat /\ planned \in Nat
        /\ TickerDur \in Nat /\ fuzz \in Nat
    BY Sizes DEF MixerInv, MixerTypeOK, TimeInv, planned
  <2>3. P \in Int
    BY <2>2
  <2> HIDE DEF P
  <2>4. P <= now - firstMix + TickerDur + fuzz
    BY <2>1, <2>2, <2>3
  <2> QED BY <2>4 DEF P
<1> QED BY <1>1, MixerInvariant, TimeInvariant, PTL

\* When mixUpdate has planned its mixes it is behind real time by less than a
\* period, as long as it has not given up on a burst longer than the buffers.
THEOREM KeepsUpHolds == Spec => KeepsUp
<1>1. ASSUME MixerInv, TimeInv, MixerInv', TimeInv', [Next]_vars
      PROVE  [at = "select" /\ at' = "mix" /\ stats'["resets"] = 0 =>
                planned' * TickerDur > now - firstMix' + fuzz]_vars
  <2> SUFFICES ASSUME at = "select", at' = "mix", stats'["resets"] = 0
               PROVE  planned' * TickerDur > now - firstMix' + fuzz
    OBVIOUS
  <2>1. FirstMix \/ TimedMix
    <3>1. UNCHANGED vars => at' = at
      BY DEF vars, mixVars
    <3>2. MixUpdate
      BY <1>1, <3>1 DEF Next, NewInput, RemoveInput, WriteSample, Clock, Mix, MixOnce,
           ReadInput, KeepBuffering, Starve, Play, MixUnlock, WriteDirect, Send,
           MixerExit, WriterTake, WriterExit, Returns, WriteReturns, WriterReturns,
           StopCall, StopLock, mixVars
    <3> QED BY <3>2 DEF MixUpdate, UpdateDone
  <2> DEFINE P == planned' * TickerDur
             l == lastMixEndTs'
             f == firstMix'
  <2>2. /\ l \in Nat /\ f \in Nat /\ l + TickerDur > now + fuzz
        /\ P = (l - f) + TickerDur
    <3>1. now \in Nat /\ TickerDur \in Nat /\ fuzz \in Nat /\ fuzz < TickerDur
      BY <1>1, Sizes DEF MixerInv, MixerTypeOK
    <3>2. CASE FirstMix
      <4>1. P = (l - f) + TickerDur /\ l = now /\ f = now
        BY <1>1, <3>2, TimeFirst
      <4> QED BY <3>1, <4>1
    <3>3. CASE TimedMix
      <4>1. f \in Nat /\ l \in Nat /\ l + TickerDur > now + fuzz
        BY <1>1, <3>3, TimeTimed
      <4>2. f # None
        BY <4>1 DEF None
      <4> QED BY <1>1, <4>1, <4>2 DEF TimeInv
    <3> QED BY <2>1, <3>2, <3>3
  <2>3. now \in Nat /\ TickerDur \in Nat /\ fuzz \in Nat
    BY <1>1, Sizes DEF MixerInv, MixerTypeOK
  <2> HIDE DEF P, l, f
  <2>4. P > now - f + fuzz
    BY <2>2, <2>3
  <2> QED BY <2>4 DEF P, f
<1> QED BY <1>1, MixerInvariant, TimeInvariant, PTL DEF Spec, KeepsUp

----------------------------------------------------------------------------
(* The samples.                                                            *)

\* The places a+1 to b of the ring of input i.
places(i, a, b) == {i} \X ((a + 1)..b)

LEMMA PlacesCount ==
  ASSUME NEW i, NEW a \in Nat, NEW b \in Nat, a <= b
  PROVE  IsFiniteSet(places(i, a, b)) /\ Cardinality(places(i, a, b)) = b - a
<1>1. IsFiniteSet({i}) /\ Cardinality({i}) = 1
  BY FS_Singleton
<1>2. a + 1 \in Int /\ b \in Int
  OBVIOUS
<1>3. IsFiniteSet((a + 1)..b) /\ Cardinality((a + 1)..b) = b - a
  <2>1. /\ IsFiniteSet((a + 1)..b)
        /\ Cardinality((a + 1)..b) = IF a + 1 > b THEN 0 ELSE b - (a + 1) + 1
    BY <1>2, FS_Interval
  <2> QED BY <2>1
<1>4. /\ IsFiniteSet({i} \X ((a + 1)..b))
      /\ Cardinality({i} \X ((a + 1)..b)) = Cardinality({i}) * Cardinality((a + 1)..b)
  BY <1>1, <1>3, FS_Product
<1> QED BY <1>1, <1>3, <1>4 DEF places

\* A set of places, and a set that has those of one input in addition.
LEMMA CountGrows ==
  ASSUME NEW A, NEW B, IsFiniteSet(A), NEW i, NEW a \in Nat, NEW b \in Nat, a <= b
  PROVE  /\ B = A \cup places(i, a, b) /\ A \cap places(i, a, b) = {} =>
              Cardinality(B) = Cardinality(A) + (b - a)
         /\ B \subseteq A \cup places(i, a, b) =>
              Cardinality(B) <= Cardinality(A) + (b - a)
         /\ Cardinality(A) \in Nat
<1> DEFINE N == places(i, a, b)
<1>1. IsFiniteSet(N) /\ Cardinality(N) = b - a
  BY PlacesCount
<1> HIDE DEF N
<1>2. /\ IsFiniteSet(A \cup N)
      /\ Cardinality(A \cup N) = Cardinality(A) + Cardinality(N) - Cardinality(A \cap N)
  BY <1>1, FS_Union
<1>3. Cardinality(A) \in Nat /\ Cardinality(A \cup N) \in Nat
  BY <1>2, FS_CardinalityType
<1>4. Cardinality(A \cap N) \in Nat
  <2>1. A \cap N \in SUBSET A
    OBVIOUS
  <2>2. IsFiniteSet(A \cap N)
    BY <2>1, FS_Subset
  <2> QED BY <2>2, FS_CardinalityType
<1>5. ASSUME A \cap N = {} PROVE Cardinality(A \cup N) = Cardinality(A) + (b - a)
  <2>1. Cardinality(A \cap N) = 0
    BY <1>5, FS_EmptySet
  <2> QED BY <1>1, <1>2, <1>3, <2>1
<1>6. Cardinality(A \cup N) <= Cardinality(A) + (b - a)
  BY <1>1, <1>2, <1>3, <1>4
<1>7. ASSUME B \subseteq A \cup N PROVE Cardinality(B) <= Cardinality(A) + (b - a)
  <2>1. IsFiniteSet(B) /\ Cardinality(B) <= Cardinality(A \cup N)
    BY <1>2, <1>7, FS_Subset
  <2>2. Cardinality(B) \in Nat
    BY <2>1, FS_CardinalityType
  <2> QED BY <1>3, <1>6, <2>1, <2>2
<1> QED BY <1>3, <1>5, <1>7 DEF N

LEMMA FinitePlaces ==
  ASSUME MixerInv
  PROVE  IsFiniteSet(buffered) /\ IsFiniteSet(owed)
<1>1. BufferSize \in Int /\ BufferMin \in Int /\ 1 \in Int
  BY Sizes
<1>2. IsFiniteSet(1..BufferSize) /\ IsFiniteSet(1..BufferMin)
  BY <1>1, FS_Interval
<1>3. IsFiniteSet(Inputs \X (1..BufferSize)) /\ IsFiniteSet(Inputs \X (1..BufferMin))
  BY <1>2, MixerAssumption, FS_Product
<1>4. buffered \in SUBSET (Inputs \X (1..BufferSize))
      /\ owed \in SUBSET (Inputs \X (1..BufferMin))
  BY DEF buffered, owed
<1> QED BY <1>3, <1>4, FS_Subset

LEMMA SampleStarts == Init => SampleInv
<1> SUFFICES ASSUME Init PROVE SampleInv
  OBVIOUS
<1>1. stats["input"] = 0 /\ stats["mixed"] = 0 /\ stats["dropped"] = 0
      /\ stats["restarts"] = 0
  BY DEF Init, StatNames
<1>2. buffered = {}
  <2>1. ASSUME NEW p \in buffered PROVE FALSE
    <3>1. p[1] \in Inputs /\ p[2] \in 1..BufferSize /\ p[2] <= Len(buf[p[1]])
      BY DEF buffered
    <3>2. buf[p[1]] = <<>> /\ Len(<<>>) = 0
      BY <3>1 DEF Init
    <3> QED BY <3>1, <3>2, Sizes
  <2> QED BY <2>1
<1>3. owed = {}
  BY DEF owed, Init
<1>4. Cardinality({}) = 0
  BY FS_EmptySet
<1>5. SamplesConserved
  BY <1>1, <1>2, <1>4 DEF SamplesConserved
<1>6. Earned
  BY <1>1, <1>3, <1>4, Sizes DEF Earned
<1> QED BY <1>5, <1>6 DEF SampleInv

\* A ring of input i grows by some samples, or shrinks: its places.
LEMMA RingGrows ==
  ASSUME MixerInv, NEW i \in Inputs, NEW b \in Seq(Sample), Len(b) <= BufferSize,
         buf' = [buf EXCEPT ![i] = b]
  PROVE  /\ Len(b) >= Len(buf[i]) =>
              Cardinality(buffered') = Cardinality(buffered) + (Len(b) - Len(buf[i]))
         /\ Len(b) <= Len(buf[i]) =>
              Cardinality(buffered) = Cardinality(buffered') + (Len(buf[i]) - Len(b))
         /\ Cardinality(buffered) \in Nat
<1> DEFINE m == Len(b)
           n == Len(buf[i])
<1>1. m \in Nat /\ n \in Nat /\ m <= BufferSize /\ n <= BufferSize /\ BufferSize \in Nat
  BY MixerTypes, LenProperties, Sizes
<1>2. \A j \in Inputs : Len(buf'[j]) = IF j = i THEN m ELSE Len(buf[j])
  BY MixerTypes
<1>3. buffered' = {p \in Inputs \X (1..BufferSize) :
                     p[2] <= IF p[1] = i THEN m ELSE Len(buf[p[1]])}
  <2>1. buffered' = {p \in Inputs \X (1..BufferSize) : p[2] <= Len(buf'[p[1]])}
    BY DEF buffered, BufferSize
  <2> QED BY <1>2, <2>1
<1>4. buffered = {p \in Inputs \X (1..BufferSize) :
                    p[2] <= IF p[1] = i THEN n ELSE Len(buf[p[1]])}
  BY DEF buffered
<1> HIDE DEF m, n
<1>5. ASSUME NEW u \in Nat, NEW v \in Nat, u <= BufferSize, v <= BufferSize, u <= v,
             NEW A, NEW B,
             A = {p \in Inputs \X (1..BufferSize) :
                    p[2] <= IF p[1] = i THEN u ELSE Len(buf[p[1]])},
             B = {p \in Inputs \X (1..BufferSize) :
                    p[2] <= IF p[1] = i THEN v ELSE Len(buf[p[1]])}
      PROVE  Cardinality(B) = Cardinality(A) + (v - u)
  <2>1. \A p : p \in places(i, u, v) <=>
                 p \in Inputs \X (1..BufferSize) /\ p[1] = i /\ u < p[2] /\ p[2] <= v
    BY <1>1, <1>5 DEF places
  <2>2. B = A \cup places(i, u, v)
    <3>1. ASSUME NEW p \in Inputs \X (1..BufferSize)
          PROVE  p \in B <=> p \in A \/ p \in places(i, u, v)
      <4>1. CASE p[1] = i
        BY <1>1, <1>5, <2>1, <4>1
      <4>2. CASE p[1] # i
        BY <1>5, <2>1, <4>2
      <4> QED BY <4>1, <4>2
    <3>2. \A p : p \in B \/ p \in A \/ p \in places(i, u, v) =>
                   p \in Inputs \X (1..BufferSize)
      BY <1>5, <2>1
    <3> QED BY <3>1, <3>2
  <2>3. A \cap places(i, u, v) = {}
    BY <1>5, <2>1
  <2>4. IsFiniteSet(A)
    <3>1. IsFiniteSet(1..BufferSize)
      BY <1>1, FS_Interval
    <3>2. IsFiniteSet(Inputs \X (1..BufferSize))
      BY <3>1, MixerAssumption, FS_Product
    <3>3. A \in SUBSET (Inputs \X (1..BufferSize))
      BY <1>5
    <3> QED BY <3>2, <3>3, FS_Subset
  <2> QED BY <1>5, <2>2, <2>3, <2>4, CountGrows
<1>6. m >= n => Cardinality(buffered') = Cardinality(buffered) + (m - n)
  BY <1>1, <1>3, <1>4, <1>5
<1>7. m <= n => Cardinality(buffered) = Cardinality(buffered') + (n - m)
  BY <1>1, <1>3, <1>4, <1>5
<1>8. Cardinality(buffered) \in Nat
  BY FinitePlaces, FS_CardinalityType
<1> QED BY <1>6, <1>7, <1>8 DEF m, n

\* Steps that touch neither the rings nor the counters of the samples.
LEMMA SamplesStay ==
  ASSUME MixerInv, SampleInv, buf' = buf, buffered' = buffered, owed' = owed,
         \A s \in {"input", "mixed", "dropped", "restarts"} : stats'[s] = stats[s]
  PROVE  SampleInv'
<1>1. BufferMin' = BufferMin
  BY DEF BufferMin
<1> QED BY <1>1 DEF SampleInv, SamplesConserved, Earned

LEMMA SampleInts ==
  ASSUME MixerInv
  PROVE  /\ stats["input"] \in Int /\ stats["mixed"] \in Int /\ stats["dropped"] \in Int
         /\ stats["restarts"] \in Int /\ stats["restarts"] * BufferMin \in Int
         /\ Cardinality(owed) \in Nat /\ Cardinality(buffered) \in Nat
<1>1. /\ stats["input"] \in Int /\ stats["mixed"] \in Int /\ stats["dropped"] \in Int
      /\ stats["restarts"] \in Int
  BY StatInts DEF MixerInv, MixerTypeOK
<1>2. stats["restarts"] * BufferMin \in Int
  BY <1>1, Sizes
<1>3. Cardinality(owed) \in Nat /\ Cardinality(buffered) \in Nat
  BY FinitePlaces, FS_CardinalityType
<1> QED BY <1>1, <1>2, <1>3

LEMMA SampleWritten ==
  ASSUME MixerInv, SampleInv, NEW i \in Inputs, NEW n \in WriteSizes, WriteSample(i, n)
  PROVE  SampleInv'
<1> DEFINE p == [k \in 1..n |-> <<i, written[i] + k>>]
           b == newest(buf[i] \o p, BufferSize)
           l == Len(buf[i])
           d == discarded(buf[i], n)
<1>1. /\ written[i] + n <= MaxSamples
      /\ stats' = [stats EXCEPT !["input"] = @ + n, !["dropped"] = @ + d]
      /\ buf' = [buf EXCEPT ![i] = b]
      /\ UNCHANGED <<buffering, created>>
  BY DEF WriteSample
<1>2. /\ n \in Nat /\ written[i] \in Nat /\ BufferSize \in Nat /\ MaxSamples \in Nat
      /\ l \in Nat /\ l <= BufferSize /\ buf[i] \in Seq(Sample)
  BY MixerTypes, Sizes, MixerAssumption
<1>3. p \in Seq(Sample) /\ Len(p) = n
  <2>1. \A k \in 1..n : <<i, written[i] + k>> \in Sample
    BY <1>1, <1>2 DEF Sample
  <2>2. p \in [1..n -> Sample]
    BY <2>1
  <2> QED BY <1>2, <2>2, SeqDef, LenProperties
<1> HIDE DEF p
<1>4. b \in Seq(Sample) /\ Len(b) = Least(BufferSize, l + n)
  <2>1. buf[i] \o p \in Seq(Sample) /\ Len(buf[i] \o p) = l + n
    BY <1>2, <1>3, ConcatProperties
  <2>2. b \in Seq(Sample) /\ Len(b) = Least(BufferSize, Len(buf[i] \o p))
    BY <1>2, <2>1, NewestIs
  <2> QED BY <2>1, <2>2
<1> HIDE DEF b
<1>5. /\ Len(b) \in Nat /\ Len(b) <= BufferSize /\ Len(b) >= l /\ d \in Nat
      /\ Len(b) + d = l + n
  <2>1. d = IF (l + n) - BufferSize > 0 THEN (l + n) - BufferSize ELSE 0
    BY <1>2 DEF discarded
  <2> HIDE DEF d, l
  <2> QED BY <1>2, <1>4, <2>1 DEF Least
<1>6. Cardinality(buffered') = Cardinality(buffered) + (Len(b) - l)
  BY <1>1, <1>4, <1>5, RingGrows
<1>7. /\ stats'["input"] = stats["input"] + n /\ stats'["dropped"] = stats["dropped"] + d
      /\ stats'["mixed"] = stats["mixed"] /\ stats'["restarts"] = stats["restarts"]
  BY <1>1 DEF MixerInv, MixerTypeOK, StatNames
<1> HIDE DEF d, l
<1>8. SamplesConserved'
  <2>1. stats["input"] = stats["mixed"] + stats["dropped"] + Cardinality(buffered)
    BY DEF SampleInv, SamplesConserved
  <2>2. Len(b) - l = n - d
    BY <1>2, <1>5
  <2>3. /\ stats["input"] \in Int /\ stats["mixed"] \in Int /\ stats["dropped"] \in Int
        /\ Cardinality(buffered) \in Nat
    BY SampleInts
  <2>4. stats["input"] + n =
          stats["mixed"] + (stats["dropped"] + d) + (Cardinality(buffered) + (n - d))
    <3>1. PICK x \in Int, y \in Int, z \in Int, c \in Int :
            /\ x = stats["input"] /\ y = stats["mixed"] /\ z = stats["dropped"]
            /\ c = Cardinality(buffered)
      BY <2>3
    <3>2. n \in Int /\ d \in Int /\ x = y + z + c
      BY <1>2, <1>5, <2>1, <3>1
    <3>3. x + n = y + (z + d) + (c + (n - d))
      BY <3>2
    <3> QED BY <3>1, <3>3
  <2> QED BY <1>6, <1>7, <2>2, <2>4 DEF SamplesConserved
<1>9. Earned'
  <2>1. owed' \subseteq owed
    <3>1. \A j \in Inputs : Len(buf'[j]) >= Len(buf[j]) /\ Len(buf[j]) \in Nat
                            /\ Len(buf'[j]) \in Nat
      <4>1. \A j \in Inputs : Len(buf[j]) \in Nat /\ buf'[j] = IF j = i THEN b ELSE buf[j]
        BY <1>1, MixerTypes
      <4> QED BY <1>5, <4>1 DEF l
    <3>2. ASSUME NEW q \in owed' PROVE q \in owed
      <4>1. /\ q \in Inputs \X (1..BufferMin) /\ q[1] \in created \ buffering
            /\ q[2] > Len(buf'[q[1]]) /\ q[1] \in Inputs /\ q[2] \in Int
        BY <1>1, <3>2, Sizes DEF owed, BufferMin
      <4>2. q[2] > Len(buf[q[1]])
        BY <3>1, <4>1
      <4> QED BY <4>1, <4>2 DEF owed
    <3> QED BY <3>2
  <2>2. IsFiniteSet(owed) /\ owed' \in SUBSET owed
    BY <2>1, FinitePlaces
  <2>3. IsFiniteSet(owed') /\ Cardinality(owed') <= Cardinality(owed)
    BY <2>2, FS_Subset
  <2>4. Cardinality(owed') \in Nat /\ BufferMin' = BufferMin
    BY <2>3, FS_CardinalityType DEF BufferMin
  <2>5. stats["restarts"] * BufferMin + Cardinality(owed) <= stats["mixed"]
    BY DEF SampleInv, Earned
  <2>6. stats["restarts"] * BufferMin + Cardinality(owed') <= stats["mixed"]
    BY <2>3, <2>4, <2>5, SampleInts
  <2> QED BY <1>7, <2>4, <2>6 DEF Earned
<1> QED BY <1>8, <1>9 DEF SampleInv

LEMMA SamplePlayed ==
  ASSUME MixerInv, SampleInv, Play
  PROVE  SampleInv'
<1> DEFINE i == inputs[next]
           b == without(buf[i], MixSize)
           l == Len(buf[i])
           m == Least(MixSize, l)
<1>1. /\ i \in Inputs /\ l \in Nat /\ m \in Nat /\ m <= l
      /\ Len(oldest(buf[i], MixSize)) = m /\ b \in Seq(Sample) /\ Len(b) = l - m
      /\ buf' = [buf EXCEPT ![i] = b]
  BY PlayTakes
<1>2. /\ i \in buffering => l >= BufferMin
      /\ buffering' = buffering \ {i} /\ created' = created
      /\ stats' = [stats EXCEPT !["mixed"] = @ + m]
  BY <1>1 DEF Play
<1>3. /\ stats'["mixed"] = stats["mixed"] + m /\ stats'["input"] = stats["input"]
      /\ stats'["dropped"] = stats["dropped"] /\ stats'["restarts"] = stats["restarts"]
  BY <1>2 DEF MixerInv, MixerTypeOK, StatNames
<1>4. \A j \in Inputs : Len(buf[j]) \in Nat /\ Len(buf'[j]) = IF j = i THEN l - m ELSE Len(buf[j])
  BY <1>1, MixerTypes
<1>5. l <= BufferSize /\ BufferSize \in Nat /\ BufferMin \in Nat
  BY <1>1, MixerTypes, Sizes
<1> HIDE DEF i, b, m
<1>6. Cardinality(buffered) = Cardinality(buffered') + (l - Len(b))
      /\ Cardinality(buffered) \in Nat
  <2>1. Len(b) <= BufferSize /\ Len(b) <= l
    BY <1>1, <1>5
  <2> QED BY <1>1, <2>1, RingGrows
<1>7. Cardinality(buffered') \in Int
  <2>1. MixerInv'
    BY TypeInputs DEF ReadInput
  <2>2. IsFiniteSet(buffered')
    <3>1. IsFiniteSet(1..BufferSize)
      BY <1>5, FS_Interval
    <3>2. IsFiniteSet(Inputs \X (1..BufferSize))
      BY <3>1, MixerAssumption, FS_Product
    <3>3. buffered' \in SUBSET (Inputs \X (1..BufferSize))
      BY DEF buffered, BufferSize
    <3> QED BY <3>2, <3>3, FS_Subset
  <2> QED BY <2>2, FS_CardinalityType
<1> HIDE DEF l
<1>8. SamplesConserved'
  <2> DEFINE a == stats["input"]
             u == stats["mixed"]
             v == stats["dropped"]
             x == Cardinality(buffered)
             y == Cardinality(buffered')
  <2>1. a \in Int /\ u \in Int /\ v \in Int /\ x \in Int /\ y \in Int /\ l \in Int /\ m \in Int
    BY <1>1, <1>6, <1>7, SampleInts
  <2>2. a = u + v + x
    BY DEF SampleInv, SamplesConserved
  <2>3. x = y + (l - (l - m))
    BY <1>1, <1>6
  <2> HIDE DEF a, u, v, x, y
  <2>4. a = (u + m) + v + y
    BY <2>1, <2>2, <2>3
  <2> QED BY <1>3, <2>4 DEF SamplesConserved, a, u, v, y
<1>9. Earned'
  <2>1. owed' \subseteq owed \cup places(i, l - m, l)
    <3> SUFFICES ASSUME NEW q \in owed', ~(q \in owed)
                 PROVE  q \in places(i, l - m, l)
      OBVIOUS
    <3>1. /\ q \in Inputs \X (1..BufferMin) /\ q[1] \in created \ (buffering \ {i})
          /\ q[2] > Len(buf'[q[1]]) /\ q[1] \in Inputs /\ q[2] \in Int /\ q[2] <= BufferMin
      BY <1>2, <1>5 DEF owed, BufferMin
    <3>2. q[1] = i
      <4>1. CASE q[1] # i
        <5>1. q[1] \in created \ buffering /\ q[2] > Len(buf[q[1]])
          BY <1>4, <3>1, <4>1
        <5> QED BY <3>1, <5>1 DEF owed
      <4> QED BY <4>1
    <3>3. q[2] > l - m
      BY <1>4, <3>1, <3>2
    <3>4. q[2] <= l
      <4>1. CASE i \in buffering
        BY <1>1, <1>2, <1>5, <3>1, <4>1
      <4>2. CASE i \notin buffering
        <5>1. ~(q[2] > l)
          BY <3>1, <3>2, <4>2 DEF owed, l
        <5> QED BY <1>1, <3>1, <5>1
      <4> QED BY <4>1, <4>2
    <3>5. q[2] \in ((l - m) + 1)..l
      BY <1>1, <3>1, <3>3, <3>4
    <3>6. q = <<q[1], q[2]>>
      BY <3>1
    <3> QED BY <3>2, <3>5, <3>6 DEF places
  <2>2. l - m \in Nat /\ l - m <= l /\ l - (l - m) = m
    BY <1>1
  <2>3. Cardinality(owed') <= Cardinality(owed) + (l - (l - m))
    BY <1>1, <2>1, <2>2, FinitePlaces, CountGrows
  <2>4. Cardinality(owed') \in Nat /\ BufferMin' = BufferMin
    <3>1. IsFiniteSet(1..BufferMin)
      BY <1>5, FS_Interval
    <3>2. IsFiniteSet(Inputs \X (1..BufferMin))
      BY <3>1, MixerAssumption, FS_Product
    <3>3. owed' \in SUBSET (Inputs \X (1..BufferMin))
      BY DEF owed, BufferMin
    <3> QED BY <3>2, <3>3, FS_Subset, FS_CardinalityType DEF BufferMin
  <2>5. stats["restarts"] * BufferMin + Cardinality(owed) <= stats["mixed"]
    BY DEF SampleInv, Earned
  <2>6. stats["restarts"] * BufferMin + Cardinality(owed') <= stats["mixed"] + m
    BY <1>1, <2>2, <2>3, <2>4, <2>5, SampleInts
  <2> QED BY <1>3, <2>4, <2>6 DEF Earned
<1> QED BY <1>8, <1>9 DEF SampleInv

LEMMA SampleStarved ==
  ASSUME MixerInv, SampleInv, Starve
  PROVE  SampleInv'
<1> DEFINE i == inputs[next]
           r == stats["restarts"] * BufferMin
<1>1. /\ i \notin buffering /\ buf[i] = <<>> /\ next <= Len(inputs)
      /\ buffering' = buffering \cup {i}
      /\ stats' = [stats EXCEPT !["restarts"] = @ + 1]
      /\ UNCHANGED <<buf, created>>
  BY DEF Starve
<1>2. i \in created /\ i \in Inputs
  BY <1>1, AtInput
<1>3. /\ stats'["mixed"] = stats["mixed"] /\ stats'["input"] = stats["input"]
      /\ stats'["dropped"] = stats["dropped"]
      /\ stats'["restarts"] = stats["restarts"] + 1
  BY <1>1 DEF MixerInv, MixerTypeOK, StatNames
<1>4. BufferMin \in Nat /\ BufferMin' = BufferMin /\ 0 \in Nat /\ 0 <= BufferMin
  BY Sizes DEF BufferMin
<1>5. SamplesConserved'
  <2>1. buffered' = buffered
    BY <1>1 DEF buffered, BufferSize
  <2> QED BY <1>3, <2>1 DEF SampleInv, SamplesConserved
<1> HIDE DEF i
<1>6. owed = owed' \cup places(i, 0, BufferMin) /\ owed' \cap places(i, 0, BufferMin) = {}
  <2>1. owed' = {q \in Inputs \X (1..BufferMin) :
                   q[1] \in created \ (buffering \cup {i}) /\ q[2] > Len(buf[q[1]])}
    BY <1>1, <1>4 DEF owed
  <2>2. \A q : q \in places(i, 0, BufferMin) <=>
                 q \in Inputs \X (1..BufferMin) /\ q[1] = i
    BY <1>2, <1>4 DEF places
  <2>3. \A q \in Inputs \X (1..BufferMin) : q[1] = i => q[2] > Len(buf[q[1]])
    <3>1. Len(buf[i]) = 0
      BY <1>1
    <3> QED BY <1>4, <3>1
  <2>4. \A q : q \in owed <=> q \in owed' \/ q \in places(i, 0, BufferMin)
    BY <1>1, <1>2, <2>1, <2>2, <2>3 DEF owed
  <2>5. \A q : ~(q \in owed' /\ q \in places(i, 0, BufferMin))
    BY <2>1, <2>2
  <2> QED BY <2>4, <2>5
<1>7. Earned'
  <2>1. owed' \in SUBSET owed
    BY <1>6
  <2>2. IsFiniteSet(owed')
    BY <2>1, FinitePlaces, FS_Subset
  <2>3. Cardinality(owed) = Cardinality(owed') + (BufferMin - 0) /\ Cardinality(owed') \in Nat
    BY <1>4, <1>6, <2>2, CountGrows
  <2>4. (stats["restarts"] + 1) * BufferMin = r + BufferMin /\ r \in Int
    BY <1>4, SampleInts, Times
  <2>5. r + Cardinality(owed) <= stats["mixed"]
    BY DEF SampleInv, Earned
  <2> HIDE DEF r
  <2>6. (r + BufferMin) + Cardinality(owed') <= stats["mixed"]
    BY <1>4, <2>3, <2>4, <2>5, SampleInts
  <2> QED BY <1>3, <1>4, <2>4, <2>6 DEF Earned
<1> QED BY <1>5, <1>7 DEF SampleInv

LEMMA SampleSteps ==
  ASSUME MixerInv, SampleInv, [Next]_vars
  PROVE  SampleInv'
<1>1. ASSUME NEW i \in Inputs, NewInput(i) PROVE SampleInv'
  <2>1. /\ created' = created \cup {i} /\ buffering' = buffering \cup {i} /\ buf' = buf
        /\ stats' = [stats EXCEPT !["tracks"] = @ + 1] /\ i \notin created
    BY <1>1 DEF NewInput
  <2>2. created' \ buffering' = created \ buffering
    BY <2>1, MixerTypes
  <2>3. buffered' = buffered /\ owed' = owed
    BY <2>1, <2>2 DEF buffered, owed, BufferSize, BufferMin
  <2>4. \A s \in {"input", "mixed", "dropped", "restarts"} : stats'[s] = stats[s]
    BY <2>1 DEF MixerInv, MixerTypeOK, StatNames
  <2> QED BY <2>1, <2>3, <2>4, SamplesStay
<1>2. ASSUME buf' = buf, buffering' = buffering, created' = created,
             \A s \in {"input", "mixed", "dropped", "restarts"} : stats'[s] = stats[s]
      PROVE  SampleInv'
  <2>1. buffered' = buffered /\ owed' = owed
    BY <1>2 DEF buffered, owed, BufferSize, BufferMin
  <2> QED BY <1>2, <2>1, SamplesStay
<1>3. ASSUME NEW i \in Inputs, RemoveInput(i) PROVE SampleInv'
  <2>1. stats' = [stats EXCEPT !["tracks"] = @ - 1] /\ UNCHANGED <<buf, buffering, created>>
    BY <1>3 DEF RemoveInput
  <2>2. \A s \in {"input", "mixed", "dropped", "restarts"} : stats'[s] = stats[s]
    BY <2>1 DEF MixerInv, MixerTypeOK, StatNames
  <2> QED BY <1>2, <2>1, <2>2
<1>4. ASSUME NEW i \in Inputs, NEW n \in WriteSizes, WriteSample(i, n) PROVE SampleInv'
  BY <1>4, SampleWritten
<1>5. ASSUME TimedMix PROVE SampleInv'
  <2>1. /\ UNCHANGED <<buf, buffering, created>>
        /\ stats' = stats \/ stats' = [stats EXCEPT !["resets"] = @ + BufferFrames]
    BY <1>5 DEF TimedMix
  <2>2. \A s \in {"input", "mixed", "dropped", "restarts"} : stats'[s] = stats[s]
    BY <2>1 DEF MixerInv, MixerTypeOK, StatNames
  <2> QED BY <1>2, <2>1, <2>2
<1>6. ASSUME \/ Clock \/ FirstMix \/ UpdateDone \/ MixOnce \/ KeepBuffering \/ MixUnlock
             \/ WriteDirect \/ Send \/ MixerExit \/ WriterTake \/ WriterExit \/ Returns
             \/ StopCall \/ StopLock \/ UNCHANGED vars
      PROVE  SampleInv'
  <2>1. UNCHANGED <<buf, buffering, created, stats>>
    BY <1>6 DEF Clock, FirstMix, UpdateDone, MixOnce, KeepBuffering, MixUnlock,
                WriteDirect, Send, MixerExit, WriterTake, WriterExit, Returns,
                WriteReturns, WriterReturns, StopCall, StopLock, vars, inputVars
  <2> QED BY <1>2, <2>1
<1> QED BY <1>1, <1>3, <1>4, <1>5, <1>6, SamplePlayed, SampleStarved
        DEF Next, Mix, MixUpdate, ReadInput

LEMMA SampleInvariant == Spec => []SampleInv
<1>1. MixerInv /\ SampleInv /\ [Next]_vars => SampleInv'
  BY SampleSteps
<1> QED BY <1>1, SampleStarts, MixerInvariant, PTL DEF Spec

\* Every sample that was ever written to an input was mixed, is counted as
\* dropped or is in the ring of the input, for any number of inputs and sizes of
\* the writes.
THEOREM SamplesConservedHolds == Spec => []SamplesConserved
<1>1. SampleInv => SamplesConserved
  BY DEF SampleInv
<1> QED BY <1>1, SampleInvariant, PTL

\* An input that starved is refilled before it is played again: Restarts is at
\* most one per inputBufferMin samples mixed, summed up over all inputs.
THEOREM RestartsEarnedHolds == Spec => []RestartsEarned
<1>1. MixerInv /\ SampleInv => RestartsEarned
  <2> SUFFICES ASSUME MixerInv, SampleInv
               PROVE  stats["restarts"] * BufferMin <= stats["mixed"]
    BY DEF RestartsEarned
  <2> DEFINE r == stats["restarts"] * BufferMin
  <2>1. r + Cardinality(owed) <= stats["mixed"]
    BY DEF SampleInv, Earned
  <2>2. r \in Int /\ stats["mixed"] \in Int /\ Cardinality(owed) \in Nat
    BY SampleInts
  <2> HIDE DEF r
  <2>3. r <= stats["mixed"]
    BY <2>1, <2>2
  <2> QED BY <2>3 DEF r
<1> QED BY <1>1, MixerInvariant, SampleInvariant, PTL

----------------------------------------------------------------------------
(* The order of the samples.                                               *)

LEMMA NumbersNat ==
  ASSUME NEW f, NEW i
  PROVE  \A n \in numbersOf(f, i) : n \in Nat
BY Sizes DEF numbersOf

LEMMA OrderTypes ==
  ASSUME MixerInv, NEW i \in Inputs
  PROVE  /\ heard[i] \in Nat /\ written[i] \in Nat /\ Len(outchan) \in Nat
         /\ Len(buf[i]) \in Nat
         /\ \A k \in 1..Len(buf[i]) : buf[i][k][2] \in Nat
<1>1. /\ heard \in [Inputs -> 0..MaxSamples] /\ written \in [Inputs -> 0..MaxSamples]
      /\ outchan \in Seq(Frame) /\ buf[i] \in Seq(Sample)
  BY DEF MixerInv, MixerTypeOK, Frame
<1>2. Len(outchan) \in Nat /\ Len(buf[i]) \in Nat
  BY <1>1, LenProperties
<1>3. heard[i] \in Nat /\ written[i] \in Nat
  BY <1>1, Sizes
<1>4. \A k \in 1..Len(buf[i]) : buf[i][k] \in Sample
  BY <1>1, ElementOfSeq
<1>5. \A k \in 1..Len(buf[i]) : buf[i][k][2] \in Nat
  BY <1>4, Sizes DEF Sample
<1> QED BY <1>2, <1>3, <1>5

LEMMA OrderStarts == Init => OrderInv
<1> SUFFICES ASSUME Init, NEW i \in Inputs PROVE (writer = "none" => outchan = <<>>) /\ InOrder(i)
  BY DEF OrderInv, Init
<1>1. /\ outchan = <<>> /\ buf[i] = <<>> /\ Len(<<>>) = 0 /\ heard[i] = 0 /\ written[i] = 0
      /\ at = "select"
  BY DEF Init
<1>2. 1..0 = {} /\ inHand(i) = {} /\ Len(outchan) = 0 /\ Len(buf[i]) = 0
  BY <1>1 DEF inHand
<1> QED BY <1>1, <1>2 DEF InOrder, ChannelOrder, HandOrder, RingOrder

\* A step that moves none of the samples of input i.
LEMMA OrderStays ==
  ASSUME NEW i, InOrder(i), heard'[i] = heard[i], written'[i] = written[i],
         outchan' = outchan, buf'[i] = buf[i],
         inHand(i)' = inHand(i) \/ inHand(i)' = {}
  PROVE  InOrder(i)'
<1>1. ChannelOrder(i)'
  BY DEF InOrder, ChannelOrder, numbersOf
<1>2. HandOrder(i)'
  BY DEF InOrder, HandOrder, numbersOf
<1>3. RingOrder(i)'
  BY DEF InOrder, RingOrder, numbersOf
<1> QED BY <1>1, <1>2, <1>3 DEF InOrder

\* Samples are written to the ring: they come after all there were.
LEMMA OrderWritten ==
  ASSUME MixerInv, NEW i \in Inputs, NEW n \in WriteSizes, WriteSample(i, n),
         \A j \in Inputs : InOrder(j)
  PROVE  \A j \in Inputs : InOrder(j)'
<1> DEFINE w == written[i]
           p == [k \in 1..n |-> <<i, w + k>>]
           l == Len(buf[i])
           t == Least(BufferSize, l + n)
           s == (l + n) - t
<1>1. /\ written[i] + n <= MaxSamples /\ written' = [written EXCEPT ![i] = @ + n]
      /\ buf' = [buf EXCEPT ![i] = newest(@ \o p, BufferSize)]
      /\ UNCHANGED <<outchan, heard, mixBuf, at>>
  BY DEF WriteSample, mixVars, outVars
<1>2. \A j \in Inputs : inHand(j)' = inHand(j)
  BY <1>1 DEF inHand, numbersOf
<1>3. ASSUME NEW j \in Inputs, j # i PROVE InOrder(j)'
  <2>1. buf'[j] = buf[j] /\ written'[j] = written[j]
    BY <1>1, <1>3, MixerTypes
  <2> QED BY <1>1, <1>2, <2>1, OrderStays
<1>4. /\ n \in Nat /\ w \in Nat /\ BufferSize \in Nat /\ MaxSamples \in Nat
      /\ l \in Nat /\ l <= BufferSize /\ buf[i] \in Seq(Sample)
  BY MixerTypes, Sizes, MixerAssumption, OrderTypes
<1>5. p \in Seq(Sample) /\ Len(p) = n /\ \A k \in 1..n : p[k] = <<i, w + k>>
  <2>1. \A k \in 1..n : <<i, w + k>> \in Sample
    BY <1>1, <1>4 DEF Sample
  <2>2. p \in [1..n -> Sample]
    BY <2>1
  <2> QED BY <1>4, <2>2, SeqDef, LenProperties
<1> HIDE DEF p
<1>6. /\ buf[i] \o p \in Seq(Sample) /\ Len(buf[i] \o p) = l + n
      /\ \A k \in 1..l + n : (buf[i] \o p)[k] = IF k <= l THEN buf[i][k] ELSE p[k - l]
  BY <1>4, <1>5, ConcatProperties
<1>7. /\ buf'[i] = newest(buf[i] \o p, BufferSize) /\ Len(buf'[i]) = t
      /\ \A k \in 1..t : buf'[i][k] = (buf[i] \o p)[k + s]
  <2>1. /\ Len(newest(buf[i] \o p, BufferSize)) = Least(BufferSize, Len(buf[i] \o p))
        /\ \A k \in 1..Least(BufferSize, Len(buf[i] \o p)) :
             newest(buf[i] \o p, BufferSize)[k] =
               (buf[i] \o p)[k + (Len(buf[i] \o p) - Least(BufferSize, Len(buf[i] \o p)))]
    BY <1>4, <1>6, NewestIs
  <2>2. buf'[i] = newest(buf[i] \o p, BufferSize)
    BY <1>1, MixerTypes
  <2> QED BY <1>6, <2>1, <2>2
<1>8. t \in Nat /\ s \in Nat /\ t + s = l + n
  BY <1>4 DEF Least
<1> HIDE DEF t, s, l
<1>9. \A k \in 1..t : k + s \in 1..l + n /\ k + s \in Nat
  BY <1>4, <1>8
<1>10. ASSUME NEW k \in 1..t
       PROVE  \/ k + s \in 1..l /\ buf'[i][k] = buf[i][k + s]
              \/ k + s > l /\ buf'[i][k][1] = i /\ buf'[i][k][2] = w + ((k + s) - l)
  <2>1. k + s \in 1..l + n /\ k + s \in Nat
        /\ buf'[i][k] = IF k + s <= l THEN buf[i][k + s] ELSE p[(k + s) - l]
    BY <1>6, <1>7, <1>9
  <2>2. CASE k + s <= l
    BY <1>4, <2>1, <2>2
  <2>3. CASE ~(k + s <= l)
    <3>1. (k + s) - l \in 1..n /\ k + s > l
      BY <1>4, <2>1, <2>3
    <3>2. buf'[i][k] = <<i, w + ((k + s) - l)>>
      BY <1>5, <2>1, <2>3, <3>1
    <3> QED BY <3>1, <3>2
  <2> QED BY <2>2, <2>3
<1>11. written'[i] = w + n
  BY <1>1, MixerTypes

<1>12. /\ heard[i] <= written[i] /\ ChannelOrder(i) /\ HandOrder(i) /\ RingOrder(i)
       /\ heard[i] \in Nat
       /\ \A m \in inHand(i) : m \in Nat
       /\ \A k : \A m \in numbersOf(outchan[k], i) : m \in Nat
       /\ \A k \in 1..l : buf[i][k][2] \in Nat
  BY OrderTypes, NumbersNat DEF InOrder, inHand, l
<1>13. \A m \in Nat : m <= written[i] => m <= written'[i]
  BY <1>4, <1>11
<1>14. \A k : numbersOf(outchan[k], i)' = numbersOf(outchan[k], i)
  BY <1>1 DEF numbersOf
<1>15. ChannelOrder(i)'
  BY <1>1, <1>12, <1>13, <1>14 DEF ChannelOrder
<1>16. HandOrder(i)'
  BY <1>1, <1>2, <1>12, <1>13, <1>14 DEF HandOrder
<1>17. RingOrder(i)'
  <2>1. /\ \A k \in 1..l :
             /\ buf[i][k][1] = i /\ heard[i] < buf[i][k][2] /\ buf[i][k][2] <= w
             /\ \A m \in inHand(i) : m < buf[i][k][2]
             /\ \A j \in 1..Len(outchan) : \A m \in numbersOf(outchan[j], i) :
                  m < buf[i][k][2]
        /\ \A j, k \in 1..l : j < k => buf[i][j][2] < buf[i][k][2]
    BY <1>12 DEF RingOrder, l
  <2>2. /\ \A m \in inHand(i) : m <= w
        /\ \A j \in 1..Len(outchan) : \A m \in numbersOf(outchan[j], i) : m <= w
    BY <1>12 DEF HandOrder, ChannelOrder
  <2> HIDE DEF w
  <2>3. ASSUME NEW k \in 1..t
        PROVE  /\ buf'[i][k][1] = i /\ heard[i] < buf'[i][k][2]
               /\ buf'[i][k][2] <= w + n /\ buf'[i][k][2] \in Nat
               /\ \A m \in inHand(i) : m < buf'[i][k][2]
               /\ \A j \in 1..Len(outchan) : \A m \in numbersOf(outchan[j], i) :
                    m < buf'[i][k][2]
    <3>1. CASE k + s \in 1..l /\ buf'[i][k] = buf[i][k + s]
      <4>1. buf[i][k + s][2] \in Nat /\ buf[i][k + s][2] <= w
        BY <1>12, <2>1, <3>1
      <4>2. buf[i][k + s][2] <= w + n
        BY <1>4, <4>1
      <4> QED BY <2>1, <3>1, <4>1, <4>2
    <3>2. CASE k + s > l /\ buf'[i][k][1] = i /\ buf'[i][k][2] = w + ((k + s) - l)
      <4>1. /\ w + ((k + s) - l) \in Nat /\ w < w + ((k + s) - l)
            /\ w + ((k + s) - l) <= w + n
        BY <1>4, <1>8, <1>9, <3>2
      <4>2. \A m \in Nat : m <= w => m < w + ((k + s) - l)
        BY <1>4, <4>1
      <4>3. heard[i] <= w
        BY <1>12 DEF w
      <4> QED BY <1>12, <2>2, <3>2, <4>1, <4>2, <4>3
    <3> QED BY <1>10, <3>1, <3>2
  <2>4. ASSUME NEW j \in 1..t, NEW k \in 1..t, j < k
        PROVE  buf'[i][j][2] < buf'[i][k][2]
    <3>1. j + s < k + s /\ j + s \in Nat /\ k + s \in Nat
      BY <1>8, <1>9, <2>4
    <3>2. CASE k + s \in 1..l /\ buf'[i][k] = buf[i][k + s]
      <4>1. j + s \in 1..l
        BY <1>4, <1>9, <3>1, <3>2
      <4>2. buf'[i][j] = buf[i][j + s]
        BY <1>4, <1>10, <4>1
      <4> QED BY <2>1, <3>1, <3>2, <4>1, <4>2
    <3>3. CASE k + s > l /\ buf'[i][k][2] = w + ((k + s) - l)
      <4>1. CASE j + s \in 1..l /\ buf'[i][j] = buf[i][j + s]
        <5>1. buf[i][j + s][2] \in Nat /\ buf[i][j + s][2] <= w
          BY <1>12, <2>1, <4>1
        <5> QED BY <1>4, <3>1, <3>3, <4>1, <5>1
      <4>2. CASE j + s > l /\ buf'[i][j][2] = w + ((j + s) - l)
        BY <1>4, <3>1, <3>3, <4>2
      <4> QED BY <1>10, <4>1, <4>2
    <3> QED BY <1>10, <3>2, <3>3
  <2> QED BY <1>1, <1>2, <1>7, <1>11, <1>14, <2>3, <2>4 DEF RingOrder
<1>18. heard'[i] <= written'[i]
  BY <1>1, <1>12, <1>13
<1>19. InOrder(i)'
  BY <1>15, <1>16, <1>17, <1>18 DEF InOrder
<1> QED BY <1>3, <1>19

\* Samples go from the ring into the frame in hand.
LEMMA OrderPlayed ==
  ASSUME MixerInv, Play, \A j \in Inputs : InOrder(j)
  PROVE  \A j \in Inputs : InOrder(j)'
<1>0. PICK i \in Inputs : i = inputs[next]
  BY PlayTakes
<1> DEFINE b == buf[i]
           m == Least(MixSize, Len(b))
           tmp == oldest(b, MixSize)
<1>1. /\ i \in Inputs /\ b \in Seq(Sample) /\ Len(b) \in Nat /\ m \in Nat
      /\ m <= Len(b) /\ m <= MixSize
      /\ Len(tmp) = m /\ (\A j \in 1..m : tmp[j] = b[j])
      /\ Len(without(b, MixSize)) = Len(b) - m
      /\ \A j \in 1..(Len(b) - m) : without(b, MixSize)[j] = b[j + m]
      /\ buf' = [buf EXCEPT ![i] = without(b, MixSize)]
  BY <1>0, PlayTakes
<1>2. /\ at = "inputs" /\ at' = at
      /\ mixBuf' = [j \in 1..MixSize |->
                      mixBuf[j] \cup IF j <= Len(tmp) THEN {tmp[j]} ELSE {}]
      /\ UNCHANGED <<outchan, heard, written>>
  BY <1>0 DEF Play, outVars
<1>3. buf'[i] = without(b, MixSize) /\ \A j \in Inputs : j # i => buf'[j] = buf[j]
  BY <1>1, MixerTypes
<1> HIDE DEF tmp, m
<1>4. \A j : mixBuf'[j] = IF j \in 1..MixSize
                         THEN mixBuf[j] \cup IF j <= m THEN {tmp[j]} ELSE {}
                         ELSE mixBuf'[j]
  BY <1>1, <1>2
<1>5. /\ \A k \in 1..Len(b) : b[k][1] = i /\ b[k][2] \in Nat /\ b[k] \in Sample
      /\ \A k \in 1..Len(b) : b[k] = <<i, b[k][2]>> /\ b[k][2] \in 1..MaxSamples
  <2>1. \A k \in 1..Len(b) : b[k] \in Sample /\ b[k][1] = i /\ b[k][2] \in Nat
    BY <1>1, ElementOfSeq, OrderTypes DEF InOrder, RingOrder
  <2> QED BY <2>1 DEF Sample
<1>6. MixSize \in Nat
  BY Sizes
<1>7. ASSUME NEW j \in Inputs, NEW n \in 1..MaxSamples
      PROVE  n \in numbersOf(mixBuf', j) <=>
               n \in numbersOf(mixBuf, j) \/ (j = i /\ \E k \in 1..m : n = b[k][2])
  <2>1. n \in numbersOf(mixBuf', j) <=> \E k \in 1..MixSize : <<j, n>> \in mixBuf'[k]
    BY DEF numbersOf
  <2>2. n \in numbersOf(mixBuf, j) <=> \E k \in 1..MixSize : <<j, n>> \in mixBuf[k]
    BY DEF numbersOf
  <2>3. \A k \in 1..MixSize : <<j, n>> \in mixBuf'[k] <=>
          <<j, n>> \in mixBuf[k] \/ (k <= m /\ <<j, n>> = tmp[k])
    BY <1>4
  <2>4. \A k \in 1..m : k \in 1..MixSize /\ k <= m /\ k \in 1..Len(b) /\ tmp[k] = b[k]
    BY <1>1, <1>6
  <2>5. \A k \in 1..MixSize : k <= m => k \in 1..m
    BY <1>1, <1>6
  <2>6. \A k \in 1..m : <<j, n>> = tmp[k] <=> j = i /\ n = b[k][2]
    BY <1>5, <2>4
  <2> QED BY <2>1, <2>2, <2>3, <2>4, <2>5, <2>6
<1>8. ASSUME NEW j \in Inputs
      PROVE  /\ inHand(j) = numbersOf(mixBuf, j) /\ inHand(j)' = numbersOf(mixBuf', j)
             /\ inHand(j) \subseteq 1..MaxSamples /\ inHand(j)' \subseteq 1..MaxSamples
  BY <1>2 DEF inHand, numbersOf
<1>9. ASSUME NEW j \in Inputs, j # i PROVE InOrder(j)'
  <2>1. inHand(j)' = inHand(j)
    BY <1>7, <1>8, <1>9
  <2> QED BY <1>2, <1>3, <1>9, <2>1, OrderStays
<1>10. InOrder(i) /\ heard[i] \in Nat /\ written[i] \in Nat
  BY <1>1, OrderTypes
<1>11. \A n \in inHand(i)' : n \in inHand(i) \/ \E k \in 1..m : n = b[k][2]
  BY <1>1, <1>7, <1>8
<1>12. \A k \in 1..m : k \in 1..Len(b)
  BY <1>1
<1>13. ChannelOrder(i)'
  BY <1>2, <1>10 DEF InOrder, ChannelOrder, numbersOf
<1>14. HandOrder(i)'
  <2>1. ASSUME NEW n \in inHand(i)'
        PROVE  /\ heard[i] < n /\ n <= written[i]
               /\ \A k \in 1..Len(outchan) : \A o \in numbersOf(outchan[k], i) : o < n
    <3>1. CASE n \in inHand(i)
      BY <1>10, <3>1 DEF InOrder, HandOrder
    <3>2. CASE \E k \in 1..m : n = b[k][2]
      BY <1>10, <1>12, <3>2 DEF InOrder, RingOrder
    <3> QED BY <1>11, <3>1, <3>2
  <2>2. \A k : numbersOf(outchan[k], i)' = numbersOf(outchan[k], i)
    BY <1>2 DEF numbersOf
  <2> QED BY <1>2, <2>1, <2>2 DEF HandOrder
<1>15. RingOrder(i)'
  <2>1. \A k \in 1..(Len(b) - m) : k + m \in 1..Len(b) /\ buf'[i][k] = b[k + m]
    BY <1>1, <1>3
  <2>2. Len(buf'[i]) = Len(b) - m
    BY <1>1, <1>3
  <2>3. ASSUME NEW k \in 1..(Len(b) - m)
        PROVE  \A n \in inHand(i)' : n < buf'[i][k][2]
    <3>1. \A j \in 1..m : j < k + m
      BY <1>1
    <3>2. ASSUME NEW n \in inHand(i)' PROVE n < b[k + m][2]
      <4>1. CASE n \in inHand(i)
        BY <1>10, <2>1, <4>1 DEF InOrder, RingOrder
      <4>2. CASE \E j \in 1..m : n = b[j][2]
        BY <1>10, <1>12, <2>1, <3>1, <4>2 DEF InOrder, RingOrder
      <4> QED BY <1>11, <3>2, <4>1, <4>2
    <3> QED BY <2>1, <3>2
  <2>4. ASSUME NEW k \in 1..(Len(b) - m)
        PROVE  /\ buf'[i][k][1] = i /\ heard[i] < buf'[i][k][2]
               /\ buf'[i][k][2] <= written[i]
               /\ \A l \in 1..Len(outchan) : \A n \in numbersOf(outchan[l], i) :
                    n < buf'[i][k][2]
    BY <1>10, <2>1 DEF InOrder, RingOrder
  <2>5. ASSUME NEW k \in 1..(Len(b) - m), NEW l \in 1..(Len(b) - m), k < l
        PROVE  buf'[i][k][2] < buf'[i][l][2]
    <3>1. k + m < l + m
      BY <1>1, <2>5
    <3> QED BY <1>10, <2>1, <3>1 DEF InOrder, RingOrder
  <2>6. \A k : numbersOf(outchan[k], i)' = numbersOf(outchan[k], i)
    BY <1>2 DEF numbersOf
  <2> HIDE DEF b
  <2> QED BY <1>2, <2>2, <2>3, <2>4, <2>5, <2>6 DEF RingOrder
<1>16. InOrder(i)'
  BY <1>2, <1>10, <1>13, <1>14, <1>15 DEF InOrder
<1> QED BY <1>9, <1>16

\* The frame in hand goes into the channel, behind the others.
LEMMA OrderSent ==
  ASSUME MixerInv, Send, NEW i \in Inputs, InOrder(i)
  PROVE  InOrder(i)'
<1>1. /\ at = "send" /\ at' = "mix" /\ outchan' = Append(outchan, mixBuf)
      /\ UNCHANGED <<mixBuf, heard, buf, written>>
  BY DEF Send, inputVars
<1>2. inHand(i) = numbersOf(mixBuf, i) /\ inHand(i)' = {}
  BY <1>1 DEF inHand
<1> DEFINE l == Len(outchan)
<1>3. /\ l \in Nat /\ Len(outchan') = l + 1 /\ outchan'[l + 1] = mixBuf
      /\ \A k \in 1..l : outchan'[k] = outchan[k]
  <2>1. outchan \in Seq(Frame) /\ mixBuf \in Frame
    BY MixerTypes
  <2> QED BY <1>1, <2>1, AppendProperties, LenProperties
<1>4. heard[i] <= written[i] /\ ChannelOrder(i) /\ HandOrder(i) /\ RingOrder(i)
  BY DEF InOrder
<1>5. \A k : numbersOf(outchan[k], i)' = numbersOf(outchan'[k], i)
  BY DEF numbersOf
<1>6. \A k \in 1..l + 1 : k \in 1..l \/ (k = l + 1 /\ numbersOf(outchan'[k], i) = inHand(i))
  BY <1>2, <1>3
<1>7. ChannelOrder(i)'
  <2>1. ASSUME NEW k \in 1..l + 1, NEW n \in numbersOf(outchan'[k], i)
        PROVE  heard[i] < n /\ n <= written[i]
    BY <1>3, <1>4, <1>6 DEF ChannelOrder, HandOrder
  <2>2. ASSUME NEW j \in 1..l + 1, NEW k \in 1..l + 1, j < k,
               NEW m \in numbersOf(outchan'[j], i), NEW n \in numbersOf(outchan'[k], i)
        PROVE  m < n
    <3>1. j \in 1..l
      BY <1>3, <2>2
    <3>2. m \in numbersOf(outchan[j], i)
      BY <1>3, <3>1
    <3>3. CASE k \in 1..l
      BY <1>3, <1>4, <2>2, <3>1, <3>2, <3>3 DEF ChannelOrder
    <3>4. CASE k = l + 1 /\ n \in inHand(i)
      BY <1>4, <3>1, <3>2, <3>4 DEF HandOrder
    <3> QED BY <1>6, <3>3, <3>4
  <2> QED BY <1>1, <1>3, <1>5, <2>1, <2>2 DEF ChannelOrder
<1>8. HandOrder(i)'
  BY <1>2 DEF HandOrder
<1>9. RingOrder(i)'
  <2>1. ASSUME NEW k \in 1..Len(buf[i]), NEW j \in 1..l + 1,
               NEW n \in numbersOf(outchan'[j], i)
        PROVE  n < buf[i][k][2]
    BY <1>3, <1>4, <1>6 DEF RingOrder
  <2>2. /\ \A k \in 1..Len(buf[i]) :
             buf[i][k][1] = i /\ heard[i] < buf[i][k][2] /\ buf[i][k][2] <= written[i]
        /\ \A k, j \in 1..Len(buf[i]) : k < j => buf[i][k][2] < buf[i][j][2]
    BY <1>4 DEF RingOrder
  <2> QED BY <1>1, <1>2, <1>3, <1>5, <2>1, <2>2 DEF RingOrder
<1> QED BY <1>1, <1>4, <1>7, <1>8, <1>9 DEF InOrder

\* Without a channel the frame in hand is given to the sink.
LEMMA OrderDirect ==
  ASSUME MixerInv, WriteDirect, outchan = <<>>, NEW i \in Inputs, InOrder(i)
  PROVE  /\ InOrder(i)'
         /\ \A n \in numbersOf(out', i) : n > heard[i]
<1>1. /\ at = "send" /\ at' = "write" /\ give(mixBuf)
      /\ UNCHANGED <<outchan, buf, written>>
  BY DEF WriteDirect, inputVars
<1>2. inHand(i) = numbersOf(mixBuf, i) /\ inHand(i)' = {} /\ out' = mixBuf
  BY <1>1 DEF inHand, give
<1>3. Len(outchan) = 0 /\ 1..0 = {} /\ Len(outchan') = 0
  BY <1>1
<1>4. heard[i] <= written[i] /\ HandOrder(i) /\ RingOrder(i)
  BY DEF InOrder
<1>5. heard'[i] \in inHand(i) \cup {heard[i]}
  <2>1. heard \in [Inputs -> 0..MaxSamples]
    BY DEF MixerInv, MixerTypeOK
  <2> QED BY <1>1, <1>2, <2>1, HeardIs
<1>6. heard'[i] <= written'[i]
  BY <1>1, <1>4, <1>5 DEF HandOrder
<1>7. ChannelOrder(i)' /\ HandOrder(i)'
  BY <1>2, <1>3 DEF ChannelOrder, HandOrder
<1>8. RingOrder(i)'
  <2>1. /\ \A k \in 1..Len(buf[i]) :
             buf[i][k][1] = i /\ heard'[i] < buf[i][k][2] /\ buf[i][k][2] <= written[i]
        /\ \A k, j \in 1..Len(buf[i]) : k < j => buf[i][k][2] < buf[i][j][2]
    BY <1>4, <1>5 DEF RingOrder
  <2> QED BY <1>1, <1>2, <1>3, <2>1 DEF RingOrder
<1>9. \A n \in numbersOf(out', i) : n > heard[i]
  <2>1. \A n \in numbersOf(out', i) : n \in Nat /\ heard[i] < n
    BY <1>2, <1>4, NumbersNat DEF HandOrder
  <2>2. heard[i] \in Nat
    BY OrderTypes
  <2> QED BY <2>1, <2>2
<1> QED BY <1>6, <1>7, <1>8, <1>9 DEF InOrder

\* The writer gives the first frame of the channel to the sink.
LEMMA OrderTaken ==
  ASSUME MixerInv, WriterTake, NEW i \in Inputs, InOrder(i)
  PROVE  /\ InOrder(i)'
         /\ \A n \in numbersOf(out', i) : n > heard[i]
<1>1. /\ outchan # <<>> /\ outchan' = Tail(outchan) /\ give(outchan[1])
      /\ UNCHANGED <<buf, written, at, mixBuf>>
  BY DEF WriterTake, inputVars, mixVars
<1>2. inHand(i)' = inHand(i) /\ out' = outchan[1]
  BY <1>1 DEF inHand, numbersOf, give
<1> DEFINE l == Len(outchan)
<1>3. /\ l \in Nat \ {0} /\ Len(outchan') = l - 1
      /\ \A k \in 1..l - 1 : outchan'[k] = outchan[k + 1]
  <2>1. outchan \in Seq(Frame)
    BY MixerTypes
  <2>2. l \in Nat /\ l # 0
    BY <1>1, <2>1, LenProperties, EmptySeq
  <2> QED BY <1>1, <2>1, <2>2, HeadTailProperties
<1>4. heard[i] <= written[i] /\ ChannelOrder(i) /\ HandOrder(i) /\ RingOrder(i)
  BY DEF InOrder
<1>5. heard'[i] \in numbersOf(outchan[1], i) \cup {heard[i]}
  <2>1. heard \in [Inputs -> 0..MaxSamples]
    BY DEF MixerInv, MixerTypeOK
  <2> QED BY <1>1, <2>1, HeardIs
<1>6. \A k : numbersOf(outchan[k], i)' = numbersOf(outchan'[k], i)
  BY DEF numbersOf
<1>7. /\ 1 \in 1..l /\ \A k \in 1..l - 1 : k + 1 \in 1..l /\ 1 < k + 1
      /\ \A j, k \in 1..l - 1 : j < k => j + 1 < k + 1
  BY <1>3
<1> HIDE DEF l
<1>8. heard'[i] <= written'[i]
  BY <1>1, <1>4, <1>5, <1>7 DEF ChannelOrder, l
<1>9. ChannelOrder(i)'
  <2>1. ASSUME NEW k \in 1..l - 1, NEW n \in numbersOf(outchan'[k], i)
        PROVE  heard'[i] < n /\ n <= written[i]
    <3>1. n \in numbersOf(outchan[k + 1], i)
      BY <1>3
    <3> QED BY <1>4, <1>5, <1>7, <3>1 DEF ChannelOrder, l
  <2>2. ASSUME NEW j \in 1..l - 1, NEW k \in 1..l - 1, j < k,
               NEW m \in numbersOf(outchan'[j], i), NEW n \in numbersOf(outchan'[k], i)
        PROVE  m < n
    <3>1. m \in numbersOf(outchan[j + 1], i) /\ n \in numbersOf(outchan[k + 1], i)
      BY <1>3
    <3> QED BY <1>4, <1>7, <2>2, <3>1 DEF ChannelOrder, l
  <2> QED BY <1>1, <1>3, <1>6, <2>1, <2>2 DEF ChannelOrder
<1>10. HandOrder(i)'
  <2>1. ASSUME NEW n \in inHand(i)
        PROVE  /\ heard'[i] < n /\ n <= written[i]
               /\ \A k \in 1..l - 1 : \A m \in numbersOf(outchan'[k], i) : m < n
    BY <1>3, <1>4, <1>5, <1>7 DEF HandOrder, l
  <2> QED BY <1>1, <1>2, <1>3, <1>6, <2>1 DEF HandOrder
<1>11. RingOrder(i)'
  <2>1. ASSUME NEW k \in 1..Len(buf[i])
        PROVE  /\ buf[i][k][1] = i /\ heard'[i] < buf[i][k][2] /\ buf[i][k][2] <= written[i]
               /\ \A n \in inHand(i) : n < buf[i][k][2]
               /\ \A j \in 1..l - 1 : \A n \in numbersOf(outchan'[j], i) : n < buf[i][k][2]
    BY <1>3, <1>4, <1>5, <1>7 DEF RingOrder, l
  <2>2. \A k, j \in 1..Len(buf[i]) : k < j => buf[i][k][2] < buf[i][j][2]
    BY <1>4 DEF RingOrder
  <2> QED BY <1>1, <1>2, <1>3, <1>6, <2>1, <2>2 DEF RingOrder
<1>12. \A n \in numbersOf(out', i) : n > heard[i]
  <2>1. \A n \in numbersOf(out', i) : n \in Nat /\ heard[i] < n
    BY <1>2, <1>4, <1>7, NumbersNat DEF ChannelOrder, l
  <2>2. heard[i] \in Nat
    BY OrderTypes
  <2> QED BY <2>1, <2>2
<1> QED BY <1>8, <1>9, <1>10, <1>11, <1>12 DEF InOrder

\* The steps that move no sample: an input read without a result, the turns of
\* the goroutines and the calls.
LEMMA OrderQuiet ==
  ASSUME \/ \E j \in Inputs : NewInput(j) \/ RemoveInput(j)
         \/ Clock \/ MixUpdate \/ MixOnce \/ KeepBuffering \/ Starve \/ MixUnlock
         \/ MixerExit \/ WriterExit \/ Returns \/ StopCall \/ StopLock
         \/ UNCHANGED vars,
         NEW i
  PROVE  /\ UNCHANGED <<buf, written, outchan, heard, out>>
         /\ inHand(i)' = inHand(i) \/ inHand(i)' = {}
         /\ writer' = writer \/ writer # "none"
         /\ writer' = "none" => writer = "none"
<1>1. ASSUME \/ \E j \in Inputs : NewInput(j) \/ RemoveInput(j)
             \/ Clock \/ WriterExit \/ WriterReturns \/ StopCall \/ StopLock
             \/ UNCHANGED vars
      PROVE  /\ UNCHANGED <<buf, written, outchan, heard, out, at, mixBuf>>
             /\ writer' = "none" <=> writer = "none"
  BY <1>1 DEF NewInput, RemoveInput, Clock, WriterExit, WriterReturns, StopCall,
       StopLock, vars, inputVars, mixVars, outVars
<1>2. ASSUME MixUpdate \/ KeepBuffering \/ Starve \/ MixUnlock \/ MixerExit \/ WriteReturns
      PROVE  /\ UNCHANGED <<buf, written, outchan, heard, out, mixBuf, writer>>
             /\ at' \in {"inputs", "send"} => at \in {"inputs", "send"}
  <2>1. UNCHANGED <<buf, written, outchan, heard, out, mixBuf, writer>>
    BY <1>2 DEF MixUpdate, FirstMix, TimedMix, UpdateDone, KeepBuffering, Starve,
         MixUnlock, MixerExit, WriteReturns, inputVars, outVars
  <2>2. at' \in {"inputs", "send"} => at \in {"inputs", "send"}
    BY <1>2 DEF MixUpdate, FirstMix, TimedMix, UpdateDone, KeepBuffering, Starve,
         MixUnlock, MixerExit, WriteReturns
  <2> QED BY <2>1, <2>2
<1>3. ASSUME MixOnce
      PROVE  /\ UNCHANGED <<buf, written, outchan, heard, out, writer>>
             /\ mixBuf' = Silence
  BY <1>3 DEF MixOnce, reset, inputVars, outVars
<1>4. numbersOf(Silence, i) = {}
  BY DEF numbersOf, Silence
<1>5. mixBuf' = mixBuf => numbersOf(mixBuf, i)' = numbersOf(mixBuf, i)
  BY DEF numbersOf
<1>6. mixBuf' = Silence => numbersOf(mixBuf, i)' = {}
  BY <1>4 DEF numbersOf, Silence
<1>7. CASE MixOnce
  BY <1>3, <1>6, <1>7 DEF inHand
<1>8. CASE MixUpdate \/ KeepBuffering \/ Starve \/ MixUnlock \/ MixerExit \/ WriteReturns
  BY <1>2, <1>5, <1>8 DEF inHand
<1>9. CASE \/ \E j \in Inputs : NewInput(j) \/ RemoveInput(j)
           \/ Clock \/ WriterExit \/ WriterReturns \/ StopCall \/ StopLock
           \/ UNCHANGED vars
  BY <1>1, <1>5, <1>9 DEF inHand
<1> QED BY <1>7, <1>8, <1>9 DEF Returns

LEMMA OrderSteps ==
  ASSUME MixerInv, OrderInv, [Next]_vars
  PROVE  /\ OrderInv'
         /\ out' # out => \A i \in Inputs : \A n \in numbersOf(out', i) : n > heard[i]
<1> DEFINE Given == out' # out =>
                      \A i \in Inputs : \A n \in numbersOf(out', i) : n > heard[i]
<1>1. (writer = "none" => outchan = <<>>) /\ \A i \in Inputs : InOrder(i)
  BY DEF OrderInv
<1>2. ASSUME NEW i \in Inputs, NEW n \in WriteSizes, WriteSample(i, n)
      PROVE  OrderInv' /\ Given
  <2>1. UNCHANGED <<outchan, writer, out>>
    BY <1>2 DEF WriteSample, outVars
  <2>2. \A j \in Inputs : InOrder(j)'
    BY <1>1, <1>2, OrderWritten
  <2> QED BY <1>1, <2>1, <2>2 DEF OrderInv
<1>3. CASE Play
  <2>1. UNCHANGED <<outchan, writer, out>>
    BY <1>3 DEF Play, outVars
  <2>2. \A j \in Inputs : InOrder(j)'
    BY <1>1, <1>3, OrderPlayed
  <2> QED BY <1>1, <2>1, <2>2 DEF OrderInv
<1>4. CASE Send
  <2>1. writer' # "none" /\ out' = out
    BY <1>4 DEF Send
  <2>2. \A j \in Inputs : InOrder(j)'
    BY <1>1, <1>4, OrderSent
  <2> QED BY <2>1, <2>2 DEF OrderInv
<1>5. CASE WriteDirect
  <2>1. writer = "none" /\ outchan' = outchan
    BY <1>5 DEF WriteDirect
  <2>2. \A j \in Inputs : InOrder(j)' /\ \A n \in numbersOf(out', j) : n > heard[j]
    BY <1>1, <1>5, <2>1, OrderDirect
  <2> QED BY <1>1, <2>1, <2>2 DEF OrderInv
<1>6. CASE WriterTake
  <2>1. writer' # "none"
    BY <1>6 DEF WriterTake
  <2>2. \A j \in Inputs : InOrder(j)' /\ \A n \in numbersOf(out', j) : n > heard[j]
    BY <1>1, <1>6, OrderTaken
  <2> QED BY <2>1, <2>2 DEF OrderInv
<1>7. CASE \/ \E j \in Inputs : NewInput(j) \/ RemoveInput(j)
           \/ Clock \/ MixUpdate \/ MixOnce \/ KeepBuffering \/ Starve \/ MixUnlock
           \/ MixerExit \/ WriterExit \/ Returns \/ StopCall \/ StopLock
           \/ UNCHANGED vars
  <2>1. /\ UNCHANGED <<buf, written, outchan, heard, out>>
        /\ writer' = "none" => writer = "none"
    BY <1>7, OrderQuiet
  <2>2. ASSUME NEW i \in Inputs PROVE InOrder(i)'
    <3>1. inHand(i)' = inHand(i) \/ inHand(i)' = {}
      BY <1>7, OrderQuiet
    <3> QED BY <1>1, <2>1, <3>1, OrderStays
  <2> QED BY <1>1, <2>1, <2>2 DEF OrderInv
<1> QED BY <1>2, <1>3, <1>4, <1>5, <1>6, <1>7 DEF Next, Mix, ReadInput

LEMMA OrderInvariant == Spec => []OrderInv
<1>1. MixerInv /\ OrderInv /\ [Next]_vars => OrderInv'
  BY OrderSteps
<1> QED BY <1>1, OrderStarts, MixerInvariant, PTL DEF Spec

\* The sink receives the samples of every input in the order in which they were
\* written and no sample twice, for any number of inputs that come and go and
\* any interleaving of the producers, mixOnce and the writer goroutine.
THEOREM OutputInOrderHolds == Spec => OutputInOrder
<1>1. ASSUME MixerInv, OrderInv, [Next]_vars
      PROVE  [out' # out =>
                \A i \in Inputs : \A n \in numbersOf(out', i) : n > heard[i]]_vars
  BY <1>1, OrderSteps
<1> QED BY <1>1, MixerInvariant, OrderInvariant, PTL DEF Spec, OutputInOrder

----------------------------------------------------------------------------
(* The mixer that writes into an RTP stream.                               *)

(* The stream adds nothing to what the mixer may do: every step of the two *)
(* together is a step of the mixer or leaves it alone.  WritePayload stands *)
(* where the mixer enters its sink, and its return where the sink returns. *)
THEOREM MixedRunsMixer == MixedSpec => Spec
<1>1. MixedInit => Init
  BY DEF MixedInit
<1>2. [MixedNext]_mixedVars => [Next]_vars
  BY DEF MixedNext, MixStep, PayloadOut, PayloadWritten, MixedClock, mixedVars, Next, Mix, Returns
<1> QED BY <1>1, <1>2, PTL DEF MixedSpec, Spec

(* Mixing stays within real time however long the stream takes over a      *)
(* packet, and the goroutine may be held up in WritePayload between the    *)
(* two frames of a burst (mixUpdate).                                      *)
THEOREM MixedInRealTime == MixedSpec => []InRealTime
BY MixedRunsMixer, InRealTimeHolds, PTL

(* And it catches up: once mixUpdate has planned its mixes, less than a    *)
(* period is missing, unless it has reset the timeline.                    *)
THEOREM MixedKeepsUp == MixedSpec => KeepsUp
BY MixedRunsMixer, KeepsUpHolds, PTL

----------------------------------------------------------------------------
(* The timestamps of what the mixer writes, while a call spans less than   *)
(* half of them.                                                           *)

pos(t) == (t - Offset) % TSMod

ShortCall == (W!frames(MaxTime) + MaxPackets) * FrameTS < TSMod \div 2

reach == (W!frames(now) + count) * FrameTS

\* The anchor is the first timestamp, not set before the first mix; the stream only
\* goes forward, and only the mixer writes to it.
StreamInv ==
  /\ ts \in [{Audio} -> W!TS] /\ cur \in W!TS \cup {W!None} /\ maxTS \in W!TS
  /\ sent \in W!TS \cup {W!None} /\ anchorTime \in Nat \cup {W!None}
  /\ count \in Nat /\ count <= MaxPackets /\ now <= MaxTime
  /\ cur # W!None <=> at = "write"
  /\ cur # W!None => count < MaxPackets
  /\ anchorTime = W!None => ts[Audio] = Offset /\ maxTS = Offset /\ cur \in {W!None, Offset}
  /\ anchorTime # W!None => /\ anchorTS = Offset
                            /\ firstMix # None /\ firstMix <= anchorTime /\ anchorTime <= now
  /\ pos(maxTS) <= pos(ts[Audio]) /\ pos(ts[Audio]) <= reach
  /\ cur # W!None => pos(ts[Audio]) <= pos(cur) /\ pos(cur) <= reach
  /\ sent # W!None => pos(ts[Audio]) = pos(sent) + FrameTS

\* The frames of the burst that have no timestamp yet.
unstamped == left + (IF at \in {"inputs", "send"} THEN 1 ELSE 0)

half == TickerDur \div 2

\* The timestamps after n frames are ahead of the timeline of mixUpdate by two bursts
\* and a half, or, since a jump to the wall clock in this burst, of real time by one.
Led(n) ==
  /\ firstMix = None => n = 0
  /\ firstMix # None =>
       \/ n * TickerDur <= (lastMixEndTs - firstMix) + ((2 * BufferFrames + 1) * TickerDur + half)
       \/ n * TickerDur <= (now - firstMix) + (BufferFrames * TickerDur + half)

\* Where the timestamps are, in frames, before and after the packet being written, and
\* after the k frames that they come to with what is left of the burst.
LeadInv ==
  /\ at \in {"inputs", "send", "write"} => left < BufferFrames /\ firstMix # None
  /\ \E m, k \in Nat :
       /\ pos(ts[Audio]) = m * FrameTS /\ m + unstamped <= k /\ Led(k)
       /\ cur # W!None => \E n \in Nat : /\ pos(cur) = n * FrameTS /\ m <= n
                                         /\ (n + 1) + unstamped <= k

LEMMA StreamConsts ==
  /\ TSMod \in Nat \ {0} /\ Offset \in W!TS /\ FrameTS \in Nat \ {0} /\ TickerDur \in Nat \ {0}
  /\ MaxPackets \in Nat /\ MaxTime \in Nat /\ BufferFrames \in Nat \ {0} /\ half \in Nat
  /\ W!TS = 0..TSMod-1
BY MixedAssumption, MixerAssumption DEF W!TS, half

LEMMA PosTypes ==
  /\ pos(Offset) = 0
  /\ \A t \in W!TS : pos(t) \in 0..TSMod-1 /\ t # W!None
BY StreamConsts DEF pos, W!TS, W!None

LEMMA FramesAre ==
  /\ \A d \in Nat : W!frames(d) \in Nat /\ W!frames(d) * TickerDur <= d + half
  /\ \A d, e \in Nat : d <= e => W!frames(d) <= W!frames(e)
<1>1. \A N \in Nat \ {0}, x, y \in Nat : x <= y => x \div N <= y \div N
  OBVIOUS
<1>2. \A N \in Nat \ {0}, x \in Nat : x \div N \in Nat
  OBVIOUS
<1>3. ASSUME NEW d \in Nat PROVE W!frames(d) * TickerDur <= d + half
  <2> DEFINE e == d + half
             q == e \div TickerDur
             r == e % TickerDur
  <2>1. e \in Int /\ TickerDur \in Nat \ {0}
    BY StreamConsts
  <2>2. W!frames(d) = q
    BY DEF W!frames, half
  <2> HIDE DEF e
  <2>3. e = TickerDur * q + r /\ r \in 0..TickerDur-1 /\ q \in Int
    BY <2>1, Divides
  <2> HIDE DEF q, r
  <2>4. TickerDur * q = q * TickerDur /\ q * TickerDur \in Int
    BY <2>1, <2>3
  <2> HIDE <2>2
  <2>5. \A a, b, c \in Int : a = b + c /\ 0 <= c => b <= a
    OBVIOUS
  <2>6. r \in Int /\ 0 <= r
    BY <2>1, <2>3
  <2>7. q * TickerDur <= e
    BY <2>1, <2>3, <2>4, <2>5, <2>6
  <2> QED BY <2>2, <2>7 DEF e
<1>4. \A d \in Nat : d + half \in Nat /\ W!frames(d) = (d + half) \div TickerDur
  BY StreamConsts DEF W!frames, half
<1>5. ASSUME NEW d \in Nat, NEW e \in Nat, d <= e PROVE W!frames(d) <= W!frames(e)
  <2>1. d + half <= e + half
    BY <1>5, StreamConsts
  <2> QED BY <1>1, <1>4, <2>1, StreamConsts
<1>6. \A d \in Nat : W!frames(d) \in Nat
  BY <1>2, <1>4, StreamConsts
<1> QED BY <1>3, <1>5, <1>6

LEMMA Products ==
  \A f \in Nat, x, y \in Nat : /\ x * f \in Nat
                               /\ x <= y => x * f <= y * f
                               /\ (x + 1) * f = x * f + f
OBVIOUS

LEMMA StreamTypes ==
  ASSUME MixerInv, StreamInv
  PROVE  /\ now \in Nat /\ count \in Nat /\ left \in 0..BufferFrames
         /\ ts[Audio] \in W!TS /\ pos(ts[Audio]) \in Nat /\ pos(maxTS) \in Nat
         /\ cur # W!None => cur \in W!TS /\ pos(cur) \in Nat
         /\ sent # W!None => sent \in W!TS /\ pos(sent) \in Nat
<1>1. now \in Nat /\ left \in 0..BufferFrames
  BY DEF MixerInv, MixerTypeOK
<1>2. ts[Audio] \in W!TS /\ maxTS \in W!TS /\ count \in Nat
      /\ (cur # W!None => cur \in W!TS) /\ (sent # W!None => sent \in W!TS)
  BY DEF StreamInv
<1> QED BY <1>1, <1>2, PosTypes

LEMMA Reaches ==
  ASSUME MixerInv, StreamInv, ShortCall
  PROVE  /\ reach \in Nat /\ reach < TSMod \div 2 /\ TSMod \div 2 <= TSMod
         /\ TSMod \div 2 \in Nat
         /\ count < MaxPackets => reach + FrameTS < TSMod \div 2
<1> DEFINE f == W!frames(now)
           g == W!frames(MaxTime)
           H == TSMod \div 2
           G == (g + MaxPackets) * FrameTS
           R == (f + count) * FrameTS
<1>1. now \in Nat /\ now <= MaxTime /\ count \in Nat /\ count <= MaxPackets
      /\ MaxTime \in Nat /\ MaxPackets \in Nat
  BY StreamTypes, StreamConsts DEF StreamInv
<1>2. f \in Nat /\ g \in Nat /\ f <= g
  BY <1>1, FramesAre
<1>3. G < H
  BY DEF ShortCall
<1>4. H \in Nat /\ H <= TSMod
  BY StreamConsts
<1>5. reach = R
  BY DEF reach
<1> HIDE DEF f, g, H
<1>6. f + count \in Nat /\ g + MaxPackets \in Nat /\ f + count <= g + MaxPackets
  BY <1>1, <1>2
<1>7. R \in Nat /\ G \in Nat /\ R <= G
  BY <1>6, StreamConsts, Products
<1>8. ASSUME count < MaxPackets PROVE R + FrameTS <= G
  <2>1. (f + count) + 1 \in Nat /\ (f + count) + 1 <= g + MaxPackets
    BY <1>1, <1>2, <1>8
  <2>2. ((f + count) + 1) * FrameTS <= G
    BY <1>6, <2>1, StreamConsts, Products
  <2>3. ((f + count) + 1) * FrameTS = R + FrameTS
    BY <1>6, StreamConsts, Products
  <2> QED BY <2>2, <2>3
<1> HIDE DEF G, R
<1>9. R < H /\ (count < MaxPackets => R + FrameTS < H)
  BY <1>3, <1>4, <1>7, <1>8, StreamConsts
<1> QED BY <1>4, <1>5, <1>7, <1>9 DEF H

LEMMA ReachGrows ==
  ASSUME MixerInv, StreamInv, now' \in Nat, now <= now', count' \in Nat, count <= count'
  PROVE  reach \in Nat /\ reach' \in Nat /\ reach <= reach'
         /\ (count' = count + 1 /\ now' = now => reach' = reach + FrameTS)
<1> DEFINE f == W!frames(now)
           g == W!frames(now')
<1>1. now \in Nat /\ count \in Nat
  BY StreamTypes
<1>2. f \in Nat /\ g \in Nat /\ f <= g /\ (now' = now => f = g)
  BY <1>1, FramesAre
<1>3. reach = (f + count) * FrameTS /\ reach' = (g + count') * FrameTS
  BY DEF reach, W!frames
<1> HIDE DEF f, g
<1>4. f + count \in Nat /\ g + count' \in Nat /\ f + count <= g + count'
  <2>1. \A i, j, m, n \in Nat : i <= j /\ m <= n
                                 => i + m \in Nat /\ j + n \in Nat /\ i + m <= j + n
    OBVIOUS
  <2> QED BY <1>1, <1>2, <2>1
<1>5. now' = now /\ count' = count + 1 => g + count' = (f + count) + 1
  BY <1>1, <1>2
<1>6. (f + count) * FrameTS \in Nat /\ (g + count') * FrameTS \in Nat
      /\ (f + count) * FrameTS <= (g + count') * FrameTS
  BY <1>4, StreamConsts, Products
<1>7. ((f + count) + 1) * FrameTS = (f + count) * FrameTS + FrameTS
  BY <1>4, StreamConsts, Products
<1> QED BY <1>3, <1>5, <1>6, <1>7

\* The wall clock in timestamps.
LEMMA Projection ==
  ASSUME MixerInv, StreamInv, ShortCall, anchorTime # W!None
  PROVE  /\ now - anchorTime \in Nat
         /\ W!projectWallclockTS \in W!TS
         /\ pos(W!projectWallclockTS) = W!frames(now - anchorTime) * FrameTS
         /\ pos(W!projectWallclockTS) <= reach
<1> DEFINE f == W!frames(now)
           g == W!frames(now - anchorTime)
<1>1. anchorTime \in Nat /\ anchorTime <= now /\ now \in Nat /\ anchorTS = Offset
  BY StreamTypes DEF StreamInv
<1>2. now - anchorTime \in Nat /\ now - anchorTime <= now
  BY <1>1
<1>3. f \in Nat /\ g \in Nat /\ g <= f
  BY <1>1, <1>2, FramesAre
<1>4. W!projectWallclockTS = (Offset + g * FrameTS) % TSMod
  BY <1>1 DEF W!projectWallclockTS
<1>5. reach = (f + count) * FrameTS /\ count \in Nat
  BY StreamTypes DEF reach
<1> HIDE DEF f, g
<1>6. g <= f + count /\ f + count \in Nat
  BY <1>3, <1>5
<1>7. g * FrameTS \in Nat /\ g * FrameTS <= reach
  BY <1>3, <1>5, <1>6, StreamConsts, Products
<1>8. g * FrameTS < TSMod
  <2>1. TSMod \in Nat
    BY StreamConsts
  <2> QED BY <1>7, <2>1, Reaches
<1>9. pos(Offset) + g * FrameTS = g * FrameTS /\ Offset \in W!TS
  BY <1>7, PosTypes, StreamConsts
<1>10. /\ (Offset + g * FrameTS) % TSMod \in W!TS
       /\ pos((Offset + g * FrameTS) % TSMod) = pos(Offset) + g * FrameTS
  <2>1. pos(Offset) + g * FrameTS < TSMod
    BY <1>8, <1>9
  <2>2. Offset \in 0..TSMod-1 /\ TSMod \in Nat \ {0}
    BY StreamConsts
  <2>3. ((Offset - Offset) % TSMod) + g * FrameTS < TSMod
    BY <2>1 DEF pos
  <2> DEFINE k == g * FrameTS
  <2>4. k \in Nat
    BY <1>7
  <2> HIDE DEF k
  <2>5. /\ (Offset + k) % TSMod \in 0..TSMod-1
        /\ (((Offset + k) % TSMod) - Offset) % TSMod = ((Offset - Offset) % TSMod) + k
    BY <2>2, <2>3, <2>4, WrapAdds DEF k
  <2> QED BY <2>5, StreamConsts DEF pos, k
<1> QED BY <1>2, <1>4, <1>7, <1>9, <1>10 DEF g

LEMMA StreamStarts == MixedInit => StreamInv
<1> SUFFICES ASSUME MixedInit PROVE StreamInv
  OBVIOUS
<1>1. /\ ts = [s \in {Audio} |-> Offset] /\ cur = W!None /\ maxTS = Offset /\ sent = W!None
      /\ anchorTime = W!None /\ count = 0 /\ now = 0 /\ at = "select"
  BY DEF MixedInit, Init
<1>2. ts[Audio] = Offset /\ ts \in [{Audio} -> W!TS]
  BY <1>1, StreamConsts
<1>3. reach \in Nat
  <2>1. W!frames(now) \in Nat
    BY <1>1, FramesAre
  <2>2. W!frames(now) + count \in Nat
    BY <1>1, <2>1
  <2> QED BY <2>2, StreamConsts, Products DEF reach
<1>4. pos(maxTS) = 0 /\ pos(ts[Audio]) = 0
  BY <1>1, <1>2, PosTypes
<1>5. pos(maxTS) <= pos(ts[Audio]) /\ pos(ts[Audio]) <= reach
  BY <1>3, <1>4
<1>6. count \in Nat /\ count <= MaxPackets /\ now <= MaxTime
  BY <1>1, StreamConsts
<1> QED BY <1>1, <1>2, <1>5, <1>6, StreamConsts DEF StreamInv

LEMMA StreamStays ==
  ASSUME MixerInv, StreamInv, UNCHANGED streamOnly,
         now' \in Nat, now <= now', now' <= MaxTime,
         (at' = "write") <=> (at = "write"),
         anchorTime # W!None => firstMix' = firstMix
  PROVE  StreamInv'
<1>1. /\ UNCHANGED <<anchorTime, anchorTS, maxTS, ts, cur, sent, count>>
  BY DEF streamOnly
<1>2. reach \in Nat /\ reach' \in Nat /\ reach <= reach'
  <2>1. count \in Nat /\ count' \in Nat /\ count <= count'
    BY <1>1, StreamTypes
  <2> QED BY <2>1, ReachGrows
<1>3. /\ pos(maxTS)' = pos(maxTS) /\ pos(ts[Audio])' = pos(ts[Audio])
      /\ pos(cur)' = pos(cur) /\ pos(sent)' = pos(sent)
  BY <1>1 DEF pos
<1>4. pos(maxTS)' <= pos(ts[Audio])' /\ pos(ts[Audio])' <= reach'
  <2>1. pos(maxTS) <= pos(ts[Audio]) /\ pos(ts[Audio]) <= reach
    BY DEF StreamInv
  <2>2. pos(ts[Audio]) \in Nat
    BY StreamTypes
  <2> QED BY <1>2, <1>3, <2>1, <2>2
<1>5. cur # W!None => pos(ts[Audio])' <= pos(cur)' /\ pos(cur)' <= reach'
  <2> SUFFICES ASSUME cur # W!None
               PROVE  pos(ts[Audio])' <= pos(cur)' /\ pos(cur)' <= reach'
    OBVIOUS
  <2>1. pos(ts[Audio]) <= pos(cur) /\ pos(cur) <= reach /\ pos(cur) \in Nat
    BY StreamTypes DEF StreamInv
  <2> QED BY <1>2, <1>3, <2>1
<1>6. sent # W!None => pos(ts[Audio])' = pos(sent)' + FrameTS
  BY <1>3 DEF StreamInv
<1>7. anchorTime # W!None => firstMix' # None /\ firstMix' <= anchorTime' /\ anchorTime' <= now'
                             /\ anchorTS' = Offset
  <2> SUFFICES ASSUME anchorTime # W!None
               PROVE  anchorTime <= now'
    BY <1>1 DEF StreamInv
  <2>1. anchorTime \in Nat /\ anchorTime <= now /\ now \in Nat
    BY StreamTypes DEF StreamInv
  <2> QED BY <2>1
<1>8. (cur' # W!None <=> at' = "write") /\ count' \in Nat /\ count' <= MaxPackets
      /\ (cur' # W!None => count' < MaxPackets)
  BY <1>1 DEF StreamInv
<1>9. /\ ts' \in [{Audio} -> W!TS] /\ cur' \in W!TS \cup {W!None} /\ maxTS' \in W!TS
      /\ sent' \in W!TS \cup {W!None} /\ anchorTime' \in Nat \cup {W!None}
      /\ anchorTime' = W!None => ts'[Audio] = Offset /\ maxTS' = Offset /\ cur' \in {W!None, Offset}
  BY <1>1 DEF StreamInv
<1>10. W!TS' = W!TS /\ W!None' = W!None
  BY DEF W!TS, W!None
<1> QED BY <1>1, <1>4, <1>5, <1>6, <1>7, <1>8, <1>9 DEF StreamInv

\* CurTS: the stream's timestamp, unless it jumps to the wall clock ahead of it.
LEMMA CurTSIs ==
  ASSUME MixerInv, StreamInv, ShortCall
  PROVE  /\ W!CurTS(ts[Audio]) \in W!TS
         /\ pos(ts[Audio]) <= pos(W!CurTS(ts[Audio])) /\ pos(W!CurTS(ts[Audio])) <= reach
         /\ \/ W!CurTS(ts[Audio]) = ts[Audio]
            \/ /\ anchorTime # W!None
               /\ W!CurTS(ts[Audio]) = W!projectWallclockTS
<1> DEFINE t == ts[Audio]
           p == W!projectWallclockTS
<1>1. t \in W!TS /\ maxTS \in W!TS /\ pos(t) \in Nat /\ pos(maxTS) \in Nat
      /\ pos(maxTS) <= pos(t) /\ pos(t) <= reach
  BY StreamTypes DEF StreamInv
<1>2. TSMod \in Nat \ {0} /\ Offset \in 0..TSMod-1 /\ W!TS = 0..TSMod-1
      /\ reach \in Nat /\ reach < TSMod \div 2 /\ TSMod \div 2 \in Nat
  BY StreamConsts, Reaches
<1> HIDE DEF t, p
<1>3. ~W!ahead(maxTS, t)
  <2>1. (maxTS - Offset) % TSMod < TSMod \div 2 /\ (t - Offset) % TSMod < TSMod \div 2
    <3>1. pos(maxTS) < TSMod \div 2 /\ pos(t) < TSMod \div 2
      BY <1>1, <1>2
    <3> QED BY <3>1 DEF pos
  <2>2. (maxTS - t) % TSMod \in 1..(TSMod \div 2 - 1)
          <=> (t - Offset) % TSMod < (maxTS - Offset) % TSMod
    BY <1>1, <1>2, <2>1, WrapAhead
  <2>3. ~(pos(t) < pos(maxTS))
    BY <1>1
  <2> QED BY <2>2, <2>3 DEF W!ahead, pos
<1>4. W!CurTS(t) = IF anchorTime # W!None /\ W!tooLate(t) THEN p ELSE t
  BY <1>3 DEF W!CurTS, W!notBehind, p
<1>5. CASE ~(anchorTime # W!None /\ W!tooLate(t))
  BY <1>1, <1>2, <1>4, <1>5 DEF t
<1>6. CASE anchorTime # W!None /\ W!tooLate(t)
  <2>1. p \in W!TS /\ pos(p) <= reach /\ pos(p) \in Nat
    BY <1>6, Projection, PosTypes, StreamConsts DEF p
  <2>2. (p - Offset) % TSMod < TSMod \div 2 /\ (t - Offset) % TSMod < TSMod \div 2
    <3>1. pos(p) < TSMod \div 2 /\ pos(t) < TSMod \div 2
      BY <1>1, <1>2, <2>1
    <3> QED BY <3>1 DEF pos
  <2>3. (p - t) % TSMod \in 1..(TSMod \div 2 - 1)
          <=> (t - Offset) % TSMod < (p - Offset) % TSMod
    BY <1>1, <1>2, <2>1, <2>2, WrapAhead
  <2>4. (p - t) % TSMod \in 1..(TSMod \div 2 - 1)
    BY <1>6 DEF W!tooLate, W!ahead, p
  <2>5. pos(t) < pos(p)
    BY <2>3, <2>4 DEF pos
  <2>6. pos(t) <= pos(p)
    BY <1>1, <2>1, <2>5
  <2> QED BY <1>4, <1>6, <2>1, <2>6 DEF t, p
<1> QED BY <1>5, <1>6

LEMMA StreamOut ==
  ASSUME MixerInv, StreamInv, ShortCall, PayloadOut
  PROVE  StreamInv'
<1>1. /\ at' = "write" /\ cur = W!None /\ count < MaxPackets /\ cur' = W!CurTS(ts[Audio])
      /\ UNCHANGED <<now, anchorTime, anchorTS, maxTS, ts, sent, count, firstMix>>
  BY DEF PayloadOut, WriteDirect, W!WritePayload, clockVars
<1>2. cur' \in W!TS /\ cur' # W!None /\ pos(ts[Audio]) <= pos(cur)' /\ pos(cur)' <= reach
      /\ (anchorTime = W!None => cur' = Offset)
  <2>1. pos(cur)' = pos(W!CurTS(ts[Audio]))
    BY <1>1 DEF pos
  <2>2. anchorTime = W!None => ts[Audio] = Offset
    BY DEF StreamInv
  <2> QED BY <1>1, <2>1, <2>2, CurTSIs, PosTypes
<1>3. reach' = reach /\ pos(maxTS)' = pos(maxTS) /\ pos(ts[Audio])' = pos(ts[Audio])
      /\ pos(sent)' = pos(sent)
  BY <1>1 DEF reach, pos, W!frames
<1>4. W!TS' = W!TS /\ W!None' = W!None
  BY DEF W!TS, W!None
<1>5. /\ ts' \in [{Audio} -> W!TS] /\ cur' \in W!TS \cup {W!None} /\ maxTS' \in W!TS
      /\ sent' \in W!TS \cup {W!None} /\ anchorTime' \in Nat \cup {W!None}
      /\ count' \in Nat /\ count' <= MaxPackets /\ now' <= MaxTime
      /\ (cur' # W!None <=> at' = "write") /\ (cur' # W!None => count' < MaxPackets)
  BY <1>1, <1>2 DEF StreamInv
<1>6. anchorTime' = W!None => ts'[Audio] = Offset /\ maxTS' = Offset /\ cur' \in {W!None, Offset}
  BY <1>1, <1>2 DEF StreamInv
<1>7. anchorTime' # W!None => anchorTS' = Offset /\ firstMix' # None /\ firstMix' <= anchorTime'
                              /\ anchorTime' <= now'
  BY <1>1 DEF StreamInv
<1>8. pos(maxTS)' <= pos(ts[Audio])' /\ pos(ts[Audio])' <= reach'
      /\ pos(ts[Audio])' <= pos(cur)' /\ pos(cur)' <= reach'
      /\ (sent' # W!None => pos(ts[Audio])' = pos(sent)' + FrameTS)
  BY <1>1, <1>2, <1>3 DEF StreamInv
<1> QED BY <1>4, <1>5, <1>6, <1>7, <1>8 DEF StreamInv

\* The timestamp of the frame after the one being written.
LEMMA Advanced ==
  ASSUME MixerInv, StreamInv, ShortCall, cur # W!None
  PROVE  W!advanced \in W!TS /\ pos(W!advanced) = pos(cur) + FrameTS
<1>1. cur \in W!TS /\ pos(cur) \in Nat /\ pos(cur) <= reach /\ count < MaxPackets
  BY StreamTypes DEF StreamInv
<1>2. TSMod \in Nat \ {0} /\ Offset \in 0..TSMod-1 /\ W!TS = 0..TSMod-1 /\ FrameTS \in Nat
  BY StreamConsts
<1>3. pos(cur) + FrameTS < TSMod
  <2> DEFINE x == pos(cur)
             H == TSMod \div 2
  <2>1. x \in Nat /\ x <= reach /\ reach \in Nat /\ reach + FrameTS < H /\ H <= TSMod /\ H \in Nat
    BY <1>1, Reaches
  <2> HIDE DEF x, H
  <2>2. x + FrameTS < TSMod
    BY <1>2, <2>1
  <2> QED BY <2>2 DEF x
<1>4. ((cur - Offset) % TSMod) + FrameTS < TSMod
  BY <1>3 DEF pos
<1>5. /\ (cur + FrameTS) % TSMod \in 0..TSMod-1
      /\ (((cur + FrameTS) % TSMod) - Offset) % TSMod = ((cur - Offset) % TSMod) + FrameTS
  BY <1>1, <1>2, <1>4, WrapAdds
<1> QED BY <1>2, <1>5 DEF W!advanced, pos

LEMMA StreamWritten ==
  ASSUME MixerInv, TimeInv, StreamInv, ShortCall, PayloadWritten, firstMix # None
  PROVE  StreamInv'
<1>0. PICK ok \in BOOLEAN : WriteReturns /\ W!WritePayloadEvent(ok)
  BY DEF PayloadWritten
<1>1. /\ at' = "mix" /\ cur # W!None /\ cur' = W!None /\ count' = count + 1
      /\ UNCHANGED <<now, firstMix>>
      /\ anchorTime' = (IF anchorTime = W!None THEN now ELSE anchorTime)
      /\ anchorTS' = (IF anchorTime = W!None THEN cur ELSE anchorTS)
      /\ maxTS' \in {maxTS, cur} /\ (~ok => maxTS' = maxTS)
      /\ sent' = (IF ok THEN cur ELSE sent)
      /\ ts' = (IF ok THEN [ts EXCEPT ![Audio] = W!advanced] ELSE ts)
  BY <1>0 DEF WriteReturns, W!WritePayloadEvent, W!WriteEvent, clockVars
<1>2. /\ cur \in W!TS /\ pos(cur) \in Nat /\ pos(cur) <= reach /\ count < MaxPackets
      /\ pos(ts[Audio]) <= pos(cur) /\ pos(ts[Audio]) <= reach /\ pos(ts[Audio]) \in Nat
      /\ pos(maxTS) <= pos(ts[Audio]) /\ pos(maxTS) \in Nat
      /\ ts \in [{Audio} -> W!TS]
  BY <1>1, StreamTypes DEF StreamInv
<1>3. now \in Nat /\ count \in Nat /\ FrameTS \in Nat /\ MaxPackets \in Nat
  BY StreamTypes, StreamConsts
<1>4. reach \in Nat /\ reach' = reach + FrameTS
  <2>1. now' \in Nat /\ now <= now' /\ count' \in Nat /\ count <= count' /\ now' = now
    BY <1>1, <1>3
  <2> QED BY <1>1, <2>1, ReachGrows
<1>5. ts' \in [{Audio} -> W!TS]
  BY <1>1, <1>2, Advanced
<1>6. pos(ts[Audio])' = IF ok THEN pos(cur) + FrameTS ELSE pos(ts[Audio])
  <2>1. ok => ts'[Audio] = W!advanced
    BY <1>1, <1>2
  <2>2. ok => pos(ts[Audio])' = pos(W!advanced)
    BY <2>1 DEF pos
  <2>3. ~ok => pos(ts[Audio])' = pos(ts[Audio])
    BY <1>1 DEF pos
  <2> QED BY <1>1, <2>2, <2>3, Advanced
<1>7. pos(maxTS)' \in {pos(maxTS), pos(cur)} /\ (~ok => pos(maxTS)' = pos(maxTS))
  BY <1>1 DEF pos
<1>8. pos(maxTS)' <= pos(ts[Audio])' /\ pos(ts[Audio])' <= reach'
  <2>1. CASE ok
    <3>1. pos(ts[Audio])' = pos(cur) + FrameTS
      BY <1>6, <2>1
    <3>2. pos(maxTS)' <= pos(cur) + FrameTS
      BY <1>2, <1>3, <1>7
    <3> QED BY <1>2, <1>3, <1>4, <3>1, <3>2
  <2>2. CASE ~ok
    <3>1. pos(ts[Audio])' = pos(ts[Audio]) /\ pos(maxTS)' = pos(maxTS)
      BY <1>6, <1>7, <2>2
    <3>2. pos(ts[Audio]) <= reach + FrameTS
      BY <1>2, <1>3, <1>4
    <3> QED BY <1>2, <1>4, <3>1, <3>2
  <2> QED BY <2>1, <2>2
<1>9. sent' # W!None => pos(ts[Audio])' = pos(sent)' + FrameTS
  <2>1. CASE ok
    <3>1. pos(sent)' = pos(cur)
      BY <1>1, <2>1 DEF pos
    <3> QED BY <1>6, <2>1, <3>1
  <2>2. CASE ~ok
    <3>1. pos(sent)' = pos(sent) /\ sent' = sent
      BY <1>1, <2>2 DEF pos
    <3> QED BY <1>6, <2>2, <3>1 DEF StreamInv
  <2> QED BY <2>1, <2>2
<1>10. anchorTime' # W!None /\ anchorTime' \in Nat /\ anchorTS' = Offset
       /\ firstMix' # None /\ firstMix' <= anchorTime' /\ anchorTime' <= now'
  <2>1. CASE anchorTime = W!None
    <3>1. anchorTime' = now /\ anchorTS' = cur /\ now' = now
      BY <1>1, <2>1
    <3>2. cur = Offset
      BY <1>1, <2>1 DEF StreamInv
    <3>3. firstMix <= now
      BY DEF TimeInv
    <3>4. now # W!None /\ now <= now
      BY <1>3 DEF W!None
    <3> QED BY <1>1, <1>3, <3>1, <3>2, <3>3, <3>4
  <2>2. CASE anchorTime # W!None
    BY <1>1, <2>2 DEF StreamInv
  <2> QED BY <2>1, <2>2
<1>11. W!TS' = W!TS /\ W!None' = W!None
  BY DEF W!TS, W!None
<1>12. maxTS' \in W!TS /\ sent' \in W!TS \cup {W!None}
  BY <1>1, <1>2 DEF StreamInv
<1>13. count' \in Nat /\ count' <= MaxPackets /\ now' <= MaxTime
  <2>1. now <= MaxTime
    BY DEF StreamInv
  <2> QED BY <1>1, <1>2, <1>3, <2>1
<1> QED BY <1>1, <1>5, <1>8, <1>9, <1>10, <1>11, <1>12, <1>13 DEF StreamInv

LEMMA StreamStep ==
  ASSUME MixerInv, TimeInv, StreamInv, ShortCall, at = "write" => firstMix # None,
         [MixedNext]_mixedVars
  PROVE  StreamInv'
<1>0. now \in Nat /\ now <= now /\ now <= MaxTime
  BY StreamTypes DEF StreamInv
<1>1. CASE MixStep
  <2>1. UNCHANGED streamOnly /\ now' = now
    BY <1>1 DEF MixStep, MixUpdate, FirstMix, TimedMix, UpdateDone, MixOnce, MixUnlock, clockVars
  <2>2. (at' = "write") <=> (at = "write")
    BY <1>1 DEF MixStep, MixUpdate, FirstMix, TimedMix, UpdateDone, MixOnce, MixUnlock
  <2>3. anchorTime # W!None => firstMix' = firstMix
    <3> SUFFICES ASSUME anchorTime # W!None PROVE firstMix' = firstMix
      OBVIOUS
    <3>1. lastMixEndTs # None
      BY DEF StreamInv, TimeInv
    <3> QED BY <1>1, <3>1 DEF MixStep, MixUpdate, FirstMix, TimedMix, UpdateDone, MixOnce,
                              MixUnlock, clockVars
  <2> QED BY <1>0, <2>1, <2>2, <2>3, StreamStays
<1>2. CASE PayloadOut
  BY <1>2, StreamOut
<1>3. CASE PayloadWritten
  <2>1. at = "write"
    BY <1>3 DEF PayloadWritten, WriteReturns
  <2> QED BY <1>3, <2>1, StreamWritten
<1>4. CASE MixedClock
  <2>1. /\ now < MaxTime /\ now' = now + 1 /\ at' = at /\ firstMix' = firstMix
        /\ UNCHANGED <<anchorTime, anchorTS, maxTS, seq, ts, cur, wire, sent, count>>
    BY <1>4 DEF MixedClock, Clock, W!WriterClock, mixVars
  <2>2. now' \in Nat /\ now <= now' /\ now' <= MaxTime
    BY <1>0, <2>1, StreamConsts
  <2> QED BY <2>1, <2>2, StreamStays DEF streamOnly
<1>5. CASE UNCHANGED mixedVars
  <2>1. UNCHANGED <<streamOnly, now, at, firstMix>>
    BY <1>5 DEF mixedVars, vars, clockVars, mixVars
  <2> QED BY <1>0, <2>1, StreamStays
<1> QED BY <1>1, <1>2, <1>3, <1>4, <1>5 DEF MixedNext

\* What Led says, and of which numbers.
LEMMA LedIs ==
  ASSUME MixerInv, TimeInv
  PROVE  /\ \A n \in Nat : n * TickerDur \in Nat
         /\ (2 * BufferFrames + 1) * TickerDur = (BufferFrames * TickerDur + BufferFrames * TickerDur) + TickerDur
         /\ BufferFrames * TickerDur \in Nat
         /\ firstMix # None => lastMixEndTs \in Nat /\ firstMix \in Nat /\ now \in Nat
<1>1. \A x, y \in Nat : x * y \in Nat /\ (2 * x + 1) * y = (x * y + x * y) + y
  OBVIOUS
<1> QED BY <1>1, StreamConsts DEF MixerInv, MixerTypeOK, TimeInv

LEMMA LedLater ==
  ASSUME MixerInv, TimeInv, UNCHANGED <<lastMixEndTs, firstMix>>, now' \in Nat, now <= now',
         NEW n \in Nat, Led(n)
  PROVE  Led(n)'
<1> DEFINE c == (2 * BufferFrames + 1) * TickerDur + half
           d == BufferFrames * TickerDur + half
           N == n * TickerDur
<1>1. N \in Nat
  BY StreamConsts, Products
<1>2. c \in Nat /\ d \in Nat
  BY LedIs, StreamConsts
<1>3. CASE firstMix = None
  BY <1>3 DEF Led
<1>4. CASE firstMix # None
  <2>1. lastMixEndTs \in Nat /\ firstMix \in Nat /\ now \in Nat
    BY <1>4, LedIs
  <2>2. N <= (lastMixEndTs - firstMix) + c \/ N <= (now - firstMix) + d
    BY <1>4 DEF Led
  <2> HIDE DEF c, d, N
  <2>3. PICK t \in Nat : t = now'
    OBVIOUS
  <2>4. N <= (lastMixEndTs - firstMix) + c \/ N <= (t - firstMix) + d
    <3>1. now <= t
      BY <2>3
    <3> QED BY <1>1, <1>2, <2>1, <2>2, <3>1
  <2> QED BY <1>4, <2>3, <2>4 DEF Led, c, d, N, half
<1> QED BY <1>3, <1>4

\* Steps that leave the timestamps and their frames alone.
LEMMA LeadAside ==
  ASSUME MixerInv, TimeInv, LeadInv, now' \in Nat, now <= now',
         UNCHANGED <<lastMixEndTs, firstMix, ts, cur>>, unstamped' = unstamped,
         at' \in {"inputs", "send", "write"} => left' < BufferFrames /\ firstMix # None
  PROVE  LeadInv'
<1>1. PICK m \in Nat, k \in Nat :
        /\ pos(ts[Audio]) = m * FrameTS /\ m + unstamped <= k /\ Led(k)
        /\ cur # W!None => \E n \in Nat : /\ pos(cur) = n * FrameTS /\ m <= n
                                          /\ (n + 1) + unstamped <= k
  BY DEF LeadInv
<1>2. pos(ts[Audio])' = pos(ts[Audio]) /\ pos(cur)' = pos(cur) /\ W!None' = W!None
  BY DEF pos, W!None
<1>3. Led(k)'
  BY <1>1, LedLater
<1> QED BY <1>1, <1>2, <1>3 DEF LeadInv

LEMMA LeadStarts == MixedInit => LeadInv
<1> SUFFICES ASSUME MixedInit PROVE LeadInv
  OBVIOUS
<1>1. /\ ts[Audio] = Offset /\ cur = W!None /\ at = "select" /\ left = 0 /\ firstMix = None
  BY DEF MixedInit, Init
<1>2. pos(ts[Audio]) = 0 * FrameTS /\ 0 \in Nat
  BY <1>1, PosTypes, StreamConsts
<1>3. unstamped = 0 /\ 0 + unstamped <= 0
  BY <1>1 DEF unstamped
<1>4. Led(0)
  BY <1>1 DEF Led
<1> QED BY <1>1, <1>2, <1>3, <1>4 DEF LeadInv

LEMMA LeadFirst ==
  ASSUME MixerInv, TimeInv, StreamInv, LeadInv, FirstMix, UNCHANGED streamOnly
  PROVE  LeadInv'
<1>1. PICK m \in Nat, k \in Nat : pos(ts[Audio]) = m * FrameTS /\ m + unstamped <= k /\ Led(k)
  BY DEF LeadInv
<1>2. /\ at = "select" /\ left = 0 /\ firstMix = None /\ cur = W!None
      /\ at' = "mix" /\ left' = 1 /\ firstMix' = now /\ lastMixEndTs' = now /\ now' = now
      /\ ts' = ts /\ cur' = cur
  BY DEF FirstMix, TimeInv, StreamInv, streamOnly
<1>3. now \in Nat /\ now # None
  BY DEF MixerInv, MixerTypeOK, None
<1>4. m = 0
  <2>1. k = 0 /\ unstamped = 0
    BY <1>1, <1>2 DEF Led, unstamped
  <2> QED BY <1>1, <2>1
<1>5. pos(ts[Audio])' = m * FrameTS /\ W!None' = W!None
  BY <1>1, <1>2 DEF pos, W!None
<1>6. m + unstamped' <= 1
  BY <1>2, <1>4 DEF unstamped
<1>7. Led(1)'
  <2>1. 1 * TickerDur <= (now - now) + ((2 * BufferFrames + 1) * TickerDur + half)
    <3> DEFINE b == BufferFrames * TickerDur
               c == (2 * BufferFrames + 1) * TickerDur
    <3>1. b \in Nat /\ c = (b + b) + TickerDur /\ TickerDur \in Nat /\ half \in Nat
      BY LedIs, StreamConsts
    <3> HIDE DEF b, c
    <3>2. 1 * TickerDur <= (now - now) + (c + half)
      BY <1>3, <3>1
    <3> QED BY <3>2 DEF c
  <2> QED BY <1>2, <1>3, <2>1 DEF Led, half
<1> QED BY <1>2, <1>4, <1>5, <1>6, <1>7 DEF LeadInv

\* A burst: on the timeline, with a reset, or after a jump to the wall clock.
LEMMA BurstLed ==
  ASSUME MixerInv, TimeInv, TimedMix, NEW k \in Nat, Led(k)
  PROVE  \E n \in Nat : n = k + burst /\ Led(n)'
<1> DEFINE b == BufferFrames * TickerDur
           c == (2 * BufferFrames + 1) * TickerDur
           N == k * TickerDur
           Q == periods * TickerDur
           R == burst * TickerDur
           T == TickerDur
<1>1. /\ at = "select" /\ lastMixEndTs # None /\ firstMix # None
      /\ UNCHANGED <<now, firstMix>>
  BY DEF TimedMix, TimeInv
<1>2. /\ now \in Nat /\ firstMix \in Nat /\ lastMixEndTs \in Nat /\ fuzz \in Nat /\ fuzz < T
      /\ T \in Nat \ {0} /\ BufferFrames \in Nat \ {0} /\ half \in Nat
      /\ b \in Nat /\ c = (b + b) + T /\ N \in Nat
  BY <1>1, LedIs, Sizes, StreamConsts DEF fuzz
<1>3. /\ periods \in Nat /\ burst \in 0..BufferFrames /\ Q \in Nat
      /\ lastMixEndTs <= now + fuzz
      /\ lastMixEndTs + Q <= now + fuzz
  <2>1. lastMixEndTs <= now + fuzz
    BY <1>1 DEF TimeInv
  <2> QED BY <1>1, <2>1, PeriodsAre DEF MixerInv
<1>4. firstMix' \in Nat /\ lastMixEndTs' \in Nat /\ lastMixEndTs' + T > now + fuzz
  BY TimeTimed
<1>5. k + burst \in Nat /\ (k + burst) * T = N + R /\ R \in Nat /\ R <= b
  <2>1. burst \in Nat /\ burst <= BufferFrames
    BY <1>2, <1>3
  <2> QED BY <1>2, <2>1, Times, Products
<1>6. N <= (lastMixEndTs - firstMix) + (c + half) \/ N <= (now - firstMix) + (b + half)
  BY <1>1 DEF Led
<1>7. \/ lastMixEndTs' = lastMixEndTs + Q /\ R = Q
      \/ lastMixEndTs' = now /\ R + T <= Q
  <2>1. CASE periods <= BufferFrames
    <3>1. lastMixEndTs' = lastMixEndTs + Q
      BY <1>2, <1>3, <2>1 DEF TimedMix, mixUntil
    <3>2. burst = periods
      BY <1>2, <1>3, <2>1 DEF burst, Least
    <3> QED BY <3>1, <3>2
  <2>2. CASE ~(periods <= BufferFrames)
    <3>1. lastMixEndTs' = now
      BY <1>2, <1>3, <2>2 DEF TimedMix
    <3>2. burst = BufferFrames
      BY <2>2 DEF burst, Least
    <3>3. burst \in Nat /\ burst + 1 \in Nat /\ burst + 1 <= periods
      BY <1>2, <1>3, <2>2, <3>2
    <3>4. (burst + 1) * T <= Q /\ (burst + 1) * T = R + T
      BY <1>2, <1>3, <3>3, Products
    <3> QED BY <3>1, <3>4
  <2> QED BY <2>1, <2>2
<1> HIDE DEF b, c, N, Q, R, T
<1>8. PICK l \in Nat : l = lastMixEndTs'
  BY <1>4
<1>9. N + R <= (l - firstMix) + (c + half)
  <2>1. CASE N <= (lastMixEndTs - firstMix) + (c + half)
    <3>1. CASE l = lastMixEndTs + Q /\ R = Q
      BY <1>2, <1>3, <1>5, <2>1, <3>1
    <3>2. CASE l = now /\ R + T <= Q
      <4>1. lastMixEndTs + R <= l
        BY <1>2, <1>3, <1>5, <3>2
      <4> QED BY <1>2, <1>5, <2>1, <4>1
    <3> QED BY <1>7, <1>8, <3>1, <3>2
  <2>2. CASE N <= (now - firstMix) + (b + half)
    <3>1. l + T > now + fuzz
      BY <1>4, <1>8
    <3> QED BY <1>2, <1>5, <2>2, <3>1
  <2> QED BY <1>6, <2>1, <2>2
<1>10. (k + burst) * TickerDur <= (lastMixEndTs' - firstMix') + ((2 * BufferFrames + 1) * TickerDur + half)
  BY <1>1, <1>5, <1>8, <1>9 DEF c, T
<1>11. PICK n \in Nat : n = k + burst
  BY <1>5
<1>12. Led(n)'
  BY <1>1, <1>10, <1>11 DEF Led, half
<1> QED BY <1>11, <1>12

LEMMA LeadTimed ==
  ASSUME MixerInv, TimeInv, StreamInv, LeadInv, TimedMix, UNCHANGED streamOnly
  PROVE  LeadInv'
<1>1. PICK m \in Nat, k \in Nat : pos(ts[Audio]) = m * FrameTS /\ m + unstamped <= k /\ Led(k)
  BY DEF LeadInv
<1>2. /\ at = "select" /\ left = 0 /\ cur = W!None /\ at' = "mix" /\ left' = burst
      /\ ts' = ts /\ cur' = cur
  BY DEF TimedMix, TimeInv, StreamInv, streamOnly
<1>3. PICK n \in Nat : n = k + burst /\ Led(n)'
  BY <1>1, BurstLed
<1>4. burst \in 0..BufferFrames
  BY PeriodsAre DEF TimedMix, MixerInv, TimeInv
<1>5. pos(ts[Audio])' = m * FrameTS /\ W!None' = W!None
  BY <1>1, <1>2 DEF pos, W!None
<1>6. m + unstamped' <= n
  <2>1. unstamped = 0 /\ unstamped' = burst
    BY <1>2, <1>4, StreamConsts DEF unstamped
  <2> QED BY <1>1, <1>3, <1>4, <2>1, StreamConsts
<1> QED BY <1>2, <1>3, <1>5, <1>6 DEF LeadInv

\* WritePayload enters with the timestamp of the stream or with the wall clock's.
LEMMA LeadOut ==
  ASSUME MixerInv, TimeInv, StreamInv, LeadInv, ShortCall, PayloadOut
  PROVE  LeadInv'
<1>1. PICK m \in Nat, k \in Nat : pos(ts[Audio]) = m * FrameTS /\ m + unstamped <= k /\ Led(k)
  BY DEF LeadInv
<1>2. /\ at = "send" /\ at' = "write" /\ left' = left /\ cur = W!None /\ ts' = ts
      /\ cur' = W!CurTS(ts[Audio])
      /\ UNCHANGED <<now, firstMix, lastMixEndTs>>
  BY DEF PayloadOut, WriteDirect, W!WritePayload, clockVars
<1>3. left \in Nat /\ left < BufferFrames /\ firstMix # None /\ BufferFrames \in Nat
  BY <1>2, StreamTypes, StreamConsts DEF LeadInv
<1>4. unstamped = left + 1 /\ unstamped' = left
  BY <1>2, <1>3 DEF unstamped
<1>5. pos(ts[Audio])' = m * FrameTS /\ pos(cur)' = pos(W!CurTS(ts[Audio]))
  BY <1>1, <1>2 DEF pos
<1>6. at' \in {"inputs", "send", "write"} => left' < BufferFrames /\ firstMix' # None
  BY <1>2, <1>3
<1>7. now \in Nat /\ now' \in Nat /\ now <= now'
  BY <1>2, StreamTypes
<1>8. ASSUME NEW n \in Nat, NEW l \in Nat, pos(cur)' = n * FrameTS, m <= n,
             (n + 1) + left <= l, Led(l)'
      PROVE  LeadInv'
  <2>1. m + unstamped' <= l
    BY <1>3, <1>4, <1>8
  <2>2. (n + 1) + unstamped' <= l
    BY <1>4, <1>8
  <2> QED BY <1>5, <1>6, <1>8, <2>1, <2>2 DEF LeadInv
<1>9. CASE W!CurTS(ts[Audio]) = ts[Audio]
  <2>1. pos(cur)' = m * FrameTS /\ m <= m
    BY <1>1, <1>5, <1>9
  <2>2. (m + 1) + left <= k
    BY <1>1, <1>3, <1>4
  <2>3. Led(k)'
    BY <1>1, <1>2, <1>7, LedLater
  <2> QED BY <1>8, <2>1, <2>2, <2>3
<1>10. CASE anchorTime # W!None /\ W!CurTS(ts[Audio]) = W!projectWallclockTS
  <2> DEFINE e == now - anchorTime
             n == W!frames(e)
             l == (n + 1) + left
             b == BufferFrames * TickerDur
             N == n * TickerDur
  <2>1. /\ e \in Nat /\ pos(W!projectWallclockTS) = n * FrameTS
        /\ anchorTime \in Nat /\ firstMix \in Nat /\ firstMix <= anchorTime
    <3>1. firstMix \in Nat
      BY <1>3, LedIs
    <3> QED BY <1>10, <3>1, Projection DEF StreamInv
  <2>2. n \in Nat /\ N <= e + half
    BY <2>1, FramesAre
  <2>3. pos(ts[Audio]) <= pos(W!CurTS(ts[Audio]))
    BY CurTSIs
  <2> HIDE DEF n
  <2>4. m <= n
    <3>1. m * FrameTS <= n * FrameTS
      BY <1>1, <1>10, <2>1, <2>3
    <3>2. \A x, y \in Nat, f \in Nat \ {0} : x * f <= y * f => x <= y
      <4>1. SUFFICES ASSUME NEW x \in Nat, NEW y \in Nat, NEW f \in Nat \ {0}, ~(x <= y)
                     PROVE  ~(x * f <= y * f)
        OBVIOUS
      <4>2. y + 1 \in Nat /\ y + 1 <= x
        BY <4>1
      <4>3. (y + 1) * f <= x * f /\ (y + 1) * f = y * f + f /\ x * f \in Nat /\ y * f \in Nat
        BY <4>2, Products
      <4> QED BY <4>3
    <3> QED BY <2>2, <3>1, <3>2, StreamConsts
  <2>5. l \in Nat /\ (n + 1) + left <= l
    BY <1>3, <2>2
  <2>6. l * TickerDur = N + (left + 1) * TickerDur /\ (left + 1) * TickerDur <= b
    <3>1. l = n + (left + 1) /\ left + 1 \in Nat /\ left + 1 <= BufferFrames
      BY <1>3, <2>2
    <3> QED BY <1>3, <2>2, <3>1, Times, Products, StreamConsts
  <2>7. N \in Nat /\ (left + 1) * TickerDur \in Nat /\ b \in Nat /\ half \in Nat
    BY <1>3, <2>2, Products, StreamConsts
  <2> DEFINE r == (left + 1) * TickerDur
             t == l * TickerDur
  <2>8. t = N + r /\ r <= b /\ r \in Nat
    BY <2>6, <2>7
  <2> HIDE DEF N, l, b, r, t
  <2>9. t <= (now - firstMix) + (b + half)
    <3>1. e <= now - firstMix
      <4>1. \A x, y, z \in Int : x <= y => z - y <= z - x
        OBVIOUS
      <4> QED BY <1>7, <2>1, <4>1
    <3>2. now - firstMix \in Int /\ e \in Nat
      BY <1>7, <2>1
    <3> DEFINE d == now - firstMix
    <3>3. e <= d /\ d \in Int
      BY <3>1, <3>2
    <3> HIDE DEF d, e
    <3>4. t <= d + (b + half)
      BY <2>2, <2>7, <2>8, <3>2, <3>3
    <3> QED BY <3>4 DEF d
  <2>10. PICK q \in Nat : q = l
    BY <2>5
  <2>11. Led(q)'
    <3>1. q * TickerDur <= (now - firstMix) + (BufferFrames * TickerDur + half)
      BY <2>9, <2>10 DEF t, b
    <3> QED BY <1>2, <1>3, <3>1 DEF Led, half
  <2>12. pos(cur)' = n * FrameTS
    BY <1>5, <1>10, <2>1
  <2>13. (n + 1) + left <= q
    BY <2>5, <2>10
  <2> QED BY <1>8, <2>2, <2>4, <2>11, <2>12, <2>13
<1> QED BY <1>9, <1>10, CurTSIs

\* A frame that is written takes the place planned for it; one that fails gives it up.
LEMMA LeadWritten ==
  ASSUME MixerInv, TimeInv, StreamInv, LeadInv, ShortCall, PayloadWritten
  PROVE  LeadInv'
<1>0. PICK ok \in BOOLEAN : WriteReturns /\ W!WritePayloadEvent(ok)
  BY DEF PayloadWritten
<1>1. /\ at = "write" /\ at' = "mix" /\ left' = left /\ cur # W!None /\ cur' = W!None
      /\ UNCHANGED <<now, firstMix, lastMixEndTs>>
      /\ ts' = (IF ok THEN [ts EXCEPT ![Audio] = W!advanced] ELSE ts)
  BY <1>0 DEF WriteReturns, W!WritePayloadEvent, clockVars
<1>2. PICK m \in Nat, k \in Nat :
        /\ pos(ts[Audio]) = m * FrameTS /\ m + unstamped <= k /\ Led(k)
        /\ cur # W!None => \E n \in Nat : /\ pos(cur) = n * FrameTS /\ m <= n
                                          /\ (n + 1) + unstamped <= k
  BY DEF LeadInv
<1>3. PICK n \in Nat : pos(cur) = n * FrameTS /\ m <= n /\ (n + 1) + unstamped <= k
  BY <1>1, <1>2
<1>4. unstamped = left /\ unstamped' = left /\ left \in Nat /\ W!None' = W!None
  BY <1>1, StreamTypes, StreamConsts DEF unstamped, W!None
<1>5. Led(k)'
  <2>1. now' \in Nat /\ now <= now'
    BY <1>1, StreamTypes
  <2> QED BY <1>1, <1>2, <2>1, LedLater
<1>6. CASE ok
  <2>1. ts'[Audio] = W!advanced
    BY <1>1, <1>6 DEF StreamInv
  <2>2. pos(ts[Audio])' = pos(cur) + FrameTS
    BY <1>1, <2>1, Advanced DEF pos
  <2>3. n + 1 \in Nat /\ (n + 1) * FrameTS = n * FrameTS + FrameTS
    BY Products, StreamConsts
  <2>4. pos(ts[Audio])' = (n + 1) * FrameTS /\ (n + 1) + unstamped' <= k
    BY <1>3, <1>4, <2>2, <2>3
  <2> QED BY <1>1, <1>4, <1>5, <2>3, <2>4 DEF LeadInv
<1>7. CASE ~ok
  <2>1. pos(ts[Audio])' = m * FrameTS
    BY <1>1, <1>2, <1>7 DEF pos
  <2>2. m + unstamped' <= k
    BY <1>2, <1>4
  <2> QED BY <1>1, <1>4, <1>5, <2>1, <2>2 DEF LeadInv
<1> QED BY <1>6, <1>7

LEMMA LeadStep ==
  ASSUME MixerInv, TimeInv, StreamInv, LeadInv, ShortCall, [MixedNext]_mixedVars
  PROVE  LeadInv'
<1>0. now \in Nat /\ now <= now /\ left \in 0..BufferFrames /\ BufferFrames \in Nat
  BY StreamTypes, StreamConsts
<1>1. CASE MixStep
  <2>0. UNCHANGED streamOnly
    BY <1>1 DEF MixStep
  <2>1. CASE FirstMix
    BY <2>0, <2>1, LeadFirst
  <2>2. CASE TimedMix
    BY <2>0, <2>2, LeadTimed
  <2>3. CASE UpdateDone
    <3>1. /\ at = "mix" /\ at' = "select" /\ left' = left
          /\ UNCHANGED <<now, lastMixEndTs, firstMix, ts, cur>>
      BY <2>0, <2>3 DEF UpdateDone, clockVars, streamOnly
    <3>2. unstamped' = unstamped
      BY <3>1 DEF unstamped
    <3> QED BY <1>0, <3>1, <3>2, LeadAside
  <2>4. CASE MixOnce
    <3>1. /\ at = "mix" /\ left > 0 /\ at' = "inputs" /\ left' = left - 1
          /\ UNCHANGED <<now, lastMixEndTs, firstMix, ts, cur>>
      BY <2>0, <2>4 DEF MixOnce, clockVars, streamOnly
    <3>2. unstamped' = unstamped
      BY <1>0, <3>1 DEF unstamped
    <3>3. left' < BufferFrames
      BY <1>0, <3>1
    <3>4. firstMix # None
      <4>1. planned # 0
        <5>1. mixCnt \in Nat
          BY DEF MixerInv, MixerTypeOK
        <5> QED BY <1>0, <3>1, <5>1 DEF planned
      <4> QED BY <4>1 DEF TimeInv
    <3> QED BY <1>0, <3>1, <3>2, <3>3, <3>4, LeadAside
  <2>5. CASE MixUnlock
    <3>1. /\ at = "inputs" /\ at' = "send" /\ left' = left
          /\ UNCHANGED <<now, lastMixEndTs, firstMix, ts, cur>>
      BY <2>0, <2>5 DEF MixUnlock, clockVars, streamOnly
    <3>2. unstamped' = unstamped /\ left' < BufferFrames /\ firstMix # None
      BY <3>1 DEF unstamped, LeadInv
    <3> QED BY <1>0, <3>1, <3>2, LeadAside
  <2> QED BY <1>1, <2>1, <2>2, <2>3, <2>4, <2>5 DEF MixStep, MixUpdate
<1>2. CASE PayloadOut
  BY <1>2, LeadOut
<1>3. CASE PayloadWritten
  BY <1>3, LeadWritten
<1>4. CASE MixedClock
  <2>1. /\ now' = now + 1
        /\ UNCHANGED <<lastMixEndTs, firstMix, ts, cur, at, left>>
    BY <1>4 DEF MixedClock, Clock, W!WriterClock, mixVars
  <2>2. now' \in Nat /\ now <= now' /\ unstamped' = unstamped
    BY <1>0, <2>1 DEF unstamped
  <2> QED BY <2>1, <2>2, LeadAside DEF LeadInv
<1>5. CASE UNCHANGED mixedVars
  <2>1. UNCHANGED <<now, lastMixEndTs, firstMix, ts, cur, at, left>>
    BY <1>5 DEF mixedVars, vars, clockVars, mixVars, streamOnly
  <2>2. unstamped' = unstamped
    BY <2>1 DEF unstamped
  <2> QED BY <1>0, <2>1, <2>2, LeadAside DEF LeadInv
<1> QED BY <1>1, <1>2, <1>3, <1>4, <1>5 DEF MixedNext

LEMMA StreamInvariant ==
  ASSUME ShortCall
  PROVE  MixedSpec => [](MixerInv /\ TimeInv /\ StreamInv /\ LeadInv)
<1>1. MixerInv /\ TimeInv /\ StreamInv /\ LeadInv /\ [MixedNext]_mixedVars
        => StreamInv' /\ LeadInv'
  BY StreamStep, LeadStep DEF LeadInv
<1> QED BY <1>1, StreamStarts, LeadStarts, MixedRunsMixer, MixerInvariant, TimeInvariant, PTL
        DEF MixedSpec

\* The timestamps that the mixer's frames are written with lead real time by less than
\* two bursts of mixUpdate, wherever the goroutine is held up and however often CurTS
\* has jumped to the wall clock.
THEOREM LeadBoundedHolds ==
  ASSUME ShortCall
  PROVE  MixedSpec => []LeadBounded
<1>1. MixerInv /\ TimeInv /\ StreamInv /\ LeadInv => LeadBounded
  <2> SUFFICES ASSUME MixerInv, TimeInv, StreamInv, LeadInv, sent # W!None
               PROVE  stamped <= begun + 2 * BufferFrames
    BY DEF LeadBounded
  <2>1. PICK m \in Nat, k \in Nat :
          pos(ts[Audio]) = m * FrameTS /\ m + unstamped <= k /\ Led(k)
    BY DEF LeadInv
  <2>2. FrameTS \in Nat \ {0} /\ TickerDur \in Nat \ {0} /\ BufferFrames \in Nat \ {0}
        /\ half \in Nat /\ pos(sent) \in Nat /\ pos(ts[Audio]) = pos(sent) + FrameTS
    BY StreamConsts, StreamTypes DEF StreamInv
  <2>3. m <= k
    <3>1. unstamped \in Nat
      BY StreamTypes, StreamConsts DEF unstamped
    <3> QED BY <2>1, <3>1
  <2>4. m # 0 /\ k # 0
    <3>1. 0 * FrameTS = 0
      BY <2>2
    <3> QED BY <2>1, <2>2, <2>3, <3>1
  <2>5. stamped = m - 1
    <3> DEFINE s == m - 1
    <3>1. s \in Nat /\ s + 1 = m
      BY <2>4
    <3> HIDE DEF s
    <3>2. m * FrameTS = s * FrameTS + FrameTS /\ s * FrameTS \in Nat
      BY <2>2, <3>1, Products
    <3>3. pos(sent) = s * FrameTS
      BY <2>1, <2>2, <3>2
    <3>4. stamped = (s * FrameTS) \div FrameTS
      BY <3>3 DEF stamped, pos
    <3>5. \A f \in Nat \ {0}, x \in Nat : (x * f) \div f = x
      OBVIOUS
    <3> QED BY <2>2, <3>1, <3>4, <3>5 DEF s
  <2>6. firstMix # None
    BY <2>1, <2>4 DEF Led
  <2>7. lastMixEndTs \in Nat /\ firstMix \in Nat /\ now \in Nat /\ firstMix <= now
        /\ lastMixEndTs <= now + fuzz /\ fuzz \in Nat /\ fuzz + half < TickerDur
    <3>1. lastMixEndTs <= now + fuzz /\ firstMix <= now
      BY <2>6 DEF TimeInv
    <3>2. fuzz \in Nat /\ fuzz + half < TickerDur
      BY <2>2 DEF fuzz, half
    <3> QED BY <2>6, <3>1, <3>2, LedIs
  <2> DEFINE d == now - firstMix
             e == d \div TickerDur
             b == BufferFrames * TickerDur
             c == (2 * BufferFrames + 1) * TickerDur
             N == k * TickerDur
             u == (e + 2 * BufferFrames) + 3
  <2>8. d \in Nat
    BY <2>7
  <2> HIDE DEF d
  <2>9. e \in Nat /\ d < (e + 1) * TickerDur
    <3>1. \A x \in Nat, y \in Nat \ {0} : x \div y \in Nat /\ x < ((x \div y) + 1) * y
      OBVIOUS
    <3> QED BY <2>2, <2>8, <3>1
  <2> HIDE DEF e
  <2>10. c = (b + b) + TickerDur /\ b \in Nat /\ N \in Nat
    BY <2>1, LedIs
  <2>11. N <= (lastMixEndTs - firstMix) + (c + half) \/ N <= d + (b + half)
    BY <2>1, <2>6 DEF Led, d
  <2>12. u * TickerDur = ((e + 1) * TickerDur + (b + b)) + (TickerDur + TickerDur)
    <3>1. \A x, y, z \in Nat : ((x + 2 * y) + 3) * z = ((x + 1) * z + (y * z + y * z)) + (z + z)
      OBVIOUS
    <3> QED BY <2>2, <2>9, <3>1
  <2>13. N < u * TickerDur
    <3> DEFINE g == (e + 1) * TickerDur
    <3>1. g \in Nat /\ d < g
      BY <2>2, <2>9
    <3>2. u * TickerDur = (g + (b + b)) + (TickerDur + TickerDur)
      BY <2>12
    <3>3. lastMixEndTs - firstMix <= d + fuzz
      BY <2>7 DEF d
    <3> HIDE DEF g, b, c, N, u
    <3>4. N <= (d + fuzz) + (c + half) \/ N <= d + (b + half)
      BY <2>2, <2>7, <2>8, <2>10, <2>11, <3>3
    <3> QED BY <2>2, <2>7, <2>8, <2>10, <3>1, <3>2, <3>4
  <2>14. k < u
    <3>1. u \in Nat
      BY <2>2, <2>9
    <3> HIDE DEF u
    <3>2. u <= k => u * TickerDur <= N
      BY <2>1, <2>2, <3>1, Products
    <3>3. u * TickerDur \in Nat
      BY <2>2, <3>1, Products
    <3> QED BY <2>1, <2>10, <2>13, <3>1, <3>2, <3>3
  <2>15. begun = 1 + e
    BY DEF begun, e, d
  <2> QED BY <2>1, <2>2, <2>3, <2>4, <2>5, <2>9, <2>14, <2>15
<1> QED BY <1>1, StreamInvariant, PTL
=============================================================================
