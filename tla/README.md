# TLA+ models of media-sdk

Models, model-checking runs and machine-checked proofs for the Go media library
in `src/`: jitter buffer and its RTP handler, mixer, ring buffer, writers and
pipe, resamplers, RTP and SRTP sessions, RTP streams, DTMF, offer and answer.
Every definition is a translation of source lines, listed in `PROJECT.json` under
`map`; every run, mutant, finding, hazard and theorem is listed there too.

## 1. Inventory of the system

The library is a set of building blocks that a media server connects: RTP
packets come in through a session, are put in order by a jitter buffer and
decoded; PCM frames are written through chains of `Writer`s, mixed, encoded and
written to RTP streams again.

| Component (source) | State | Operations | What makes it correct |
|---|---|---|---|
| Jitter buffer (`jitter/`) | list of packets, `initialized`, `prevSN`, `ssrc`, timer, counters, `lineVote` | `Push`, `Flush`, `UpdateLatency`, `Close`, timer goroutine | packets are conserved, emitted once, in order and as whole samples; every loss is counted and reported; nothing is stranded |
| Ring buffer (`ring/`) | slots, read and write index, empty flag | `Push`, `TryPop`, `TryPeek`, `Read`, `Write` | it is a queue that discards its oldest elements |
| Mixer (`mixer/`) | inputs and their rings, mixing timeline, frame in the making, output channel | `NewInput`, `RemoveInput`, `Input.WriteSample`, ticker goroutine, writer goroutine, `Stop` | samples are conserved and played in order; mixing follows real time; nobody waits for the sink with the lock; it ends |
| RTP streams (`rtp/rtp.go`) | sequence number, latest timestamp, anchor of the wall clock, one timestamp per stream | `NewStream`, `WritePayload`, `WritePayloadAtCurrent`, `SyncTimestamp` | consecutive numbers, timestamps that advance, one clock for audio and events |
| RTP session (`rtp/session.go`) | streams by SSRC, a queue and an offered buffer per stream | `AcceptStream`, `ReadRTP`, `Close` | packets reach the reader in order; nobody waits for ever |
| Media pipe (`pipe.go`) | the writer under `wrMu`, `done`, the errors of both ends | `WriteSample`, `ReadSample`, `CloseWithError` of either end | counts agree on both sides, each end gets the other's error, close wakes everybody |
| Frame buffers and writers (`buffers.go`, `media.go`) | partial frame, attached writer, `disabled` | `FullFrames`, `SwitchWriter`, `MultiWriter` | samples are neither lost nor doubled in the chain; a frame reaches every attached writer or the caller gets an error |
| DTMF (`dtmf/`) | the digit being written | `Write`, `Decode`, `DecodeRTP`, `DecodeRTPWithEnd` | a receiver gets each digit once, apart from the next, through late ticks and lost packets |
| RTP handlers (`rtp/mux.go`, `rtp/jitter.go`) | the registered handler, a channel of one error | `Mux.HandleRTP`, `Register`, `HandleJitter`, `Close` | a removed handler gets no more than what was on its way; errors are returned |
| Port search (`rtp/listen.go`) | the current port, the tries left | `ListenUDPPortRange`, `ListenUDPEvenPortRange` | each port of the range is tried and no other |
| Resamplers (`resampler_beep.go`, `resample_beep.go`, `resample_soxr.go`) | two buffers and a position; collected output and the frame size | `WriteSample`, `Stream`, `Resample`, `Close` | each sample from the samples around its place; all output forwarded, in whole frames |
| SRTP session (`srtp/`) | accepted streams | `AcceptStream`, `Close` | `Close` ends every reader |
| SDP offer and answer, codec registry (`sdp/`, `codecs.go`) | registered and enabled codecs | `SetEnabled`, `NewOffer`, `Answer`, `Apply` | both sides choose the same codec, events and keys; what is answered can be applied |
| Sample formats, G.711, codec bindings, tones, WebM | little or none of their own | conversions | round trips and ranges |

Interactions: the mixer's inputs are ring buffers; its sink may be an RTP stream,
whose clock is shared with the DTMF writer; a session feeds the jitter buffer
through a mux and a handler; writers are chained, and a chain may end in a pipe
that another goroutine reads. The hard parts are the lock handed between `Push` and the
timer goroutine, the two-step handover of a packet in the session and of a frame in the
pipe, writers and handlers that are swapped out while they are in use, the shared
clock of the streams, ticks that come late, and 16 and 32 bit numbers that wrap.

## 2. Modules

| Module | Models | State and actions |
|---|---|---|
| `SeqArith` | uint16 arithmetic of `buffer.go` | `before`, `withinRange`, `missingBetween` |
| `SeqLines` | `lines.go`, the vote between sequence lines | a pure function of the vote, the packet and the time; the lists of arrivals are the code's |
| `JitterBuffer` | `buffer.go`, `packet.go` | the fields of `Buffer`; the holder of the mutex moves `pc` from block to block of `push`, `popReady` and `flushLocked`; the timer goroutine and the unlocked tail of `Close` interleave with it |
| `Fifo`, `BoundedFifo` | the abstract queue | what a ring promises, with the results of its operations |
| `RingBuffer` | `ring/buffer.go` | indices and flag, one action per method; refines `BoundedFifo` (`RingIsFifo`) |
| `Mixer` | `mixer.go` | the ticker and writer goroutines, the lock, producers, `Stop`; rings are the queue that `RingBuffer` implements |
| `SeqWriter` | `rtp.go` | `SeqWriter`, the automatic stream and manual streams; `WritePayload` in its two critical sections |
| `DTMF` | the write loop and the decoders of `dtmf.go` composed with `SeqWriter` | the loop over the digits, its ticker, the packets of a digit in their critical sections, audio in between; a lossy network and a receiver with both decoders |
| `MixedStream` | `Mixer`, without inputs, composed with an RTP stream | one clock; `m.out.WriteSample` is `WritePayload` |
| `RTPSession` | `session.go` | `AcceptStream` with `rmu`, the reader with its offer, `Close` with the fuse |
| `Negotiation` | `sdp/offer.go`, `codecs.go` and what each codec supports | the codec sets, the offer and the answer on the wire, the configuration of each side; `SetEnabled`, `NewOffer`, a peer's offer, `Answer`, `Apply` |
| `JitterHandler` | `rtp/jitter.go` and `rtp/mux.go` composed with `JitterBuffer` | the feeder between the mux's lock and the push, removal and `Close` of the handler, the error channel; the steps of the buffer are its own |
| `Pipe` | `pipe.go` | each call's place between the channel operations; a send and its receive are one step of two threads |
| `Writers` | `buffers.go`, the switch and `MultiWriter` of `media.go`, the buffer writer of `pcm.go`, composed with `Pipe` | producers, a controller that swaps, disables and closes, a reader, and who closes its end |
| `BeepResampler` | `resampler_beep.go`, `resample_beep.go` | `inbuf`, the two buffers, `off`, `pos`; one action per case of the `switch` in `Stream` |
| `SoxrWriter` | `resample_soxr.go` | the loop around `soxr_process`, the collected output, `flush` |
| `Listen` | `rtp/listen.go` | both searches, and other programs that bind and free ports |
| `SRTPSession` | the session of `srtp/srtp.go` | `AcceptStream` before and after its lock, `Close` in its three stages |
| `Blocks` | the last four and `RingBuffer` side by side | they share nothing; `Init` picks one and the steps are its own |
| `ListLemmas` | facts about slices, insertion, queues, minimum and maximum, and numbers that wrap | see section 5 |
| `JitterProofs` | proofs about `JitterBuffer` and `JitterHandler` | |
| `BlocksProofs` | proofs about `RingBuffer`, and about `Listen`, `SRTPSession`, `SoxrWriter` in `Blocks` | |
| `MixerProofs` | proofs about `Mixer` and `MixedStream` | |
| `SessionProofs` | proofs about `RTPSession` | |
| `WritersProofs` | proofs about `Pipe` and `Writers` | |
| `StreamProofs` | proofs about `SeqWriter` and `DTMF` | |
| `NegotiationProofs` | proofs about `Negotiation` | |
| `MCJitterBuffer`, `MCJitterHandler`, `MCMixer`, `MCRTPSession`, `MCDTMF`, `MCWriters`, `MCNegotiation` | instances for TLC | sequence numbers, shapes, symmetry, who reads what, digits, offers of other programs |

Abstractions. A payload is its shape (starts a sample, ends one, padding). A PCM
sample is its input and number, and a mixed sample the set of what was added up
in it, so that order, loss and duplication are visible; clipping is not
modelled. Time is a bounded counter. The widths of the numbers of `SeqWriter` are
constants; sequence numbers of the jitter buffer are real uint16 values. The free
list of nodes, log lines and counters that no property needs are left out. The
callbacks of the jitter buffer return at once. A media description is its formats
(a function from their places in the list) and crypto lines, already parsed, in which names
that the code does not know are the members of `Unknown`; its text, addresses, directions, MKI and lifetimes
are left out. The mux has one payload type and no default handler, which differ only
in the table that is read under the lock. All writers of `Writers` have one sample
rate. A source sample of `BeepResampler` is its number and interpolation is left out; the
place in the source is computed exactly and not in floating point. All writes to one
such resampler have one length. soxr is taken to read what the room for its output
asks for, to hold back at most `MaxHeld` samples and to return them when it is flushed.
A duration of `DTMF` is a number of frames. The history variables of `Pipe` keep what the
writes that returned have handed over (`log`) and any write that returned without an error
and yet not whole (`short`). In the mixer `mixUpdate` returning
early because the timeline is ahead of the clock (`NegativeMixes`) and finding no
whole period (`ZeroMixes`) differ only in a counter and are one case.
Data races: the code has none in what is modelled, apart from the one that the
comment at `rtp/session.go:218-223` describes; there a reader may return buffers
that hold no packet, which the model keeps as the value `Stale`, and the packet that
was copied for the other reader may be lost (see `PacketsAccounted` in section 4).

## 3. Runs

| Run | Instance | What it shows |
|---|---|---|
| `JitterHandler` | five numbers around the wrap, four packets, two latencies, `Flush`, `UpdateLatency` and removal with `Close` at any time, a next handler that fails or not | the timer covers the head; playout only advances; each number it passes is popped, dropped or counted lost; no duplicate is buffered; a closed handler gets only what had passed the mux, and errors are returned |
| `JitterVideo` | frames of several packets, padding, two SSRCs, a jump of more than 3000, five packets, `Flush` and `UpdateLatency` at any time | the list and the counters agree; losses and events are reported; streams do not mix; only whole samples of consecutive packets leave, and none that could leave waits |
| `JitterLines` | restart detection, numbers on, ahead of and behind a line, `Close`, fair | playout stays on the playing line; a takeover is not dropped; the buffer drains; the goroutine ends |
| `Writers` | frames of three, chunks of four, an empty write, reads of two, the pipe alone or in a `MultiWriter`, three calls besides the reads, fair | the pipe is a queue that counts what it delivers; no sample is lost, doubled or out of order in the chain; a frame reaches all that was attached or the caller gets an error; errors of close cross over; all calls return |
| `Blocks` | ring of three slots and slices up to four; six pairs of rates, buffers of eight, writes of 6 to 24; soxr with four pairs of rates; five ports; two acceptors and two closers | the ring refines the bounded queue; every point is the source sample of its place; soxr's output leaves whole and in order; the search covers its range; only a stream in hand escapes `Close` |
| `Mixer` | two inputs, frames of two samples, writes of three and five, with and without the channel | samples conserved, restarts earned, order at the sink, the lock is never held across the sink |
| `DTMF` | digits of two frames, one audio and one event stream, wraps of both numbers, failing writes, late and lost ticks, up to three lost packets | headers of each stream advance; a digit starts after the end of the one before; the receiver gets each digit once |
| `Negotiation` | all six codecs, every encryption setting, default, reordered and partly unknown profiles, three offers of another program, two calls of `SetEnabled` on any set at any time | both sides agree, the answer keeps to the offer, required encryption is had, an answer to our own offer can be applied |
| `MixedStream` | bursts of two, reset after three frames, six frames of time in eighths | real time is kept; timestamps lead it by at most two bursts (a bound that is attained) |
| `Session` | a stream with one reader, one with two, queue of two, `Close` | the only reader of a stream gets its packets in order; no packet is lost but at a full queue or, on the shared stream, through the documented race; no stale offer; everybody is woken |
| `MixerLeak`, `SeqRace` | violations | see section 4 |

Why the bounds are enough. Four packets make a gap, a late packet and a duplicate
of either; five make two samples with a packet of another stream between them.
The numbers stand at the boundaries that the code compares with. A frame of two
samples against writes of three and five never divides evenly and overflows the
buffer of four. In `MixedStream` two stalls longer than the reset threshold fit.
Two digits of two frames have a first packet, a repeated end and a pause between
them; the code's 13 frames only widen the gap.
Two calls of `SetEnabled` disable and enable a codec around an offer; the three
offers have static types without `rtpmap`, events faster than the audio, codecs
twice and tags that do not start at one. A queue of two and three packets fill the queue and leave one for the direct
copy. `MaxCalls` counts the calls of all threads but the reader: three suffice for a
write of two transfers that a swap and a close overtake, or for two writers and a
close. A digit has four packets that a decoder can use (the first and three with the
end bit), of which `MaxLost` are lost. `MaxPackets` bounds the audio packets. A resampler
with buffers of eight and quality three (the code's) meets writes that fill less than
a buffer, one, and three; the code's buffers have 512. `FlushRoom` stands for 1024 and
is small, so that the flush of soxr may find no room.

Each component keeps one type invariant (`TypeOK`, `RingTypeOK`, ...), for the proofs
and for reading; the runs do not repeat it. Every property has a mutant of the code under which its run fails.

Fairness. The Go scheduler runs every goroutine that can go on (weak fairness of
the holder of the lock, of the timer and of the woken reader). `sync.Mutex` hands
over to a waiter that starves (strong fairness of `TimerLock`, `StopLock`), and
`select` picks among ready cases at random (strong fairness of `LoopExit`,
`MixerExit`, `WriterExit`). Time goes on (strong fairness of `Tick`, which needs a
moment with the mutex free). No packet, caller or tick is assumed to come.
`MixerLeak` also assumes that the sink returns from each `WriteSample`. In `Writers`
every goroutine that is inside a call goes on when it can, and the reader reads until a
read fails, as `io` readers do: without a reader a write to the pipe waits for ever by
design. Nobody has to call anything else.

## 4. Disagreements with the code's own words

With a run:

* `MixerLeak`: after `Stop` the mixing goroutine may block for ever on the output
  channel, while a channel is said to preserve the effects of having none
  (`mixer/mixer.go:100-101`).
* `SeqRace`: audio may be written behind an event that was written between
  `CurTS` and `WriteEvent`; `CurTS` is said to be always ahead
  (`rtp/rtp.go:197`).

Met while modelling or choosing bounds, outside the instances of the passing runs:

* `missingBetween` is called with a head behind `prevSN`, which its comment
  (`jitter/buffer.go:559-561`) excludes: a packet that does not start a sample and
  lies out of the window is linked without the `discont` flag, and when video jumps
  twice its distance is counted as some 60000 lost packets.
* With two discontinuities in the list, a duplicate of a packet between them is
  buffered again (`NoDuplicates`, audio, numbers 65535, 1, 2, 5000, 5001, 10000,
  five packets): the comparison at `jitter/buffer.go:339` sees the ends, and the
  searches stop at a discontinuity.
* A node linked while the buffer was not initialized keeps `discont`; if an
  earlier packet is prepended and played, the flagged node is popped across a
  missing number that no counter records (`GapIsLoss` on video).
* After a stall of more than `rtpStreamTSResetFrames` frames `CurTS` jumps to the
  wall clock and the mixer's burst is counted on top of it, although the
  threshold exceeds the burst (`rtp/rtp.go:31-33`): hence the bound of two bursts
  in `LeadBounded`.
* An answer selects telephone events that an offerer who has disabled them since
  does not see: `ConfigsAgree` therefore allows the offerer to have none.
* Of two readers on one stream the notification may wake the wrong one: it returns
  buffers that hold no packet, and the other one then takes a later packet from the
  queue into the same buffers, so that the one copied there is lost. The comment at
  `rtp/session.go:218-223` says that the race is there, so it is no disagreement.
  Without its condition for shared streams `PacketsAccounted` is violated by it in the
  run `Session`; with it the property says that nothing else loses a packet.
* A packet pushed between `Flush` and `timer.Stop` of `Close` is never played.
* A stream that `AcceptStream` of the SRTP session holds while `Close` takes the list
  is never closed (the TODO at `srtp/srtp.go:151`); `OnlyInHandLeaks` says that no
  other is.
* When a flush of `FullFrames` fails, the frame that failed is gone, while a tail that
  fails in `Close` stays in the buffer (`buffers.go:70-80`). A closed buffer writer drops
  samples without an error (`pcm.go:90`).
* `WriteCloserSwitch.Swap` stores the new rate before it panics on a mismatch
  (`media.go:241`).
* The Go resampler indexes before `buf1` if the first write is empty or a refill is
  shorter than `2 * beepQuality - 1` samples and is then searched backwards
  (`resampler_beep.go:126`). Ratios that are no integers are rounded in `outLen`
  (`resample_beep.go:77-82`), so that `inbuf` grows while upsampling.
* `Close` of the soxr writer makes one call to flush: what does not fit the room of
  `Resample` is lost (`cut` in `SoxrWhole`). A write whose length the rates do not divide
  may leave input unread, which `WriteSample` ignores (`skipped`).

## 5. Proofs

All theorems hold for every value of the constants that satisfies the named
assumptions, so for every number of streams, readers, inputs, writers and ports, and
for all sizes, latencies and rates; the bounds of the runs (`MaxPackets`, `MaxTime`,
`MaxCalls`, ...) are constants too and may be as large as one likes, within the conditions
that some theorems name (below). An invariant is
proved from a stronger one that is inductive. There is one step per action in each such
proof, and TLC finds no violation of the stronger invariants on the instances of the runs.

| Theorem | States | Inductive invariant, and why it is needed |
|---|---|---|
| `TypeCorrect`, `SizeCorrect` | `TypeOK`, `SizeMatches` | `TypeInv` adds that a packet is in hand wherever `push` reads one. The core is that both insertion loops stop within the list (`TailSearchStops`, `HeadSearchStops`), from the arithmetic of `before`. |
| `AccountingHolds` | `Accounting` | `Conserved` weakens the equation by the packet in hand between the steps of one `push`. |
| `CallbacksHold` | `CallbacksCurrent` | `CallsInv`: which counters may differ from what was reported at which `pc`, i.e. that the flags `loss` and `dropped` cover them. |
| `SingleStreamHolds` | `SingleStream` | `StreamInv`: from the switch on the SSRC to the insertion the packet in hand is of the stream being played, also while a restart waits for its flush. |
| `NothingReadyWaitsHolds`, `TimerArmedHolds` | `NothingReadyWaits`, `TimerArmed` | both hold when the mutex is free because `popReady` ends only with nothing ready and after `timer.Reset`; they need the type invariant and where `pc` may come from. |
| `SampleIntactHolds` | `SampleIntact` (an action property) | from the type invariant: what `isComplete` has found is what `popSample` cuts off. |
| `NoDuplicatesHolds`, `PlayoutAdvancesHolds` (while `InWindow`) | `NoDuplicates`, `PlayoutAdvances` | `PlayInv`: the list is in sequence, and all of it ahead of `prevSN`. Its core is that the insertion puts a packet between two neighbours that it lies between, although `before` compares numbers that wrap and is no order on all of them, but on those within one window, wherever it starts. |
| `GapIsLossHolds` (while `InWindow`, `PacketIsSample`) | `GapIsLoss` (an action property) | `AudioInv`: before the first packet is played nothing waits, and afterwards no node carries `discont`; then each branch of `popReady` and `flushLocked` moves `prevSN` by what it counts. |
| `LineLeadsPlayoutHolds`, `TakeoverPlaysHolds` (while `InWindow`) | `LineLeadsPlayout`, `TakeoverPlays` | `LineInv`: the playing line is at or ahead of what is buffered and of `prevSN`, except from a takeover to the flush that it asks for; so a packet that is ahead of the line is ahead of playout. |
| `HandlerRunsBuffer`, `HandlerTimerArmed`, `HandlerPlaysOn` | `HandlerSpec` implies `Spec` of the buffer, and so `TimerArmed`, and while `InWindow` `NoDuplicates` and `PlayoutAdvances` | every step of the composition is one of the buffer or leaves it alone. |
| `HandlerContractHolds` | `HandlerContract` | `HandlerInv`: once the buffer is flushed for `Close`, what is buffered, on its way or given late is no more than what had passed the mux; the holder of the mutex makes no packets. |
| `RingTypes`, `RingRefines`, `BlocksRingIsFifo` | `RingTypeOK`, `RingIsFifo` | the contents of the ring, as a sequence from the read index on, are the queue; one lemma per operation shows that wrapping, overwriting and slices longer than the ring do to it what `BoundedFifo` does. |
| `PortsTriedHolds` | `PortsTried` | `ListenInv`: the ports tried are exactly those behind the current one, counted round the range from the start. |
| `OnlyInHandLeaksHolds` | `OnlyInHandLeaks` | `SRTPInv`: every accepted stream is in a hand, in the list, in a closer's copy, closed or missed, and pion gives out none after it is stopped. |
| `SoxrWholeHolds` | `SoxrWhole` | `SoxrInv`: what was forwarded and collected is what soxr emitted, what it holds back follows from what it was fed, and a write whose length the rates divide is read whole. |
| `MixerTypeCorrect` | `MixerTypeOK` | with `MixPlace`, where `mixInputs` begins. |
| `SamplesConservedHolds`, `RestartsEarnedHolds` | `SamplesConserved`, `RestartsEarned` | `Earned`: an input that plays owes what its ring lacks of `inputBufferMin`, which its next restart pays. The sums over inputs are cardinalities of sets of places in the rings. |
| `MixedRunsMixer`, `MixedInRealTime`, `MixedKeepsUp` | `MixedSpec` implies `Spec` of the mixer, `InRealTime`, `KeepsUp` | `TimeInv`: the periods planned are those up to `lastMixEndTs`, exactly so without a reset, and that is ahead of the clock by at most the fuzz. |
| `LeadBoundedHolds` (for a `ShortCall`) | `LeadBounded` | `LeadInv`: counted in frames from the first timestamp, what was written and what is left of the burst is at most the mixing timeline, two bursts and one and a half frames, or, after a jump of `CurTS` to the wall clock, real time, one burst and half a frame; with `TimeInv`, which keeps the timeline near the clock, the timestamps lead by two bursts at most. |
| `OutputInOrderHolds` | `OutputInOrder` (an action property) | `OrderInv`: for each input the samples heard, in the channel, in hand and in the ring are numbered in this order. |
| `WriterInvariant`, `HeadersAdvanceHold` (for a `ShortCall`) | `HeadersAdvance` (an action property) | `WriterInv`: before the first packet every timestamp is `Offset`; later none is further from it than the wall clock and the packets written, and the next one of the audio is a frame past the last one sent. So `ahead`, which compares modulo the width, compares the distances from `Offset`. |
| `DTMFRunsWriter`, `DTMFHeadersAdvance` | `DTMFSpec` implies `WriterSpec`, and so `HeadersAdvance` | what `dtmf.Write` does to the stream are steps of the stream. |
| `DigitsInvariant`, `DigitsReceivedHold` (for a `ShortCall`, `EventFrames >= 2`, `MaxLost <= 3`) | `DigitsReceived` (an action property) | `LoopInv`, `PaceInv`, `HeardInv`: the timestamp of a digit and the ticks taken since then fit into the time since the anchor, so that the clock is past the end of a digit when the next one begins, although ticks come late; and a digit not yet heard has lost its first packet and each end that was written. |
| `SessionInvariant`, `OfferStandsHolds` | `SessionInv`, and `OfferStands`, which follows from it | a stream holds the buffers only of a read that still means to take them back. |
| `ReadsInOrderHolds` | `ReadsInOrder` | `DirectInv`: while the only reader's buffers are offered, or copied to and not announced, nothing is queued, so that a direct copy overtakes nothing. |
| `PacketsAccountedHolds` | `PacketsAccounted` | `KeptInv`: while nobody was handed `Stale`, at most one reader that waits has a packet in its buffers, the one that `AcceptStream` is about to tell of; so the notification hands out that packet. With a single reader `Stale` is ruled out by `ReadsInOrderHolds`. |
| `PipeFifoHolds` | `PipeFifo` | `PipeInv`: a writer between lock and unlock holds `wrMu` and nobody else does; what a reader has copied and not answered for comes next in the write under `wrMu`. |
| `CloseErrorsHolds` | `CloseErrors` | `ErrInv`: an error is stored before `done` is closed; `ErrMove`: no step replaces an error or gives a call another one than its end sees. |
| `WriteDeliversHolds` | `WriteDelivers` | `Delivery`: the writers passed in the loop of `MultiWriter` have the frame, and a pipe call is on its way with the same frame, failed, or has delivered it; `Quiet`: who writes has nothing to close, so that no close takes over its call. |
| `SamplesAccountedHolds` (each target without repetition) | `SamplesAccounted` | `OrderInv`. `Kept` and `LaneInv`: each sample given is in a waiting call, in the frame buffer, in a frame on its way or was written, and FullFrames' samples are in order from the frame on its way to the calls that wait. `PipeOrder`, `MemOrder`: what a writer has got is in order and before all that it may still get (`comes`); what has failed there because it was closed does not come again. |
| `NegotiationInvariant`, `ConfigsAgreeHolds`, `AnswerWithinOfferHolds`, `AnswersApplyHolds` | `ConfigsAgree`, `AnswerWithinOffer`, `AnswersApply` (an action property) | `NegotiationInv`: our own offer has only codecs that were enabled then; the answerer's codec and events are formats of the offer, and the answer says both; the crypto line answered is one of the offer with a profile that both have. Codecs may be enabled and disabled between the steps. |

Assumptions. They are named in the modules that declare the constants and evaluated by
TLC in the runs: sizes, rates and capacities are positive where the code makes them so
(`RingAssumption`, `MixerAssumption`, `SoxrAssumption`), sets of inputs and readers are
finite, placeholders such as `NoReader` are no members of the sets that they extend
(`SessionAssumption`, `SRTPAssumption`), the arguments of the port search are integers
(`ListenAssumption`), timestamps and sequence numbers have some width and packets some
length (`WriterAssumption`, `MixedAssumption`, `DTMFAssumption`), other programs' offers are
lists of formats and of crypto lines, of which only AMR-WB has modes (`NegotiationAssumption`),
and in `WritersAssumption` the controller, the reader and who closes its end are goroutines
of their own, and a producer writes to FullFrames or past it, but not both. `MaxCopy`, the
longest slice given to a ring, is positive.

Conditions. Five are hypotheses of the theorems that need them. The instances of the runs
that check these properties meet them all.

* `InWindow`: when a packet is linked, it, the buffered packets, `prevSN` and the playing
  line are within 3000 numbers, the reach of `withinRange`. A jump beyond it makes a
  discontinuity, and with two of them a duplicate may be buffered (section 4). The theorems
  ask for it only at the insertion, whatever arrives in between and is dropped or starts
  a line of its own.
* `PacketIsSample`: each packet starts and ends a sample, as audio does. With longer
  samples a discontinuity linked before playout began may be popped later, across a gap
  that is not counted (section 4).
* `ShortCall`: the wall clock and the frames written stay below half of the timestamps, at
  48 kHz 12 hours; the proofs measure all timestamps from the first one, which is only then
  an order. What longer calls do is not proved, nor found wrong.
* `EventFrames >= 2`, `MaxLost <= 3`: a digit of one frame is one packet, first and end at
  once, written three times with the marker, and four lost packets may be the whole digit.
  The code has 13 frames.
* Targets without repetition: a `MultiWriter` that has a writer twice writes each frame to
  it twice.

Only model-checked:

* liveness (`Drains`, `LoopStops`, `SessionEnds`, `CallsEnd`) and `StopNotHeldUp`, which
  says `ENABLED`: out of the provers' reach.
* `PointsInPlace`: it is true only of writes that fill the buffers with at least
  `2 * beepQuality - 1` samples, which the code does not ensure (section 4), and the place in
  the source is a quotient of products of rates and lengths, which the solver does not
  handle.
* The disagreements of section 4: their runs are the proof of them.

No module declares a recursive operator, and nothing is proved by induction over data: the
choice of a codec is stated over sets of places in the lists and not as a loop, and the sums
over inputs are cardinalities.

## 6. Not modelled

* Encoding and decoding of Opus, AMR-WB, G.722 and G.711: calls of C or Go libraries
  and look-ups in tables, with no control of their own. What each codec accepts in a
  negotiation is in `Negotiation`.
* Gain, channel and byte conversions, processors: pure functions of one sample or one
  frame.
* Tones and interpolation: floating point.
* WebM, dump files, embedded resources, registration imports: output and data.
* The cryptography of SRTP and pion's session; the text of SDP.
* `rtp/media.go`, `rtp/codecs.go`: they connect codecs to streams and keep no state.

## 7. What is left

Every safety property of the runs but `PointsInPlace` and `StopNotHeldUp` is proved. Left to do:

1. `PointsInPlace` for writes that are long enough, after the same theorem with the
   place as a pair of a quotient and a remainder, so that only sums are left to the solver.
2. `NoDuplicates` and `GapIsLoss` beyond one window, if the search of the insertion is changed
   to go on behind a discontinuity.
3. The text of SDP (`sdp/offer.go`, from the description to lines and back), of which only
   what it says is modelled.
