----------------------------- MODULE MixedStream -----------------------------
(***************************************************************************)
(* The mixer writing straight into an RTP stream: how mixUpdate catches up *)
(* after a stall and how CurTS follows the wall clock, on one clock.  The  *)
(* goroutine may be held up anywhere, also between two frames of a burst.  *)
(* The mixer has no inputs (its frames are silence) and no output channel. *)
(***************************************************************************)
EXTENDS Mixer

CONSTANTS Audio, TSMod, SNMod, Offset, FrameTS, ResetFrames, MaxPackets

ASSUME MixedAssumption ==
  /\ TSMod \in Nat \ {0} /\ SNMod \in Nat \ {0} /\ Offset \in 0..TSMod-1
  /\ FrameTS \in Nat \ {0} /\ ResetFrames \in Nat /\ MaxPackets \in Nat

VARIABLES anchorTime, anchorTS, maxTS, seq, ts, cur, wire, sent, count

W == INSTANCE SeqWriter WITH Manual <- {}, FrameDur <- TickerDur

streamOnly == <<anchorTime, anchorTS, maxTS, seq, ts, cur, wire, sent, count>>

mixedVars == <<vars, streamOnly>>

\* The stream is made before the mixer starts.
MixedInit ==
  /\ Init /\ writer = "none"
  /\ anchorTime = W!None /\ anchorTS = 0 /\ maxTS = Offset /\ seq = 0
  /\ ts = [s \in {Audio} |-> Offset] /\ cur = W!None
  /\ wire = W!NoPacket /\ sent = W!None /\ count = 0

MixStep ==
  /\ MixUpdate \/ MixOnce \/ MixUnlock
  /\ UNCHANGED streamOnly

\* m.out.WriteSample(out) is WritePayload of the stream.
PayloadOut == WriteDirect /\ W!WritePayload

\* It returns; the mixer only counts an error.
PayloadWritten == \E ok \in BOOLEAN : WriteReturns /\ W!WritePayloadEvent(ok)

MixedClock == Clock /\ W!WriterClock

MixedNext == MixStep \/ PayloadOut \/ PayloadWritten \/ MixedClock

MixedSpec == MixedInit /\ [][MixedNext]_mixedVars

----------------------------------------------------------------------------

\* How far the timestamps written have come, in frames, and how many frames have
\* begun since the first one was mixed.
stamped == ((sent - Offset) % TSMod) \div FrameTS
begun == 1 + (now - firstMix) \div TickerDur

\* However often and wherever the mixer is held up, the timestamps of what it
\* writes run ahead of real time by less than two catch-up bursts: a jump to the
\* wall clock and the bursts that follow it do not add up from stall to stall.
LeadBounded ==
  sent # W!None => stamped <= begun + 2 * BufferFrames
=============================================================================
