------------------------------ MODULE SeqWriter ------------------------------
(***************************************************************************)
(* rtp.SeqWriter and its streams (rtp/rtp.go): one SSRC, that is one       *)
(* sequence number space and one timestamp clock, written to by one        *)
(* automatic stream (audio) and any number of manual ones (DTMF events).   *)
(*                                                                         *)
(* A stream's calls are serialised by its own mutex.  WritePayload reads   *)
(* the shared clock (CurTS, under the read lock) and writes (WriteEvent,   *)
(* under the lock) in two critical sections: cur is what it holds between. *)
(***************************************************************************)
EXTENDS Integers, FiniteSets

CONSTANTS Audio,        \* the automatic stream
          Manual,       \* the manual streams
          TSMod,        \* the number of timestamps, 2^32
          SNMod,        \* the number of sequence numbers, 2^16
          Offset,       \* rtpTimestampOffset
          FrameTS,      \* s.frameTS
          FrameDur,     \* DefFrameDur in ticks of the clock
          ResetFrames,  \* rtpStreamTSResetFrames
          MaxPackets,   \* bound on the audio packets written
          MaxTime       \* bound on the clock

ASSUME WriterAssumption ==
  /\ TSMod \in Nat \ {0} /\ SNMod \in Nat \ {0} /\ Offset \in 0..TSMod-1
  /\ FrameTS \in Nat \ {0} /\ FrameDur \in Nat \ {0} /\ ResetFrames \in Nat
  /\ MaxPackets \in Nat /\ MaxTime \in Nat
  /\ Audio \notin Manual

VARIABLES now,          \* s.now
          anchorTime,   \* s.anchorTime, or None
          anchorTS, maxTS,
          seq,          \* s.h.SequenceNumber
          ts,           \* the timestamp of every stream, None before it is made
          cur,          \* WritePayload's timestamp, or None
          wire,         \* the last packet written
          sent,         \* history: the last timestamp the automatic stream has written
          count         \* history: the audio packets written

writerVars == <<now, anchorTime, anchorTS, maxTS, seq, ts, cur, wire, sent, count>>

None == -1
TS == 0..TSMod-1
Streams == Manual \cup {Audio}
NoPacket == [sn |-> None, ts |-> None]

\* The sign of int32(a - b).
ahead(a, b) == (a - b) % TSMod \in 1..(TSMod \div 2 - 1)

WriterInit ==
  /\ now = 0 /\ anchorTime = None /\ anchorTS = 0 /\ maxTS = Offset /\ seq = 0
  /\ ts = [s \in Streams |-> None] /\ cur = None
  /\ wire = NoPacket /\ sent = None /\ count = 0

----------------------------------------------------------------------------

\* d.Round(DefFrameDur) / DefFrameDur: the nearest frame, halves rounded up.
frames(d) == (d + FrameDur \div 2) \div FrameDur

\* Mutant of projectWallclockTS: the time since the anchor is added to the latest
\* timestamp instead of the anchor's.
MutProjectLatest == (maxTS + frames(now - anchorTime) * FrameTS) % TSMod

projectWallclockTS == (anchorTS + frames(now - anchorTime) * FrameTS) % TSMod

\* Mutant of notBehind: timestamps are compared without regard to the wrap.
MutNotBehindNoWrap(t) == IF maxTS > t THEN maxTS ELSE t

\* A stream's timestamp, moved up to the latest timestamp written.
notBehind(t) == IF ahead(maxTS, t) THEN maxTS ELSE t

\* More than ResetFrames behind the wall clock.
tooLate(t) == /\ ahead(projectWallclockTS, t)
              /\ (projectWallclockTS - t) % TSMod > ResetFrames * FrameTS

CurTS(t) ==
  LET u == notBehind(t)
  IN  IF anchorTime # None /\ tooLate(u) THEN projectWallclockTS ELSE u

\* NewStream (once) and NewManualStream.
NewStream(s) ==
  /\ ts[s] = None
  /\ ts' = [ts EXCEPT ![s] = maxTS]
  /\ UNCHANGED <<now, anchorTime, anchorTS, maxTS, seq, cur, wire, sent, count>>

nextSeq(ok) == IF ok THEN (seq + 1) % SNMod ELSE seq

\* WriteEvent with timestamp t on stream s; ok is whether WriteRTP succeeded.
WriteEvent(s, t, ok) ==
  /\ anchorTime' = IF anchorTime = None THEN now ELSE anchorTime
  /\ anchorTS'   = IF anchorTime = None THEN t ELSE anchorTS
  /\ seq' = nextSeq(ok)
  /\ maxTS' = IF ok /\ ahead(t, maxTS) THEN t ELSE maxTS
  /\ wire' = IF ok THEN [sn |-> seq, ts |-> t] ELSE wire
  /\ sent' = IF ok /\ s = Audio THEN t ELSE sent
  /\ count' = IF s = Audio THEN count + 1 ELSE count

\* WritePayload up to the end of CurTS.
WritePayload ==
  /\ cur = None /\ ts[Audio] # None /\ count < MaxPackets
  /\ cur' = CurTS(ts[Audio])
  /\ UNCHANGED <<now, anchorTime, anchorTS, maxTS, seq, ts, wire, sent, count>>

\* The timestamp of the frame after the one being written.
advanced == (cur + FrameTS) % TSMod

\* The rest of WritePayload.
WritePayloadEvent(ok) ==
  /\ cur # None
  /\ WriteEvent(Audio, cur, ok)
  /\ ts' = IF ok THEN [ts EXCEPT ![Audio] = advanced] ELSE ts
  /\ cur' = None
  /\ UNCHANGED now

WritePayloadAtCurrent(s, ok) ==
  /\ ts[s] # None
  /\ WriteEvent(s, ts[s], ok)
  /\ UNCHANGED <<now, ts, cur>>

ProjectWallclockTS == IF anchorTime = None THEN maxTS ELSE projectWallclockTS

SyncTimestamp(s) ==
  /\ ts[s] # None
  /\ ts' = [ts EXCEPT ![s] = ProjectWallclockTS]
  /\ UNCHANGED <<now, anchorTime, anchorTS, maxTS, seq, cur, wire, sent, count>>

WriterClock ==
  /\ now < MaxTime
  /\ now' = now + 1
  /\ UNCHANGED <<anchorTime, anchorTS, maxTS, seq, ts, cur, wire, sent, count>>

WriterNext ==
  \/ \E s \in Streams : NewStream(s)
  \/ WritePayload
  \/ \E ok \in BOOLEAN : WritePayloadEvent(ok)
  \/ \E s \in Manual, ok \in BOOLEAN : WritePayloadAtCurrent(s, ok)
  \/ \E s \in Manual : SyncTimestamp(s)
  \/ WriterClock

WriterSpec == WriterInit /\ [][WriterNext]_writerVars

----------------------------------------------------------------------------
(* Properties.                                                             *)

\* The type invariant: sequence numbers and timestamps keep their width.
WriterTypeOK ==
  /\ now \in Nat /\ anchorTime \in Nat \cup {None} /\ anchorTS \in TS /\ maxTS \in TS
  /\ seq \in 0..SNMod-1
  /\ ts \in [Streams -> TS \cup {None}] /\ sent \in TS \cup {None}
  /\ cur \in TS \cup {None}
  /\ wire \in [sn : 0..SNMod-1, ts : TS] \cup {NoPacket}
  /\ count \in Nat

\* A step that writes a packet of the automatic stream.
audioWritten == cur # None /\ cur' = None /\ seq' # seq

\* The headers on the wire go on as a receiver expects: the sequence numbers follow
\* each other, whichever streams write, and the timestamps of the automatic stream
\* move forward by a frame or more; across the wraps of both, jumps to the wall
\* clock, events written in between and writes that fail and are tried again.
HeadersAdvance ==
  [][/\ wire' # wire /\ wire # NoPacket => wire'.sn = (wire.sn + 1) % SNMod
     /\ audioWritten /\ sent # None =>
          /\ ahead(sent', sent)
          /\ (sent' - sent) % TSMod >= FrameTS]_writerVars

\* The automatic stream is never written behind a packet that is already written:
\* CurTS is "always ahead of the latest packet written", and audio that resumes
\* after an event must not go back behind it.
AudioNotBehind ==
  [][audioWritten => ~ahead(maxTS, sent')]_writerVars
=============================================================================
