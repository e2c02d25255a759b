---------------------------- MODULE StreamProofs ----------------------------
(***************************************************************************)
(* Proofs about SeqWriter and DTMF.  Timestamps wrap, so they are compared *)
(* by their positions: how far each has come since Offset.  While a call   *)
(* spans less than half of the timestamps (ShortCall; 2^31 of them are     *)
(* twelve hours at 48 kHz), the signs that the code takes of differences   *)
(* are the order of the positions.                                         *)
(***************************************************************************)
EXTENDS DTMF, ListLemmas

pos(t) == (t - Offset) % TSMod

\* The frames of wall clock, and with every packet that can be written a frame of
\* audio, stay below half of the timestamps.
ShortCall == (frames(MaxTime) + MaxPackets) * FrameTS < TSMod \div 2

\* As far as the timestamps can have come.
reach == (frames(now) + count) * FrameTS

Known == ({maxTS, cur} \cup {ts[s] : s \in Streams}) \ {None}

\* The inductive invariant of the sequence writer.  Before the first packet all
\* timestamps are the first one, so that the anchor is Offset; and the next
\* timestamp of the audio is a frame or more past the last one sent.
WriterInv ==
  /\ WriterTypeOK
  /\ now <= MaxTime /\ count <= MaxPackets /\ (cur # None => count < MaxPackets)
  /\ anchorTime = None => \A t \in Known : t = Offset
  /\ anchorTime # None => anchorTime <= now /\ anchorTS = Offset
  /\ \A t \in Known : pos(t) <= reach
  /\ cur # None => ts[Audio] # None /\ pos(ts[Audio]) <= pos(cur)
  /\ sent # None => ts[Audio] # None /\ pos(sent) + FrameTS <= pos(ts[Audio])
  /\ wire # NoPacket => seq = (wire.sn + 1) % SNMod

----------------------------------------------------------------------------
(* Positions.                                                              *)

LEMMA Consts ==
  /\ TSMod \in Nat \ {0} /\ SNMod \in Nat \ {0} /\ Offset \in TS /\ FrameTS \in Nat \ {0}
  /\ FrameDur \in Nat \ {0} /\ MaxPackets \in Nat /\ MaxTime \in Nat
  /\ Manual = {Events} /\ Audio \notin Manual
BY WriterAssumption, DTMFAssumption DEF TS

LEMMA PosTypes ==
  /\ pos(Offset) = 0
  /\ \A t \in TS : pos(t) \in 0..TSMod-1
BY Consts DEF pos, TS

\* Within half a turn, a timestamp is ahead of another one if its position is.
LEMMA AheadIs ==
  ASSUME NEW a \in TS, NEW b \in TS, pos(a) < TSMod \div 2, pos(b) < TSMod \div 2
  PROVE  /\ ahead(a, b) <=> pos(b) < pos(a)
         /\ pos(b) <= pos(a) => (a - b) % TSMod = pos(a) - pos(b)
BY Consts, WrapAhead DEF pos, TS, ahead

LEMMA PosAdds ==
  ASSUME NEW a \in TS, NEW k \in Nat, pos(a) + k < TSMod
  PROVE  (a + k) % TSMod \in TS /\ pos((a + k) % TSMod) = pos(a) + k
BY Consts, WrapAdds DEF pos, TS

\* More time is not fewer frames; a frame's duration is one frame.
LEMMA FramesAre ==
  /\ \A d \in Nat : frames(d) \in Nat
  /\ \A d, e \in Int : d <= e => frames(d) <= frames(e)
  /\ \A d \in Int : frames(d) \in Int /\ frames(d + FrameDur) = frames(d) + 1
<1> DEFINE h == FrameDur \div 2
<1>1. h \in Nat
  BY Consts
<1>2. \A N \in Nat \ {0}, x, y \in Int : x <= y => x \div N <= y \div N
  OBVIOUS
<1>3. \A N \in Nat \ {0}, x \in Int : (x + N) \div N = (x \div N) + 1 /\ x \div N \in Int
  OBVIOUS
<1>4. \A N \in Nat \ {0}, x \in Nat : x \div N \in Nat
  OBVIOUS
<1>5. \A d \in Int : frames(d) = (d + h) \div FrameDur
  BY DEF frames
<1> HIDE DEF h
<1>6. \A d \in Int : d + h \in Int /\ (d + FrameDur) + h = (d + h) + FrameDur
  BY Consts, <1>1
<1>7. \A d \in Nat : d + h \in Nat
  BY <1>1
<1>8. \A d \in Nat : frames(d) \in Nat
  BY Consts, <1>4, <1>5, <1>7
<1>9. ASSUME NEW d \in Int, NEW e \in Int, d <= e PROVE frames(d) <= frames(e)
  <2>1. d + h \in Int /\ e + h \in Int /\ d + h <= e + h
    BY <1>1, <1>9
  <2>2. (d + h) \div FrameDur <= (e + h) \div FrameDur
    BY Consts, <1>2, <2>1
  <2> QED BY <1>5, <2>2
<1>10. ASSUME NEW d \in Int
       PROVE  frames(d) \in Int /\ frames(d + FrameDur) = frames(d) + 1
  <2>1. ((d + h) + FrameDur) \div FrameDur = ((d + h) \div FrameDur) + 1
    BY Consts, <1>3, <1>6
  <2>2. d + FrameDur \in Int
    BY Consts
  <2>3. frames(d + FrameDur) = ((d + FrameDur) + h) \div FrameDur
    BY <1>5, <2>2
  <2> QED BY Consts, <1>3, <1>5, <1>6, <2>1, <2>3
<1> QED BY <1>8, <1>9, <1>10

LEMMA Products ==
  \A f \in Nat, x, y \in Nat : /\ x * f \in Nat
                               /\ x <= y => x * f <= y * f
                               /\ (x + 1) * f = x * f + f
OBVIOUS

----------------------------------------------------------------------------
(* The sequence writer.                                                    *)

LEMMA Types ==
  ASSUME WriterInv
  PROVE  /\ now \in Nat /\ count \in Nat /\ maxTS \in TS /\ Known \subseteq TS
         /\ seq \in 0..SNMod-1 /\ maxTS \in Known /\ None \notin TS
         /\ \A s \in Streams : ts[s] # None => ts[s] \in Known
         /\ cur # None => cur \in Known
         /\ sent # None => sent \in TS
<1>1. WriterTypeOK
  BY DEF WriterInv
<1>2. None \notin TS
  BY DEF None, TS
<1>3. \A s \in Streams : ts[s] \in TS \cup {None}
  BY <1>1 DEF WriterTypeOK
<1>4. cur \in TS \cup {None} /\ maxTS \in TS /\ sent \in TS \cup {None}
  BY <1>1 DEF WriterTypeOK
<1> QED BY <1>1, <1>2, <1>3, <1>4 DEF WriterTypeOK, Known

\* Nothing comes as far as half a turn, a frame more included.
LEMMA Reaches ==
  ASSUME WriterInv, ShortCall
  PROVE  /\ reach \in Nat /\ reach < TSMod \div 2 /\ TSMod \div 2 <= TSMod
         /\ cur # None => reach + FrameTS < TSMod \div 2
<1> DEFINE f == frames(now)
           g == frames(MaxTime)
           H == TSMod \div 2
<1>1. now \in Nat /\ now <= MaxTime /\ count \in Nat /\ count <= MaxPackets
      /\ (cur # None => count + 1 <= MaxPackets)
  BY Types, Consts DEF WriterInv
<1>2. f \in Nat /\ g \in Nat /\ f <= g
  BY <1>1, Consts, FramesAre
<1>3. (g + MaxPackets) * FrameTS < H
  BY DEF ShortCall
<1>4. H \in Nat /\ H <= TSMod
  BY Consts
<1>5. reach = (f + count) * FrameTS
  BY DEF reach
<1> HIDE DEF f, g, H
<1>6. f + count \in Nat /\ g + MaxPackets \in Nat /\ f + count <= g + MaxPackets
  BY <1>1, <1>2, Consts
<1>7. (f + count) * FrameTS \in Nat /\ (f + count) * FrameTS <= (g + MaxPackets) * FrameTS
  BY <1>6, Consts, Products
<1>8. ASSUME cur # None PROVE (f + count) * FrameTS + FrameTS < H
  <2>1. (f + count) + 1 \in Nat /\ (f + count) + 1 <= g + MaxPackets
    BY <1>1, <1>2, <1>8, Consts
  <2>2. ((f + count) + 1) * FrameTS <= (g + MaxPackets) * FrameTS
    BY <1>6, <2>1, Consts, Products
  <2>3. ((f + count) + 1) * FrameTS = (f + count) * FrameTS + FrameTS
    BY <1>6, Consts, Products
  <2>4. (g + MaxPackets) * FrameTS \in Nat
    BY <1>6, Consts, Products
  <2> QED BY <1>3, <1>4, <1>7, <2>2, <2>3, <2>4, Consts
<1>9. (g + MaxPackets) * FrameTS \in Nat
  BY <1>6, Consts, Products
<1>10. (f + count) * FrameTS < H
  BY <1>3, <1>4, <1>7, <1>9
<1>11. cur # None => (f + count) * FrameTS + FrameTS < H
  BY <1>8
<1> QED BY <1>4, <1>5, <1>7, <1>10, <1>11 DEF H

LEMMA Positions ==
  ASSUME WriterInv, ShortCall, NEW t \in Known
  PROVE  /\ t \in TS /\ pos(t) \in Nat /\ pos(t) <= reach /\ pos(t) < TSMod \div 2
         /\ anchorTime = None => t = Offset
<1>1. t \in TS
  BY Types
<1>2. pos(t) \in 0..TSMod-1
  BY <1>1, PosTypes
<1>3. pos(t) <= reach
  BY DEF WriterInv
<1>4. TSMod \div 2 \in Nat
  BY Consts
<1>5. pos(t) < TSMod \div 2
  BY <1>2, <1>3, <1>4, Reaches, Consts
<1> QED BY <1>1, <1>2, <1>3, <1>5 DEF WriterInv

\* The wall clock in timestamps.
LEMMA Projection ==
  ASSUME WriterInv, ShortCall, anchorTime # None
  PROVE  /\ now - anchorTime \in Nat
         /\ projectWallclockTS \in TS
         /\ pos(projectWallclockTS) = frames(now - anchorTime) * FrameTS
         /\ pos(projectWallclockTS) <= reach
<1> DEFINE f == frames(now)
           g == frames(now - anchorTime)
<1>1. anchorTime \in Nat /\ anchorTime <= now /\ now \in Nat /\ anchorTS = Offset
  BY Types DEF WriterInv, WriterTypeOK
<1>2. now - anchorTime \in Nat /\ now - anchorTime <= now
  BY <1>1
<1>3. f \in Nat /\ g \in Nat /\ g <= f
  BY <1>1, <1>2, FramesAre
<1>4. projectWallclockTS = (Offset + g * FrameTS) % TSMod
  BY <1>1 DEF projectWallclockTS
<1>5. reach = (f + count) * FrameTS /\ count \in Nat
  BY Types DEF reach
<1> HIDE DEF f, g
<1>6. g <= f + count /\ f + count \in Nat
  BY <1>3, <1>5
<1>7. g * FrameTS \in Nat /\ g * FrameTS <= reach
  BY <1>3, <1>5, <1>6, Consts, Products
<1>8. g * FrameTS < TSMod
  <2>1. TSMod \div 2 \in Nat /\ TSMod \in Nat
    BY Consts
  <2> QED BY <1>7, <2>1, Reaches
<1>9. pos(Offset) + g * FrameTS = g * FrameTS /\ Offset \in TS
  BY <1>7, PosTypes, Consts
<1>10. /\ (Offset + g * FrameTS) % TSMod \in TS
       /\ pos((Offset + g * FrameTS) % TSMod) = pos(Offset) + g * FrameTS
  BY <1>7, <1>8, <1>9, PosAdds
<1> QED BY <1>2, <1>4, <1>7, <1>9, <1>10 DEF g

\* CurTS only moves a timestamp forward, up to where a timestamp has come already
\* or to the wall clock.
LEMMA CurForward ==
  ASSUME WriterInv, ShortCall, NEW t \in Known
  PROVE  /\ CurTS(t) \in TS /\ pos(t) <= pos(CurTS(t)) /\ pos(CurTS(t)) <= reach
         /\ anchorTime = None => CurTS(t) = Offset
<1> DEFINE u == notBehind(t)
<1>1. maxTS \in Known
  BY Types
<1>2. u \in Known /\ pos(t) <= pos(u)
  <2>1. ahead(maxTS, t) <=> pos(t) < pos(maxTS)
    BY <1>1, Positions, AheadIs
  <2>2. pos(t) \in Nat /\ pos(maxTS) \in Nat
    BY <1>1, Positions
  <2> QED BY <1>1, <2>1, <2>2 DEF notBehind
<1>3. CurTS(t) = IF anchorTime # None /\ tooLate(u) THEN projectWallclockTS ELSE u
  BY DEF CurTS
<1> HIDE DEF u
<1>4. /\ u \in TS /\ pos(u) \in Nat /\ pos(u) <= reach /\ pos(u) < TSMod \div 2
      /\ anchorTime = None => u = Offset
  BY <1>2, Positions
<1>5. CASE anchorTime # None /\ tooLate(u)
  <2> DEFINE w == projectWallclockTS
  <2>1. w \in TS /\ pos(w) <= reach
    BY <1>5, Projection
  <2>2. pos(w) \in Nat
    BY <2>1, PosTypes
  <2> HIDE DEF w
  <2>3. pos(w) < TSMod \div 2
    <3>1. TSMod \div 2 \in Nat
      BY Consts
    <3> QED BY <2>1, <2>2, <3>1, Reaches
  <2>4. ahead(w, u)
    BY <1>5 DEF tooLate, w
  <2>5. pos(u) < pos(w)
    BY <1>4, <2>1, <2>3, <2>4, AheadIs
  <2>6. pos(t) \in Nat
    BY Positions
  <2> QED BY <1>2, <1>3, <1>4, <1>5, <2>1, <2>2, <2>5, <2>6 DEF w
<1>6. CASE ~(anchorTime # None /\ tooLate(u))
  BY <1>2, <1>3, <1>4, <1>6
<1> QED BY <1>5, <1>6

LEMMA WriterStarts == WriterInit => WriterInv
<1> SUFFICES ASSUME WriterInit PROVE WriterInv
  OBVIOUS
<1> USE DEF WriterInit
<1>1. WriterTypeOK
  <2>1. 0 \in TS /\ 0 \in 0..SNMod-1
    BY Consts DEF TS
  <2> QED BY <2>1, Consts DEF WriterTypeOK
<1>2. \A t \in Known : t = Offset
  BY DEF Known
<1>3. pos(Offset) <= reach
  <2>1. frames(0) \in Nat
    BY FramesAre
  <2>2. (frames(0) + 0) * FrameTS \in Nat
    BY <2>1, Consts, Products
  <2> QED BY <2>2, PosTypes DEF reach
<1>4. 0 <= MaxTime /\ 0 <= MaxPackets
  BY Consts
<1> QED BY <1>1, <1>2, <1>3, <1>4 DEF WriterInv

\* The steps that only set timestamps of the streams.
LEMMA Placed ==
  ASSUME WriterInv,
         UNCHANGED <<now, anchorTime, anchorTS, maxTS, seq, wire, sent, count>>,
         ts' \in [Streams -> TS \cup {None}], cur' \in TS \cup {None},
         \A t \in Known' : t \in Known \/ (pos(t) <= reach /\ (anchorTime = None => t = Offset)),
         cur' # None => /\ count < MaxPackets /\ ts'[Audio] # None
                        /\ pos(ts'[Audio]) <= pos(cur'),
         ts[Audio] # None => ts'[Audio] = ts[Audio]
  PROVE  WriterInv'
<1>1. reach' = reach
  BY DEF reach, frames
<1>2. WriterTypeOK'
  BY DEF WriterInv, WriterTypeOK
<1>3. \A t \in Known' : pos(t) <= reach /\ (anchorTime = None => t = Offset)
  BY DEF WriterInv
<1> QED BY <1>1, <1>2, <1>3 DEF WriterInv

LEMMA AtNewStream ==
  ASSUME WriterInv, NEW s \in Streams, NewStream(s)
  PROVE  WriterInv'
<1>1. maxTS \in TS /\ maxTS \in Known
  BY Types
<1>2. ts \in [Streams -> TS \cup {None}] /\ cur \in TS \cup {None}
  BY DEF WriterInv, WriterTypeOK
<1>3. ts' = [ts EXCEPT ![s] = maxTS] /\ ts[s] = None
      /\ UNCHANGED <<now, anchorTime, anchorTS, maxTS, seq, cur, wire, sent, count>>
  BY DEF NewStream
<1>4. ts' \in [Streams -> TS \cup {None}]
  BY <1>1, <1>2, <1>3
<1>5. \A r \in Streams : ts'[r] = IF r = s THEN maxTS ELSE ts[r]
  BY <1>2, <1>3
<1>6. \A t \in Known' : t \in Known
  BY <1>1, <1>3, <1>5 DEF Known
<1>7. Audio \in Streams
  BY DEF Streams
<1>8. ts[Audio] # None => ts'[Audio] = ts[Audio]
  BY <1>3, <1>5, <1>7
<1>9. cur' # None => /\ count < MaxPackets /\ ts'[Audio] # None
                     /\ pos(ts'[Audio]) <= pos(cur')
  BY <1>3, <1>8 DEF WriterInv
<1> QED BY <1>2, <1>3, <1>4, <1>6, <1>8, <1>9, Placed

LEMMA AtWritePayload ==
  ASSUME WriterInv, ShortCall, WritePayload
  PROVE  WriterInv'
<1>1. Audio \in Streams
  BY DEF Streams
<1>2. ts[Audio] \in Known
  BY <1>1, Types DEF WritePayload
<1>3. /\ cur' \in TS /\ pos(ts[Audio]) <= pos(cur') /\ pos(cur') <= reach
      /\ anchorTime = None => cur' = Offset
  BY <1>2, CurForward DEF WritePayload
<1>4. UNCHANGED <<now, anchorTime, anchorTS, maxTS, seq, ts, wire, sent, count>>
      /\ ts[Audio] # None /\ count < MaxPackets
  BY DEF WritePayload
<1>5. \A t \in Known' : t \in Known \/ t = cur'
  BY <1>4 DEF Known
<1>6. ts' \in [Streams -> TS \cup {None}]
  BY <1>4 DEF WriterInv, WriterTypeOK
<1> QED BY <1>3, <1>4, <1>5, <1>6, Placed

LEMMA AtSync ==
  ASSUME WriterInv, ShortCall, NEW s \in Manual, SyncTimestamp(s)
  PROVE  WriterInv'
<1> DEFINE w == ProjectWallclockTS
<1>1. w \in TS /\ pos(w) <= reach /\ (anchorTime = None => w = Offset)
  <2>1. CASE anchorTime = None
    BY <2>1, Types, Positions DEF ProjectWallclockTS
  <2>2. CASE anchorTime # None
    BY <2>2, Projection DEF ProjectWallclockTS
  <2> QED BY <2>1, <2>2
<1>2. ts \in [Streams -> TS \cup {None}] /\ cur \in TS \cup {None}
  BY DEF WriterInv, WriterTypeOK
<1>3. ts' = [ts EXCEPT ![s] = w] /\ ts[s] # None
      /\ UNCHANGED <<now, anchorTime, anchorTS, maxTS, seq, cur, wire, sent, count>>
  BY DEF SyncTimestamp
<1> HIDE DEF w
<1>4. s \in Streams /\ Audio \in Streams /\ s # Audio
  BY Consts DEF Streams
<1>5. ts' \in [Streams -> TS \cup {None}]
  BY <1>1, <1>2, <1>3
<1>6. \A r \in Streams : ts'[r] = IF r = s THEN w ELSE ts[r]
  BY <1>2, <1>3
<1>7. \A t \in Known' : t \in Known \/ t = w
  BY <1>3, <1>6 DEF Known
<1>8. ts'[Audio] = ts[Audio]
  BY <1>4, <1>6
<1>9. cur' # None => /\ count < MaxPackets /\ ts'[Audio] # None
                     /\ pos(ts'[Audio]) <= pos(cur')
  BY <1>3, <1>8 DEF WriterInv
<1> QED BY <1>1, <1>2, <1>3, <1>5, <1>7, <1>8, <1>9, Placed

LEMMA ReachGrows ==
  ASSUME WriterInv, now' \in Nat, now <= now', count' \in Nat, count <= count'
  PROVE  reach \in Nat /\ reach' \in Nat /\ reach <= reach'
         /\ (count' = count + 1 /\ now' = now => reach' = reach + FrameTS)
<1> DEFINE f == frames(now)
           g == frames(now')
<1>1. now \in Nat /\ count \in Nat
  BY Types
<1>2. f \in Nat /\ g \in Nat /\ f <= g /\ (now' = now => f = g)
  BY <1>1, FramesAre
<1>3. reach = (f + count) * FrameTS /\ reach' = (g + count') * FrameTS
  BY DEF reach, frames
<1> HIDE DEF f, g
<1>4. f + count \in Nat /\ g + count' \in Nat /\ f + count <= g + count'
  <2>1. \A i, j, m, n \in Nat : i <= j /\ m <= n
                                 => i + m \in Nat /\ j + n \in Nat /\ i + m <= j + n
    OBVIOUS
  <2> QED BY <1>1, <1>2, <2>1
<1>5. now' = now /\ count' = count + 1 => g + count' = (f + count) + 1
  BY <1>1, <1>2
<1>6. (f + count) * FrameTS \in Nat /\ (g + count') * FrameTS \in Nat
      /\ (f + count) * FrameTS <= (g + count') * FrameTS
  BY <1>4, Consts, Products
<1>7. ((f + count) + 1) * FrameTS = (f + count) * FrameTS + FrameTS
  BY <1>4, Consts, Products
<1> QED BY <1>3, <1>5, <1>6, <1>7

LEMMA AtClock ==
  ASSUME WriterInv, WriterClock
  PROVE  WriterInv'
<1>1. /\ now' = now + 1 /\ now < MaxTime
      /\ UNCHANGED <<anchorTime, anchorTS, maxTS, seq, ts, cur, wire, sent, count>>
  BY DEF WriterClock
<1>2. now \in Nat /\ count \in Nat
  BY Types
<1>3. reach \in Nat /\ reach' \in Nat /\ reach <= reach'
  BY <1>1, <1>2, ReachGrows
<1>4. WriterTypeOK'
  BY <1>1, <1>2 DEF WriterInv, WriterTypeOK
<1>5. Known' = Known
  BY <1>1 DEF Known
<1>6. \A t \in Known' : pos(t) <= reach'
  <2> TAKE t \in Known'
  <2>1. pos(t) <= reach /\ pos(t) \in Int
    BY <1>5, Types, PosTypes DEF WriterInv
  <2> QED BY <1>3, <2>1
<1>7. now' <= MaxTime /\ (anchorTime # None => anchorTime <= now')
  <2>1. anchorTime # None => anchorTime \in Nat /\ anchorTime <= now
    BY DEF WriterInv, WriterTypeOK
  <2> QED BY <1>1, <1>2, <2>1, Consts
<1> QED BY <1>1, <1>4, <1>5, <1>6, <1>7 DEF WriterInv

\* What a write leaves of the clock, the sequence number and the last packet.
LEMMA Written ==
  ASSUME WriterInv, ShortCall, NEW s \in Streams, NEW t \in Known, NEW ok \in BOOLEAN,
         WriteEvent(s, t, ok)
  PROVE  /\ anchorTime' \in Nat /\ anchorTime' <= now /\ anchorTS' = Offset
         /\ maxTS' \in Known
         /\ seq' \in 0..SNMod-1
         /\ wire' \in [sn : 0..SNMod-1, ts : TS] \cup {NoPacket}
         /\ wire' # NoPacket => seq' = (wire'.sn + 1) % SNMod
         /\ wire' # wire /\ wire # NoPacket => wire'.sn = (wire.sn + 1) % SNMod
<1>1. now \in Nat /\ maxTS \in Known /\ seq \in 0..SNMod-1 /\ t \in TS
  BY Types
<1>2. anchorTime' \in Nat /\ anchorTime' <= now /\ anchorTS' = Offset
  <2>1. CASE anchorTime = None
    BY <1>1, <2>1, Positions DEF WriteEvent
  <2>2. CASE anchorTime # None
    BY <2>2 DEF WriteEvent, WriterInv, WriterTypeOK
  <2> QED BY <2>1, <2>2
<1>3. maxTS' \in Known
  BY <1>1 DEF WriteEvent
<1>4. (seq + 1) % SNMod \in 0..SNMod-1
  BY <1>1, Consts
<1>5. seq' = IF ok THEN (seq + 1) % SNMod ELSE seq
  BY DEF WriteEvent, nextSeq
<1>6. wire' = IF ok THEN [sn |-> seq, ts |-> t] ELSE wire
  BY DEF WriteEvent
<1>7. wire \in [sn : 0..SNMod-1, ts : TS] \cup {NoPacket}
      /\ (wire # NoPacket => seq = (wire.sn + 1) % SNMod)
  BY DEF WriterInv, WriterTypeOK
<1>8. [sn |-> seq, ts |-> t] \in [sn : 0..SNMod-1, ts : TS]
  BY <1>1
<1>9. [sn |-> seq, ts |-> t].sn = seq
  OBVIOUS
<1> QED BY <1>1, <1>2, <1>3, <1>4, <1>5, <1>6, <1>7, <1>8, <1>9

LEMMA AtPayloadEvent ==
  ASSUME WriterInv, ShortCall, NEW ok \in BOOLEAN, WritePayloadEvent(ok)
  PROVE  /\ WriterInv'
         /\ wire' # wire /\ wire # NoPacket => wire'.sn = (wire.sn + 1) % SNMod
         /\ ok => sent' = cur
<1>1. Audio \in Streams /\ cur \in Known /\ cur # None /\ WriteEvent(Audio, cur, ok)
  BY Types DEF WritePayloadEvent, Streams
<1>2. cur' = None /\ now' = now /\ ts' = IF ok THEN [ts EXCEPT ![Audio] = advanced] ELSE ts
  BY DEF WritePayloadEvent
<1>3. /\ anchorTime' \in Nat /\ anchorTime' <= now /\ anchorTS' = Offset
      /\ maxTS' \in Known
      /\ seq' \in 0..SNMod-1
      /\ wire' \in [sn : 0..SNMod-1, ts : TS] \cup {NoPacket}
      /\ wire' # NoPacket => seq' = (wire'.sn + 1) % SNMod
      /\ wire' # wire /\ wire # NoPacket => wire'.sn = (wire.sn + 1) % SNMod
  BY <1>1, Written
<1>4. count' = count + 1 /\ sent' = IF ok THEN cur ELSE sent
  BY <1>1 DEF WriteEvent
<1>5. now \in Nat /\ count \in Nat /\ Known \subseteq TS /\ now <= MaxTime
      /\ count < MaxPackets
  BY <1>1, Types DEF WriterInv
<1>6. reach \in Nat /\ reach' \in Nat /\ reach <= reach' /\ reach' = reach + FrameTS
  BY <1>2, <1>4, <1>5, ReachGrows
<1>7. advanced \in TS /\ pos(advanced) = pos(cur) + FrameTS /\ pos(cur) \in Nat
      /\ pos(cur) <= reach
  <2>1. cur \in TS /\ pos(cur) \in Nat /\ pos(cur) <= reach
    BY <1>1, Positions
  <2>2. pos(cur) + FrameTS < TSMod
    <3>1. TSMod \div 2 \in Nat /\ TSMod \in Nat /\ FrameTS \in Nat
      BY Consts
    <3>2. reach + FrameTS < TSMod \div 2 /\ TSMod \div 2 <= TSMod
      BY <1>1, Reaches
    <3> HIDE DEF reach
    <3> QED BY <1>6, <2>1, <3>1, <3>2
  <2> QED BY <2>1, <2>2, PosAdds, Consts DEF advanced
<1>8. ts \in [Streams -> TS \cup {None}] /\ sent \in TS \cup {None}
  BY DEF WriterInv, WriterTypeOK
<1>9. ts' \in [Streams -> TS \cup {None}]
  BY <1>2, <1>7, <1>8
<1>10. \A s \in Streams : ts'[s] = IF ok /\ s = Audio THEN advanced ELSE ts[s]
  BY <1>2, <1>8
<1>11. \A t \in Known' : t \in Known \/ t = advanced
  BY <1>2, <1>3, <1>10 DEF Known
<1>12. \A t \in Known' : pos(t) <= reach'
  <2> TAKE t \in Known'
  <2>1. CASE t \in Known
    <3>1. pos(t) \in Nat /\ pos(t) <= reach
      BY <2>1, Positions
    <3> QED BY <1>6, <3>1
  <2>2. CASE t = advanced
    BY <1>6, <1>7, <2>2, Consts
  <2> QED BY <1>11, <2>1, <2>2
<1>13. WriterTypeOK'
  <2>1. count' \in Nat /\ sent' \in TS \cup {None} /\ cur' \in TS \cup {None}
    BY <1>1, <1>2, <1>4, <1>5, <1>8
  <2>2. maxTS' \in TS /\ anchorTS' \in TS /\ now' \in Nat
    BY <1>2, <1>3, <1>5, Consts
  <2> QED BY <1>3, <1>9, <2>1, <2>2 DEF WriterTypeOK
<1>14. sent' # None => ts'[Audio] # None /\ pos(sent') + FrameTS <= pos(ts'[Audio])
  <2>1. CASE ok
    <3>1. ts'[Audio] = advanced /\ sent' = cur
      BY <1>1, <1>4, <1>10, <2>1
    <3>2. pos(advanced) \in Nat /\ advanced # None
      BY <1>7, PosTypes, Types
    <3> QED BY <1>7, <3>1, <3>2
  <2>2. CASE ~ok
    BY <1>1, <1>4, <1>10, <2>2 DEF WriterInv
  <2> QED BY <2>1, <2>2
<1>15. anchorTime' # None
  BY <1>3 DEF None
<1>16. count' <= MaxPackets /\ now' <= MaxTime
  BY <1>2, <1>4, <1>5, Consts
<1>17. WriterInv'
  BY <1>2, <1>3, <1>12, <1>13, <1>14, <1>15, <1>16 DEF WriterInv
<1> QED BY <1>3, <1>4, <1>17

LEMMA AtCurrent ==
  ASSUME WriterInv, ShortCall, NEW r \in Manual, NEW ok \in BOOLEAN,
         WritePayloadAtCurrent(r, ok)
  PROVE  /\ WriterInv'
         /\ wire' # wire /\ wire # NoPacket => wire'.sn = (wire.sn + 1) % SNMod
<1>1. r \in Streams /\ r # Audio /\ ts[r] \in Known /\ WriteEvent(r, ts[r], ok)
  BY Types, Consts DEF WritePayloadAtCurrent, Streams
<1>2. UNCHANGED <<now, ts, cur>>
  BY DEF WritePayloadAtCurrent
<1>3. /\ anchorTime' \in Nat /\ anchorTime' <= now /\ anchorTS' = Offset
      /\ maxTS' \in Known
      /\ seq' \in 0..SNMod-1
      /\ wire' \in [sn : 0..SNMod-1, ts : TS] \cup {NoPacket}
      /\ wire' # NoPacket => seq' = (wire'.sn + 1) % SNMod
      /\ wire' # wire /\ wire # NoPacket => wire'.sn = (wire.sn + 1) % SNMod
  BY <1>1, Written
<1>4. count' = count /\ sent' = sent
  BY <1>1 DEF WriteEvent
<1>5. reach' = reach
  BY <1>2, <1>4 DEF reach, frames
<1>6. \A t \in Known' : t \in Known
  BY <1>2, <1>3 DEF Known
<1>7. WriterTypeOK'
  <2>1. maxTS' \in TS /\ anchorTS' \in TS
    BY <1>3, Types, Consts
  <2> QED BY <1>2, <1>3, <1>4, <2>1 DEF WriterInv, WriterTypeOK
<1>8. anchorTime' # None
  BY <1>3 DEF None
<1>9. WriterInv'
  BY <1>2, <1>3, <1>4, <1>5, <1>6, <1>7, <1>8 DEF WriterInv
<1> QED BY <1>3, <1>9

LEMMA WriterSteps ==
  ASSUME ShortCall, WriterInv, [WriterNext]_writerVars
  PROVE  WriterInv'
<1>1. CASE \E s \in Streams : NewStream(s)
  BY <1>1, AtNewStream
<1>2. CASE WritePayload
  BY <1>2, AtWritePayload
<1>3. CASE \E ok \in BOOLEAN : WritePayloadEvent(ok)
  BY <1>3, AtPayloadEvent
<1>4. CASE \E s \in Manual, ok \in BOOLEAN : WritePayloadAtCurrent(s, ok)
  BY <1>4, AtCurrent
<1>5. CASE \E s \in Manual : SyncTimestamp(s)
  BY <1>5, AtSync
<1>6. CASE WriterClock
  BY <1>6, AtClock
<1>7. CASE UNCHANGED writerVars
  <2>1. reach' = reach /\ Known' = Known
    BY <1>7 DEF reach, Known, writerVars, frames
  <2>2. WriterTypeOK'
    BY <1>7 DEF WriterInv, WriterTypeOK, writerVars
  <2> QED BY <1>7, <2>1, <2>2 DEF WriterInv, writerVars
<1> QED BY <1>1, <1>2, <1>3, <1>4, <1>5, <1>6, <1>7 DEF WriterNext

\* The invariant of the sequence writer: before the first packet nothing has moved,
\* later no timestamp is further than the wall clock and the packets written account
\* for (rtp/rtp.go, WriteEvent, CurTS and SyncTimestamp).
THEOREM WriterInvariant ==
  ASSUME ShortCall PROVE WriterSpec => []WriterInv
<1>1. WriterInv /\ [WriterNext]_writerVars => WriterInv'
  BY WriterSteps
<1> QED BY <1>1, WriterStarts, PTL DEF WriterSpec

\* One sequence number after the other, and the timestamps of the audio a frame or
\* more apart, whichever streams write, sync and fail in between.
THEOREM HeadersAdvanceHold ==
  ASSUME ShortCall PROVE WriterSpec => HeadersAdvance
<1> DEFINE Goal ==
      /\ wire' # wire /\ wire # NoPacket => wire'.sn = (wire.sn + 1) % SNMod
      /\ audioWritten /\ sent # None =>
           /\ ahead(sent', sent)
           /\ (sent' - sent) % TSMod >= FrameTS
<1>1. ASSUME WriterInv, [WriterNext]_writerVars PROVE [Goal]_writerVars
  <2>1. CASE \E ok \in BOOLEAN : WritePayloadEvent(ok)
    <3>1. PICK ok \in BOOLEAN : WritePayloadEvent(ok)
      BY <2>1
    <3>2. wire' # wire /\ wire # NoPacket => wire'.sn = (wire.sn + 1) % SNMod
      BY <1>1, <3>1, AtPayloadEvent
    <3>3. ASSUME audioWritten, sent # None
          PROVE  ahead(sent', sent) /\ (sent' - sent) % TSMod >= FrameTS
      <4>1. ok
        BY <3>1, <3>3 DEF audioWritten, WritePayloadEvent, WriteEvent, nextSeq
      <4>2. sent' = cur /\ cur \in Known
        BY <1>1, <3>1, <4>1, AtPayloadEvent, Types DEF WritePayloadEvent
      <4>3. ts[Audio] # None /\ pos(ts[Audio]) <= pos(cur)
            /\ pos(sent) + FrameTS <= pos(ts[Audio])
        BY <1>1, <3>1, <3>3 DEF WriterInv, WritePayloadEvent
      <4>4. ts[Audio] \in Known
        BY <1>1, <4>3, Types DEF Streams
      <4>5. cur \in TS /\ pos(cur) \in Nat /\ pos(cur) < TSMod \div 2 /\ pos(ts[Audio]) \in Nat
        BY <1>1, <4>2, <4>4, Positions
      <4>6. sent \in TS /\ pos(sent) \in Nat
        BY <1>1, <3>3, Types, PosTypes
      <4>7. pos(sent) + FrameTS <= pos(cur) /\ pos(sent) < pos(cur)
        BY <4>3, <4>5, <4>6, Consts
      <4>8. pos(sent) < TSMod \div 2
        BY <4>5, <4>6, <4>7, Consts
      <4>9. ahead(cur, sent) /\ (cur - sent) % TSMod = pos(cur) - pos(sent)
        BY <4>5, <4>6, <4>7, <4>8, AheadIs
      <4> QED BY <4>2, <4>5, <4>6, <4>7, <4>9, Consts
    <3> QED BY <3>2, <3>3
  <2>2. CASE \E s \in Manual, ok \in BOOLEAN : WritePayloadAtCurrent(s, ok)
    <3>1. wire' # wire /\ wire # NoPacket => wire'.sn = (wire.sn + 1) % SNMod
      BY <1>1, <2>2, AtCurrent
    <3>2. ~audioWritten
      BY <2>2 DEF WritePayloadAtCurrent, audioWritten
    <3> QED BY <3>1, <3>2
  <2>3. CASE \/ \E s \in Streams : NewStream(s)
             \/ WritePayload
             \/ \E s \in Manual : SyncTimestamp(s)
             \/ WriterClock
    <3>1. wire' = wire /\ seq' = seq
      BY <2>3 DEF NewStream, WritePayload, SyncTimestamp, WriterClock
    <3> QED BY <3>1 DEF audioWritten
  <2>4. CASE UNCHANGED writerVars
    BY <2>4
  <2> QED BY <1>1, <2>1, <2>2, <2>3, <2>4 DEF WriterNext
<1> QED BY <1>1, WriterInvariant, PTL DEF WriterSpec, HeadersAdvance

----------------------------------------------------------------------------
(* dtmf.Write beside the audio.                                            *)

\* Writing digits beside the audio only restricts the sequence writer: SyncTimestamp
\* and WritePayloadAtCurrent are all that dtmf.Write does to it.
THEOREM DTMFRunsWriter == DTMFSpec => WriterSpec
<1>1. DTMFInit => WriterInit
  BY DEF DTMFInit
<1>2. ASSUME DTMFNext PROVE [WriterNext]_writerVars
  <2>1. Events \in Manual
    BY Consts
  <2>2. CASE Write \/ Cancel \/ Finish \/ Frame \/ Silence \/ NextEvent
    BY <2>2 DEF Write, Cancel, Finish, Frame, Silence, NextEvent
  <2>3. CASE FirstEvent
    BY <2>1, <2>3 DEF FirstEvent, WriterNext
  <2>4. CASE WriteEvents \/ WriteFails
    BY <2>1, <2>4 DEF WriteEvents, WriteFails, WriterNext
  <2>5. CASE Sound
    BY <2>5 DEF Sound, WriterNext
  <2>6. CASE DTMFClock
    BY <2>6 DEF DTMFClock, WriterNext
  <2> QED BY <1>2, <2>2, <2>3, <2>4, <2>5, <2>6 DEF DTMFNext
<1>3. [DTMFNext]_<<writerVars, dtmfVars>> => [WriterNext]_writerVars
  BY <1>2
<1> QED BY <1>1, <1>3, PTL DEF DTMFSpec, WriterSpec

\* The headers go on as a receiver expects while digits are written, retried and
\* cancelled beside the audio.
THEOREM DTMFHeadersAdvance ==
  ASSUME ShortCall PROVE DTMFSpec => HeadersAdvance
BY DTMFRunsWriter, HeadersAdvanceHold, PTL

Chars == {"1", "2"}

running == at \in {"select", "frame", "event"}

\* When the ticker last fired, or would have.
lastTick == now - ((now - phase) % FrameDur)

\* The digit that is on has had its first frame, and not yet its last event.
open == /\ code # NoCode
        /\ ~(at = "frame" /\ first) /\ ~(at = "select" /\ remaining = 0)

\* The digit that is on has not had its first packet.
opening == at = "event" /\ first

\* How many ticks at least were taken after the one of the last digit's first frame:
\* the rest of the digit and the pause after it are counted down.
used ==
  LET left == remaining + (IF at = "select" THEN 1 ELSE 0)
  IN  IF code = NoCode THEN 2 * EventFrames - left
      ELSE IF at = "frame" /\ first THEN 2 * EventFrames
      ELSE EventFrames - left

waiting == IF tick THEN 1 ELSE 0

\* The frames from the anchor to the last tick.
elapsed == frames((lastTick - 1) - anchorTime)

\* What the loop of Write has in its variables.
LoopInv ==
  /\ at \in {"idle", "select", "frame", "event", "done"}
  /\ code \in {1, 2, NoCode} /\ remaining \in Nat /\ totalDur \in Nat
  /\ nextDelay \in {0, EventFrames}
  /\ repeats \in 0..2 /\ losses \in 0..MaxLost
  /\ phase \in 0..FrameDur-1 /\ tick \in BOOLEAN
  /\ begun \in Seq(Chars) /\ marked \in Seq(Chars) /\ heard \in Seq([ts : TS, digit : Chars])
  /\ running => ts[Events] # None
  /\ ~running => /\ code = NoCode /\ remaining = 0 /\ nextDelay = 0 /\ repeats = 0
                 /\ begun = <<>> /\ marked = <<>> /\ heard = <<>>
                 /\ last = NoEvent /\ ~tick /\ losses = 0
  /\ code # NoCode => /\ totalDur = EventFrames /\ remaining <= EventFrames
                      /\ nextDelay = EventFrames
                      /\ at = "select" => remaining < EventFrames
                      /\ open => begun # <<>> /\ begun[Len(begun)] = eventToChar[code]
  /\ at \in {"frame", "event"} => remaining > 0
  /\ at = "event" => code # NoCode
  /\ repeats # 0 => at = "event" /\ remaining = 1
  /\ last # NoEvent => /\ begun # <<>> /\ last.dur \in 0..EventFrames /\ last.ts \in TS
                       /\ at # "event" => last.ts = ts[Events]

\* The timestamp of the last digit, in frames, and the ticks taken and waiting since
\* fit into the time since the anchor.
PaceInv ==
  begun # <<>> =>
    /\ anchorTime = None => opening
    /\ anchorTime # None =>
         \E n \in Nat :
           /\ pos(ts[Events]) = n * FrameTS
           /\ n + (used + waiting) <= elapsed + 2

\* Whether the last digit begun was heard; if not, its marker and all the ends
\* written are lost.
HeardInv ==
  LET n == Len(begun)
  IN  /\ Len(heard) = n \/ (open /\ Len(heard) = n - 1)
      /\ \A i \in 1..Len(heard) :
           /\ heard[i].digit = begun[i]
           /\ IF i = n THEN heard[i].ts = ts[Events] ELSE pos(heard[i].ts) < pos(ts[Events])
      /\ opening => Len(heard) = n - 1
      /\ Len(heard) # n => losses >= repeats + (IF opening THEN 0 ELSE 1)
      /\ losses = 0 => /\ Len(marked) = IF opening THEN n - 1 ELSE n
                       /\ \A i \in 1..Len(marked) : marked[i] = begun[i]

DigitsInv == LoopInv /\ PaceInv /\ HeardInv

LEMMA LoopConsts ==
  /\ EventFrames \in Nat \ {0} /\ DelayFrames \in Nat \ {0} /\ MaxLost \in Nat
  /\ Events \in Streams /\ Audio \in Streams /\ Events # Audio /\ Events \in Manual
BY Consts, DTMFAssumption DEF Streams

LEMMA CodesAre ==
  /\ \A b : Tone(b) \in {1, 2, NoCode}
  /\ eventToChar[1] \in Chars /\ eventToChar[2] \in Chars
<1>1. \A b \in DOMAIN charToEvent : charToEvent[b] \in {1, 2}
  BY DEF charToEvent
<1> QED BY <1>1 DEF Tone, eventToChar, Chars

\* Only FirstEvent changes the timestamp of a stream that dtmf.Write has.
LEMMA SoundKeeps ==
  ASSUME WriterInv, Sound, ts[Events] # None
  PROVE  ts'[Events] = ts[Events]
<1>1. ts \in [Streams -> TS \cup {None}]
  BY DEF WriterInv, WriterTypeOK
<1>2. CASE \E s \in Streams : NewStream(s)
  BY <1>1, <1>2, LoopConsts DEF NewStream
<1>3. CASE WritePayload
  BY <1>3 DEF WritePayload
<1>4. CASE \E ok \in BOOLEAN : WritePayloadEvent(ok)
  BY <1>1, <1>4, LoopConsts DEF WritePayloadEvent
<1> QED BY <1>2, <1>3, <1>4 DEF Sound

LEMMA LoopStarts == DTMFInit => LoopInv /\ PaceInv /\ HeardInv
<1> SUFFICES ASSUME DTMFInit PROVE LoopInv /\ PaceInv /\ HeardInv
  OBVIOUS
<1> USE DEF DTMFInit
<1>1. LoopInv
  <2>1. 0 \in 0..FrameDur-1 /\ 0 \in 0..MaxLost /\ 0 \in 0..2
    BY Consts, LoopConsts
  <2>2. <<>> \in Seq(Chars) /\ <<>> \in Seq([ts : TS, digit : Chars])
    OBVIOUS
  <2>3. ~running
    BY DEF running
  <2> QED BY <2>1, <2>2, <2>3 DEF LoopInv
<1>2. PaceInv
  BY DEF PaceInv
<1>3. HeardInv
  <2>1. ~opening /\ Len(begun) = 0 /\ Len(heard) = 0 /\ Len(marked) = 0
    BY DEF opening
  <2> QED BY <2>1 DEF HeardInv
<1> QED BY <1>1, <1>2, <1>3

\* When Write has returned nothing is left of it.
LEMMA LoopReturns ==
  ASSUME Return
  PROVE  LoopInv' /\ PaceInv' /\ HeardInv'
<1> USE DEF Return
<1>1. LoopInv'
  <2>1. 0 \in 0..FrameDur-1 /\ 0 \in 0..MaxLost /\ 0 \in 0..2
    BY Consts, LoopConsts
  <2>2. <<>> \in Seq(Chars) /\ <<>> \in Seq([ts : TS, digit : Chars])
    OBVIOUS
  <2>3. ~running'
    BY DEF running
  <2> QED BY <2>1, <2>2, <2>3 DEF LoopInv
<1>2. PaceInv'
  BY DEF PaceInv
<1>3. HeardInv'
  <2>1. ~opening' /\ Len(begun') = 0 /\ Len(heard') = 0 /\ Len(marked') = 0
    BY DEF opening
  <2> QED BY <2>1 DEF HeardInv
<1> QED BY <1>1, <1>2, <1>3

LEMMA LoopWrite ==
  ASSUME WriterInv, LoopInv, HeardInv, Write
  PROVE  LoopInv' /\ PaceInv' /\ HeardInv'
<1>1. ~running /\ now \in Nat
  BY Types DEF Write, running
<1>2. /\ UNCHANGED <<writerVars, code, remaining, totalDur, nextDelay, repeats, tick, last,
                     receiver>>
      /\ at' = "select" /\ phase' = now % FrameDur /\ ts[Events] # None
  BY DEF Write
<1>3. phase' \in 0..FrameDur-1
  BY <1>1, <1>2, Consts
<1>4. code = NoCode /\ begun = <<>> /\ last = NoEvent /\ repeats = 0 /\ remaining = 0
  BY <1>1 DEF LoopInv
<1>5. LoopInv'
  BY <1>2, <1>3, <1>4 DEF LoopInv, running, writerVars, receiver
<1>6. PaceInv'
  BY <1>2, <1>4 DEF PaceInv, receiver
<1>7. HeardInv'
  <2>1. ~opening /\ ~opening' /\ ~open
    BY <1>1, <1>2, <1>4 DEF opening, running, open
  <2> QED BY <1>2, <2>1 DEF HeardInv, receiver, writerVars
<1> QED BY <1>5, <1>6, <1>7

LEMMA LoopFrame ==
  ASSUME WriterInv, LoopInv, Frame
  PROVE  LoopInv' /\ (code' # NoCode /\ first' => ~open') /\ remaining' \in Nat
<1>1. /\ at = "select" /\ tick /\ tick' = FALSE /\ at' = "frame"
      /\ UNCHANGED <<writerVars, repeats, phase, last, receiver>>
  BY DEF Frame
<1>2. running /\ running' /\ repeats = 0
  BY <1>1 DEF running, LoopInv
<1>3. CASE remaining > 0 /\ UNCHANGED loopVars
  <2>1. open' => open
    BY <1>1, <1>3 DEF open, first, loopVars
  <2>2. LoopInv'
    BY <1>1, <1>2, <1>3, <2>1 DEF LoopInv, running, loopVars, writerVars, receiver
  <2> QED BY <1>1, <1>3, <2>2 DEF open, LoopInv, loopVars
<1>4. ASSUME code' = NoCode, remaining' \in Nat, remaining' > 0, totalDur' \in Nat,
             nextDelay' \in {0, EventFrames}
      PROVE  LoopInv'
  BY <1>1, <1>2, <1>4 DEF LoopInv, running, writerVars, receiver, loopVars
<1>5. CASE remaining <= 0 /\ nextDelay # 0 /\ setDelay(nextDelay)
  <2>1. code' = NoCode /\ remaining' = EventFrames /\ totalDur' = EventFrames /\ nextDelay' = 0
    BY <1>5 DEF setDelay, LoopInv
  <2> QED BY <1>4, <2>1, LoopConsts
<1>6. CASE remaining <= 0 /\ setDelay(DelayFrames)
  <2>1. code' = NoCode /\ remaining' = DelayFrames /\ totalDur' = DelayFrames /\ nextDelay' = 0
    BY <1>6 DEF setDelay
  <2> QED BY <1>4, <2>1, LoopConsts
<1>7. CASE remaining <= 0 /\ setTone(digits[1])
  <2>1. /\ code' \in {1, 2, NoCode} /\ remaining' = EventFrames /\ totalDur' = EventFrames
        /\ nextDelay' = EventFrames
    BY <1>7, CodesAre DEF setTone
  <2>2. ~open'
    BY <1>1, <2>1 DEF open, first
  <2>3. remaining' \in Nat /\ remaining' > 0 /\ totalDur' \in Nat
        /\ remaining' <= EventFrames /\ nextDelay' \in {0, EventFrames}
    BY <2>1, LoopConsts
  <2>4. CASE code' = NoCode
    BY <1>4, <2>2, <2>3, <2>4
  <2>5. CASE code' # NoCode
    <3>1. LoopInv'
      BY <1>1, <1>2, <2>1, <2>2, <2>3, <2>5 DEF LoopInv, running, writerVars, receiver
    <3> QED BY <2>2, <2>3, <3>1
  <2> QED BY <2>4, <2>5
<1>8. \/ remaining > 0 /\ UNCHANGED loopVars
      \/ remaining <= 0 /\ nextDelay # 0 /\ setDelay(nextDelay)
      \/ remaining <= 0 /\ setDelay(DelayFrames)
      \/ remaining <= 0 /\ setTone(digits[1])
  BY DEF Frame
<1> QED BY <1>3, <1>5, <1>6, <1>7, <1>8 DEF open

LEMMA LoopSilence ==
  ASSUME WriterInv, LoopInv, Silence
  PROVE  LoopInv' /\ ~open' /\ ~open
<1>1. /\ at = "frame" /\ code = NoCode /\ at' = "select" /\ remaining' = remaining - 1
      /\ UNCHANGED <<writerVars, digits, code, totalDur, nextDelay, repeats, phase, tick,
                     last, receiver>>
  BY DEF Silence
<1>2. remaining' \in Nat /\ running /\ running' /\ repeats = 0
  BY <1>1 DEF LoopInv, running
<1> QED BY <1>1, <1>2 DEF LoopInv, running, open, writerVars, receiver

LEMMA LoopNextEvent ==
  ASSUME WriterInv, LoopInv, NextEvent
  PROVE  LoopInv' /\ open' /\ open /\ ~opening' /\ ~opening
<1>1. /\ at = "frame" /\ code # NoCode /\ ~first /\ at' = "event"
      /\ UNCHANGED <<writerVars, loopVars, repeats, phase, tick, last, receiver>>
  BY DEF NextEvent
<1>2. running /\ running' /\ repeats = 0
  BY <1>1 DEF LoopInv, running
<1>3. open /\ open' /\ ~opening' /\ ~opening
  BY <1>1 DEF open, opening, first, loopVars
<1> QED BY <1>1, <1>2, <1>3 DEF LoopInv, running, writerVars, receiver, loopVars

LEMMA LoopClock ==
  ASSUME WriterInv, LoopInv, DTMFClock
  PROVE  LoopInv' /\ (open <=> open') /\ (opening <=> opening')
<1>1. /\ UNCHANGED <<anchorTime, ts, at, loopVars, repeats, phase, last, receiver>>
      /\ tick' = (tick \/ (at \notin {"idle", "done"} /\ now' % FrameDur = phase))
  BY DEF DTMFClock, WriterClock
<1>2. tick' \in BOOLEAN
  BY <1>1 DEF LoopInv
<1>3. ~running => ~tick'
  BY <1>1 DEF LoopInv, running
<1>4. (open <=> open') /\ (opening <=> opening') /\ (running <=> running')
  BY <1>1 DEF open, opening, running, first, loopVars
<1> QED BY <1>1, <1>2, <1>3, <1>4 DEF LoopInv, loopVars, receiver

LEMMA LoopSound ==
  ASSUME WriterInv, LoopInv, Sound
  PROVE  LoopInv' /\ (open <=> open') /\ (opening <=> opening')
<1>1. UNCHANGED dtmfVars
  BY DEF Sound
<1>2. running => ts'[Events] = ts[Events]
  BY SoundKeeps DEF LoopInv
<1>3. (open <=> open') /\ (opening <=> opening') /\ (running <=> running')
  BY <1>1 DEF open, opening, running, first, dtmfVars, loopVars
<1>4. last # NoEvent => running
  BY DEF LoopInv
<1> QED BY <1>1, <1>2, <1>3, <1>4 DEF LoopInv, dtmfVars, loopVars, receiver

\* The first packet of a digit takes the wall clock, or the first timestamp of all.
LEMMA Synced ==
  ASSUME WriterInv, ShortCall, LoopInv, FirstEvent
  PROVE  /\ ts'[Events] = ProjectWallclockTS /\ ts'[Events] \in TS
         /\ pos(ts'[Events]) <= reach
         /\ anchorTime = None => ts'[Events] = Offset
         /\ anchorTime # None => pos(ts'[Events]) = frames(now - anchorTime) * FrameTS
         /\ UNCHANGED <<now, anchorTime>>
<1>1. ts \in [Streams -> TS \cup {None}]
  BY DEF WriterInv, WriterTypeOK
<1>2. ts' = [ts EXCEPT ![Events] = ProjectWallclockTS] /\ UNCHANGED <<now, anchorTime>>
  BY DEF FirstEvent, SyncTimestamp
<1>3. ts'[Events] = ProjectWallclockTS
  BY <1>1, <1>2, LoopConsts
<1>4. CASE anchorTime = None
  BY <1>2, <1>3, <1>4, Types, Positions DEF ProjectWallclockTS
<1>5. CASE anchorTime # None
  BY <1>2, <1>3, <1>5, Projection DEF ProjectWallclockTS
<1> QED BY <1>2, <1>3, <1>4, <1>5

LEMMA LoopFirstEvent ==
  ASSUME WriterInv, ShortCall, LoopInv, FirstEvent
  PROVE  /\ LoopInv' /\ opening' /\ open' /\ ~open /\ code # NoCode /\ at = "frame" /\ repeats = 0
         /\ begun' \in Seq(Chars) /\ Len(begun') = Len(begun) + 1
         /\ \A i \in 1..Len(begun) : begun'[i] = begun[i]
         /\ begun'[Len(begun')] = eventToChar[code]
<1>1. /\ at = "frame" /\ code # NoCode /\ first /\ at' = "event"
      /\ begun' = Append(begun, eventToChar[code])
      /\ UNCHANGED <<loopVars, repeats, phase, tick, last, losses, heard, marked>>
  BY DEF FirstEvent
<1>2. begun \in Seq(Chars) /\ code \in {1, 2}
  BY <1>1 DEF LoopInv
<1>3. eventToChar[code] \in Chars
  BY <1>2, CodesAre
<1>4. /\ begun' \in Seq(Chars) /\ Len(begun') = Len(begun) + 1
      /\ \A i \in 1..Len(begun) : begun'[i] = begun[i]
      /\ begun'[Len(begun')] = eventToChar[code]
  BY <1>1, <1>2, <1>3, AppendProperties
<1>5. begun' # <<>>
  BY <1>2, <1>4
<1>6. ts'[Events] \in TS /\ None \notin TS
  BY Synced, Types
<1>7. running /\ running' /\ repeats = 0 /\ ~open /\ open' /\ opening'
  BY <1>1 DEF running, LoopInv, open, opening, first, loopVars
<1>8. LoopInv'
  BY <1>1, <1>2, <1>4, <1>5, <1>6, <1>7 DEF LoopInv, loopVars
<1> QED BY <1>1, <1>4, <1>7, <1>8

LEMMA LoopWriteEvents ==
  ASSUME EventFrames >= 2, WriterInv, LoopInv, WriteEvents
  PROVE  /\ LoopInv' /\ open /\ ~opening'
         /\ UNCHANGED <<now, ts, phase, tick, begun, code, totalDur>>
<1>1. /\ at = "event" /\ last' = Encode
      /\ UNCHANGED <<digits, code, totalDur, nextDelay, phase, tick, begun>>
      /\ UNCHANGED <<now, ts>>
  BY DEF WriteEvents, WritePayloadAtCurrent
<1>2. running /\ open /\ ts[Events] # None /\ remaining \in Nat /\ remaining > 0
      /\ totalDur = EventFrames /\ remaining <= EventFrames /\ code \in {1, 2} /\ code # NoCode
      /\ begun # <<>>
  BY <1>1 DEF LoopInv, running, open
<1>3. ts[Events] \in TS
  BY <1>2, LoopConsts DEF WriterInv, WriterTypeOK
<1>4. marked' \in Seq(Chars) /\ heard' \in Seq([ts : TS, digit : Chars]) /\ losses' \in 0..MaxLost
  <2>1. marked \in Seq(Chars) /\ heard \in Seq([ts : TS, digit : Chars]) /\ losses \in 0..MaxLost
    BY DEF LoopInv
  <2>2. Encode.ts = ts[Events] /\ Encode.code = code
    BY DEF Encode
  <2>3. eventToChar[code] \in Chars
    BY <1>2, CodesAre
  <2>4. Decode(Encode) \in [ts : TS, digit : Chars] /\ Decode(Encode).digit \in Chars
    BY <1>3, <2>2, <2>3 DEF Decode
  <2>5. CASE Receive(Encode)
    BY <2>1, <2>4, <2>5, AppendProperties DEF Receive
  <2>6. CASE Lose
    BY <2>1, <2>6, LoopConsts DEF Lose
  <2> QED BY <2>5, <2>6 DEF WriteEvents
<1>5. last'.ts = ts[Events] /\ last'.dur \in 0..EventFrames
  <2>1. last'.ts = ts[Events] /\ last'.dur = dur
    BY <1>1 DEF Encode
  <2>2. dur \in 0..EventFrames
    BY <1>2, LoopConsts DEF dur
  <2> QED BY <2>1, <2>2
<1>6. CASE end /\ repeats < 2
  <2>1. repeats' = repeats + 1 /\ UNCHANGED <<at, remaining>>
    BY <1>6 DEF WriteEvents
  <2>2. remaining = 1
    BY <1>2, <1>6 DEF end
  <2>3. repeats' \in 0..2
    BY <1>6, <2>1 DEF LoopInv
  <2>4. open' /\ running'
    BY <1>1, <1>2, <2>1 DEF open, running
  <2>5. LoopInv'
    BY <1>1, <1>2, <1>3, <1>4, <1>5, <2>1, <2>2, <2>3, <2>4 DEF LoopInv
  <2>6. ~first'
    BY <1>1, <1>2, <2>1, <2>2, LoopConsts DEF first
  <2> QED BY <1>1, <1>2, <2>5, <2>6 DEF opening
<1>7. CASE ~(end /\ repeats < 2)
  <2>1. repeats' = 0 /\ at' = "select" /\ remaining' = remaining - 1
    BY <1>7 DEF WriteEvents
  <2>2. remaining' \in Nat /\ remaining' < EventFrames /\ remaining' <= EventFrames
    BY <1>2, <2>1, LoopConsts
  <2>3. running' /\ (open' => open)
    BY <1>1, <1>2, <2>1 DEF open, running
  <2>4. LoopInv'
    BY <1>1, <1>2, <1>3, <1>4, <1>5, <2>1, <2>2, <2>3 DEF LoopInv
  <2> QED BY <1>1, <1>2, <2>1, <2>4 DEF opening
<1> QED BY <1>6, <1>7

----------------------------------------------------------------------------
(* The pace of the digits.                                                 *)

LEMMA TicksAre ==
  ASSUME WriterInv, LoopInv
  PROVE  /\ lastTick \in Int /\ lastTick <= now /\ now <= (lastTick - 1) + FrameDur
         /\ now \in Nat /\ used \in Int /\ waiting \in {0, 1}
         /\ anchorTime # None => /\ anchorTime \in Nat /\ elapsed \in Int
                                 /\ elapsed <= frames(now - anchorTime)
                                 /\ frames(now - anchorTime) <= elapsed + 1
<1> DEFINE r == (now - phase) % FrameDur
<1>1. now \in Nat /\ phase \in 0..FrameDur-1
  BY Types DEF LoopInv
<1>2. r \in 0..FrameDur-1
  BY <1>1, Consts
<1>3. lastTick = now - r
  BY DEF lastTick
<1> HIDE DEF r
<1>4. lastTick \in Int /\ lastTick <= now /\ now <= (lastTick - 1) + FrameDur
  BY <1>1, <1>2, <1>3, Consts
<1>5. used \in Int /\ waiting \in {0, 1}
  <2>1. remaining \in Int /\ EventFrames \in Int
    BY LoopConsts DEF LoopInv
  <2> QED BY <2>1 DEF used, waiting
<1>6. ASSUME anchorTime # None
      PROVE  /\ anchorTime \in Nat /\ elapsed \in Int
             /\ elapsed <= frames(now - anchorTime)
             /\ frames(now - anchorTime) <= elapsed + 1
  <2> DEFINE x == (lastTick - 1) - anchorTime
  <2>1. anchorTime \in Nat
    BY <1>6 DEF WriterInv, WriterTypeOK
  <2>2. x \in Int /\ x <= now - anchorTime /\ now - anchorTime <= x + FrameDur
        /\ now - anchorTime \in Int /\ x + FrameDur \in Int
    BY <1>1, <1>4, <2>1, Consts
  <2>3. elapsed = frames(x)
    BY DEF elapsed
  <2> HIDE DEF x
  <2>4. frames(x) \in Int /\ frames(x + FrameDur) = frames(x) + 1
    BY <2>2, FramesAre
  <2>5. frames(x) <= frames(now - anchorTime) /\ frames(now - anchorTime) <= frames(x + FrameDur)
    BY <2>2, FramesAre
  <2> QED BY <2>1, <2>3, <2>4, <2>5
<1> QED BY <1>1, <1>4, <1>5, <1>6

\* A step that takes no longer than it counts keeps the pace.
LEMMA PaceKept ==
  ASSUME PaceInv, begun' = begun, ts'[Events] = ts[Events], anchorTime' = anchorTime,
         anchorTime = None /\ begun # <<>> /\ opening => opening',
         used \in Int, used' \in Int, waiting \in Int, waiting' \in Int,
         anchorTime # None => /\ elapsed \in Int /\ elapsed' \in Int
                              /\ (used' + waiting') - (used + waiting) <= elapsed' - elapsed
  PROVE  PaceInv'
<1>1. CASE begun = <<>>
  BY <1>1 DEF PaceInv
<1>2. CASE begun # <<>> /\ anchorTime = None
  BY <1>2 DEF PaceInv
<1>3. CASE begun # <<>> /\ anchorTime # None
  <2>1. PICK n \in Nat : pos(ts[Events]) = n * FrameTS /\ n + (used + waiting) <= elapsed + 2
    BY <1>3 DEF PaceInv
  <2>2. n + (used' + waiting') <= elapsed' + 2
    BY <1>3, <2>1
  <2>3. pos(ts'[Events]) = n * FrameTS
    BY <2>1
  <2> QED BY <1>3, <2>2, <2>3 DEF PaceInv, pos
<1> QED BY <1>1, <1>2, <1>3

LEMMA PaceFrame ==
  ASSUME WriterInv, LoopInv, PaceInv, Frame, LoopInv', WriterInv'
  PROVE  PaceInv'
<1>1. /\ at = "select" /\ tick /\ tick' = FALSE /\ at' = "frame"
      /\ UNCHANGED <<writerVars, repeats, phase, last, receiver>>
  BY DEF Frame
<1>2. now' = now /\ ts' = ts /\ anchorTime' = anchorTime /\ begun' = begun /\ phase' = phase
  BY <1>1 DEF writerVars, receiver
<1>3. elapsed' = elapsed
  BY <1>2 DEF elapsed, lastTick, frames
<1>4. waiting = 1 /\ waiting' = 0
  BY <1>1 DEF waiting
<1>5. remaining \in Nat /\ EventFrames \in Nat /\ DelayFrames \in Nat
  BY LoopConsts DEF LoopInv
<1>6. ~opening
  BY <1>1 DEF opening
<1>7. used' <= used + 1
  <2>1. CASE remaining > 0 /\ UNCHANGED loopVars
    <3>1. code # NoCode => ~first'
      BY <1>1, <1>5, <2>1, LoopConsts DEF LoopInv, first, loopVars
    <3> QED BY <1>1, <1>5, <2>1, <3>1 DEF used, loopVars
  <2>2. remaining <= 0 => remaining = 0
    BY <1>5
  <2>3. CASE remaining <= 0 /\ nextDelay # 0 /\ setDelay(nextDelay)
    <3>1. code' = NoCode /\ remaining' = EventFrames
      BY <2>3 DEF setDelay, LoopInv
    <3> QED BY <1>1, <1>5, <2>2, <2>3, <3>1 DEF used
  <2>4. CASE remaining <= 0 /\ nextDelay = 0 /\ setDelay(DelayFrames)
    <3>1. code = NoCode
      BY <2>4, LoopConsts DEF LoopInv
    <3> QED BY <1>1, <1>5, <2>2, <2>4, <3>1 DEF used, setDelay
  <2>5. CASE remaining <= 0 /\ nextDelay = 0 /\ setTone(digits[1])
    <3>1. code = NoCode
      BY <2>5, LoopConsts DEF LoopInv
    <3>2. used = 2 * EventFrames - 1
      BY <1>1, <1>5, <2>2, <2>5, <3>1 DEF used
    <3>3. remaining' = EventFrames /\ at' = "frame"
      BY <1>1, <2>5 DEF setTone
    <3>4. used' <= 2 * EventFrames
      BY <1>5, <3>3 DEF used
    <3>5. used' \in Int
      BY <1>5, <3>3 DEF used
    <3> QED BY <1>5, <3>2, <3>4, <3>5
  <2>6. \/ remaining > 0 /\ UNCHANGED loopVars
        \/ remaining <= 0 /\ nextDelay # 0 /\ setDelay(nextDelay)
        \/ remaining <= 0 /\ nextDelay = 0 /\ setDelay(DelayFrames)
        \/ remaining <= 0 /\ nextDelay = 0 /\ setTone(digits[1])
    BY DEF Frame
  <2> QED BY <2>1, <2>3, <2>4, <2>5, <2>6
<1>8. used \in Int /\ (anchorTime # None => elapsed \in Int)
  BY TicksAre
<1>9. used' \in Int
  <2>1. remaining' \in Int
    BY DEF LoopInv
  <2> QED BY <1>5, <2>1 DEF used
<1>10. (used' + waiting') - (used + waiting) <= 0
  <2>1. \A u, v \in Int : v <= u + 1 => (v + 0) - (u + 1) <= 0
    OBVIOUS
  <2> QED BY <1>4, <1>7, <1>8, <1>9, <2>1
<1>11. anchorTime # None => (used' + waiting') - (used + waiting) <= elapsed' - elapsed
  BY <1>3, <1>8, <1>10
<1> QED BY <1>2, <1>3, <1>4, <1>6, <1>8, <1>9, <1>11, PaceKept

LEMMA PaceSilence ==
  ASSUME WriterInv, LoopInv, PaceInv, Silence
  PROVE  PaceInv'
<1>1. /\ at = "frame" /\ code = NoCode /\ at' = "select" /\ remaining' = remaining - 1
      /\ UNCHANGED <<writerVars, digits, code, totalDur, nextDelay, repeats, phase, tick,
                     last, receiver>>
  BY DEF Silence
<1>2. now' = now /\ ts' = ts /\ anchorTime' = anchorTime /\ begun' = begun /\ phase' = phase
  BY <1>1 DEF writerVars, receiver
<1>3. elapsed' = elapsed /\ waiting' = waiting
  BY <1>1, <1>2 DEF elapsed, lastTick, waiting, frames
<1>4. remaining \in Nat /\ EventFrames \in Nat
  BY LoopConsts DEF LoopInv
<1>5. used' = used
  BY <1>1, <1>4 DEF used
<1>6. ~opening
  BY <1>1 DEF opening
<1>7. used \in Int /\ waiting \in Int /\ (anchorTime # None => elapsed \in Int)
  BY TicksAre
<1> QED BY <1>2, <1>3, <1>5, <1>6, <1>7, PaceKept

LEMMA PaceNextEvent ==
  ASSUME WriterInv, LoopInv, PaceInv, NextEvent
  PROVE  PaceInv'
<1>1. /\ at = "frame" /\ code # NoCode /\ ~first /\ at' = "event"
      /\ UNCHANGED <<writerVars, loopVars, repeats, phase, tick, last, receiver>>
  BY DEF NextEvent
<1>2. now' = now /\ ts' = ts /\ anchorTime' = anchorTime /\ begun' = begun /\ phase' = phase
  BY <1>1 DEF writerVars, receiver
<1>3. elapsed' = elapsed /\ waiting' = waiting
  BY <1>1, <1>2 DEF elapsed, lastTick, waiting, frames
<1>4. remaining' = remaining /\ totalDur' = totalDur /\ code' = code
  BY <1>1 DEF loopVars
<1>5. used' = used
  BY <1>1, <1>4 DEF used
<1>6. ~opening
  BY <1>1 DEF opening
<1>7. used \in Int /\ waiting \in Int /\ (anchorTime # None => elapsed \in Int)
  BY TicksAre
<1> QED BY <1>2, <1>3, <1>5, <1>6, <1>7, PaceKept

LEMMA PaceClock ==
  ASSUME WriterInv, LoopInv, PaceInv, DTMFClock
  PROVE  PaceInv'
<1>1. /\ now' = now + 1
      /\ UNCHANGED <<anchorTime, ts, at, loopVars, repeats, phase, last, receiver>>
      /\ tick' = (tick \/ (at \notin {"idle", "done"} /\ now' % FrameDur = phase))
  BY DEF DTMFClock, WriterClock
<1>2. begun' = begun /\ used' = used /\ opening' = opening
  BY <1>1 DEF receiver, loopVars, used, opening, first
<1>3. /\ now \in Nat /\ phase \in 0..FrameDur-1 /\ used \in Int /\ waiting \in {0, 1}
      /\ lastTick \in Int
      /\ anchorTime # None => elapsed \in Int /\ anchorTime \in Nat
  BY TicksAre DEF LoopInv
<1> DEFINE a == now - phase
           d == IF now' % FrameDur = phase THEN FrameDur ELSE 0
<1>4. (now + 1) % FrameDur = phase <=> (a + 1) % FrameDur = 0
  <2>1. now + 1 \in Int /\ (now + 1) - phase = a + 1
    BY <1>3, Consts
  <2>2. (now + 1) % FrameDur = phase <=> ((now + 1) - phase) % FrameDur = 0
    BY <1>3, <2>1, RemainderIs, Consts
  <2> QED BY <2>1, <2>2
<1>5. (a + 1) % FrameDur = IF a % FrameDur = FrameDur - 1 THEN 0 ELSE (a % FrameDur) + 1
  <2>1. a \in Int /\ FrameDur \in Nat \ {0}
    BY <1>3, Consts
  <2> HIDE DEF a
  <2> QED BY <2>1, RemainderNext
<1>6. a % FrameDur \in 0..FrameDur-1
  BY <1>3, Consts
<1>7. lastTick = now - (a % FrameDur)
  BY DEF lastTick
<1>8. lastTick' = (now + 1) - ((a + 1) % FrameDur)
  <2>1. lastTick' = (now + 1) - (((now + 1) - phase) % FrameDur)
    BY <1>1 DEF lastTick
  <2>2. (now + 1) - phase = a + 1
    BY <1>3, Consts
  <2> QED BY <2>1, <2>2
<1>9. lastTick' = lastTick + d
  <2> DEFINE r == a % FrameDur
             r1 == (a + 1) % FrameDur
  <2>1. r1 = (IF r = FrameDur - 1 THEN 0 ELSE r + 1) /\ r \in 0..FrameDur-1
    BY <1>5, <1>6
  <2>2. lastTick = now - r /\ lastTick' = (now + 1) - r1
    BY <1>7, <1>8
  <2>3. d = IF r1 = 0 THEN FrameDur ELSE 0
    BY <1>1, <1>4
  <2> HIDE DEF r, r1, a, d
  <2> QED BY <1>3, <2>1, <2>2, <2>3, Consts
<1>10. waiting' \in {0, 1} /\ (waiting' = waiting \/ (waiting' = waiting + 1 /\ d = FrameDur))
  <2>1. CASE tick
    BY <1>1, <2>1 DEF waiting
  <2>2. CASE ~tick /\ ~tick'
    BY <2>2 DEF waiting
  <2>3. CASE ~tick /\ tick'
    <3>1. d = FrameDur
      BY <1>1, <2>3
    <3> HIDE DEF d
    <3> QED BY <2>3, <3>1 DEF waiting
  <2> QED BY <2>1, <2>2, <2>3
<1>11. ASSUME anchorTime # None
       PROVE  /\ elapsed' \in Int
              /\ d = FrameDur => elapsed' = elapsed + 1
              /\ d = 0 => elapsed' = elapsed
  <2> DEFINE x == (lastTick - 1) - anchorTime
  <2>1. x \in Int
    BY <1>3, <1>11
  <2>2. elapsed = frames(x) /\ elapsed' = frames((lastTick' - 1) - anchorTime)
    BY <1>1 DEF elapsed, frames
  <2>3. CASE d = FrameDur
    <3>1. (lastTick' - 1) - anchorTime = x + FrameDur
      BY <1>3, <1>9, <1>11, <2>3, Consts
    <3>2. elapsed' = frames(x + FrameDur)
      BY <2>2, <3>1
    <3>3. frames(x + FrameDur) = frames(x) + 1
      BY <2>1, FramesAre
    <3>4. d # 0
      BY <2>3, Consts
    <3> HIDE DEF x, d
    <3> QED BY <1>3, <1>11, <2>2, <3>2, <3>3, <3>4
  <2>4. CASE d = 0
    <3>1. lastTick' = lastTick /\ FrameDur # 0
      BY <1>3, <1>9, <2>4, Consts
    <3> HIDE DEF x, d
    <3> QED BY <1>3, <1>11, <2>2, <2>4, <3>1 DEF x
  <2> QED BY <2>3, <2>4
<1>12. d = 0 \/ d = FrameDur
  OBVIOUS
<1> HIDE DEF d, a
<1>13. anchorTime # None => (used' + waiting') - (used + waiting) <= elapsed' - elapsed
  <2>1. ASSUME anchorTime # None PROVE waiting' - waiting <= elapsed' - elapsed
    <3>1. elapsed \in Int /\ elapsed' \in Int /\ waiting \in Int /\ waiting' \in Int
      BY <1>3, <1>10, <1>11, <2>1
    <3>4. \A w, v, e, f \in Int : /\ v = w /\ (f = e \/ f = e + 1) => v - w <= f - e
                                 /\ v = w + 1 /\ f = e + 1 => v - w <= f - e
      OBVIOUS
    <3>2. CASE waiting' = waiting
      <4>1. elapsed' = elapsed \/ elapsed' = elapsed + 1
        BY <1>11, <1>12, <2>1
      <4>2. waiting' - waiting = 0
        BY <3>1, <3>2
      <4>3. CASE elapsed' = elapsed
        <5>1. elapsed' - elapsed = 0
          BY <3>1, <4>3
        <5> QED BY <4>2, <5>1
      <4>4. CASE elapsed' = elapsed + 1
        <5>1. elapsed' - elapsed = 1
          BY <3>1, <4>4
        <5> QED BY <4>2, <5>1
      <4> QED BY <4>1, <4>3, <4>4
    <3>3. CASE waiting' = waiting + 1 /\ d = FrameDur
      <4>1. elapsed' = elapsed + 1
        BY <1>11, <2>1, <3>3
      <4> QED BY <3>1, <3>3, <3>4, <4>1
    <3> QED BY <1>10, <3>2, <3>3
  <2> QED BY <1>2, <1>3, <1>10, <1>11, <2>1
<1> QED BY <1>1, <1>2, <1>3, <1>10, <1>11, <1>13, PaceKept

LEMMA PaceFirstEvent ==
  ASSUME WriterInv, ShortCall, LoopInv, FirstEvent
  PROVE  PaceInv'
<1>1. opening'
  BY LoopFirstEvent
<1>2. /\ anchorTime' = anchorTime /\ now' = now
      /\ anchorTime # None => pos(ts'[Events]) = frames(now - anchorTime) * FrameTS
  BY Synced
<1>3. /\ code # NoCode /\ first /\ at' = "event"
      /\ UNCHANGED <<loopVars, repeats, phase, tick, last, losses, heard, marked>>
  BY DEF FirstEvent
<1>4. ASSUME anchorTime # None
      PROVE  \E n \in Nat : /\ pos(ts'[Events]) = n * FrameTS
                            /\ n + (used' + waiting') <= elapsed' + 2
  <2> DEFINE n == frames(now - anchorTime)
  <2>1. n \in Nat
    BY <1>4, Projection, FramesAre
  <2>2. waiting \in {0, 1} /\ elapsed \in Int /\ n <= elapsed + 1
    BY <1>4, TicksAre
  <2>3. elapsed' = elapsed /\ waiting' = waiting
    BY <1>2, <1>3 DEF elapsed, lastTick, waiting, frames
  <2>4. used' = 0
    <3>1. remaining = EventFrames /\ EventFrames \in Nat
      BY <1>3, LoopConsts DEF LoopInv, first
    <3>2. used' = EventFrames - (EventFrames + 0)
      BY <1>3, <3>1 DEF used, loopVars
    <3> QED BY <3>1, <3>2
  <2> HIDE DEF n
  <2>5. n + (0 + waiting) <= elapsed + 2
    BY <2>1, <2>2
  <2>6. n + (used' + waiting') <= elapsed' + 2
    BY <2>3, <2>4, <2>5
  <2> QED BY <1>2, <1>4, <2>1, <2>6 DEF n
<1> QED BY <1>1, <1>2, <1>4 DEF PaceInv, pos

\* The first packet of all sets the anchor: the time since is none.
LEMMA PaceAnchors ==
  ASSUME WriterInv, LoopInv, ts[Events] # None, UNCHANGED <<now, phase, tick>>,
         ts'[Events] = ts[Events], anchorTime = None, anchorTime' = now, used' = 0
  PROVE  PaceInv'
<1>1. ts[Events] \in Known
  BY Types, LoopConsts
<1>2. pos(ts'[Events]) = 0 * FrameTS
  BY <1>1, PosTypes, Consts DEF WriterInv
<1>3. /\ lastTick \in Int /\ now <= (lastTick - 1) + FrameDur /\ now \in Nat
      /\ waiting \in {0, 1}
  BY TicksAre
<1> DEFINE x == (lastTick - 1) - now
<1>4. x \in Int /\ x + FrameDur \in Nat
  BY <1>3, Consts
<1>5. lastTick' = lastTick /\ waiting' = waiting
  BY DEF lastTick, waiting
<1>6. elapsed' = frames(x)
  <2>1. elapsed' = frames((lastTick' - 1) - anchorTime')
    BY DEF elapsed, frames
  <2> QED BY <1>5, <2>1
<1> HIDE DEF x
<1>7. frames(x) \in Int /\ frames(x + FrameDur) = frames(x) + 1 /\ frames(x + FrameDur) \in Nat
  BY <1>4, FramesAre
<1>8. 0 + (0 + waiting) <= frames(x) + 2
  BY <1>3, <1>7
<1>9. 0 + (used' + waiting') <= elapsed' + 2
  BY <1>5, <1>6, <1>8
<1>10. anchorTime' # None
  BY <1>3 DEF None
<1> QED BY <1>2, <1>9, <1>10 DEF PaceInv, pos

LEMMA OpeningUsed ==
  ASSUME LoopInv, opening
  PROVE  used = 0
<1>1. at = "event" /\ code # NoCode /\ remaining = EventFrames /\ EventFrames \in Nat
  BY LoopConsts DEF opening, LoopInv, first
<1>2. used = EventFrames - (EventFrames + 0)
  BY <1>1 DEF used
<1> QED BY <1>1, <1>2

LEMMA PaceWriteEvents ==
  ASSUME EventFrames >= 2, WriterInv, LoopInv, PaceInv, WriteEvents
  PROVE  PaceInv'
<1>1. UNCHANGED <<now, ts, phase, tick, begun, code, totalDur>> /\ open
  BY LoopWriteEvents
<1>2. at = "event" /\ code # NoCode /\ ts[Events] # None
  BY DEF WriteEvents, LoopInv, running
<1>3. remaining \in Nat /\ EventFrames \in Nat
  BY LoopConsts DEF LoopInv
<1>4. used' = used
  <2>1. \/ UNCHANGED <<at, remaining>>
        \/ at' = "select" /\ remaining' = remaining - 1
    BY DEF WriteEvents
  <2>2. CASE UNCHANGED <<at, remaining>>
    BY <1>1, <2>2 DEF used, first
  <2>3. CASE at' = "select" /\ remaining' = remaining - 1
    <3>1. used = EventFrames - (remaining + 0)
      BY <1>2 DEF used
    <3>2. used' = EventFrames - ((remaining - 1) + 1)
      BY <1>1, <1>2, <2>3 DEF used
    <3> QED BY <1>3, <3>1, <3>2
  <2> QED BY <2>1, <2>2, <2>3
<1>5. anchorTime' = IF anchorTime = None THEN now ELSE anchorTime
  BY DEF WriteEvents, WritePayloadAtCurrent, WriteEvent
<1>6. begun # <<>>
  BY <1>1, <1>2 DEF LoopInv
<1>7. CASE anchorTime = None
  <2>1. opening
    BY <1>6, <1>7 DEF PaceInv
  <2>2. used = 0
    BY <2>1, OpeningUsed
  <2> QED BY <1>1, <1>2, <1>4, <1>5, <1>7, <2>2, PaceAnchors
<1>8. CASE anchorTime # None
  <2>1. elapsed' = elapsed /\ waiting' = waiting
    BY <1>1, <1>5, <1>8 DEF elapsed, lastTick, waiting, frames
  <2>2. used \in Int /\ waiting \in Int /\ elapsed \in Int
    BY <1>8, TicksAre
  <2> QED BY <1>1, <1>4, <1>5, <1>8, <2>1, <2>2, PaceKept
<1> QED BY <1>7, <1>8

LEMMA PaceSound ==
  ASSUME WriterInv, LoopInv, PaceInv, Sound
  PROVE  PaceInv'
<1>1. UNCHANGED dtmfVars
  BY DEF Sound
<1>2. now' = now /\ (anchorTime' = anchorTime \/ (anchorTime = None /\ anchorTime' = now))
  BY DEF Sound, NewStream, WritePayload, WritePayloadEvent, WriteEvent
<1>3. begun' = begun /\ used' = used /\ opening' = opening /\ waiting' = waiting /\ phase' = phase
      /\ tick' = tick
  BY <1>1 DEF dtmfVars, loopVars, receiver, used, opening, first, waiting
<1>4. CASE begun = <<>>
  BY <1>3, <1>4 DEF PaceInv
<1>5. CASE begun # <<>>
  <2>1. ts[Events] # None
    BY <1>5 DEF LoopInv
  <2>2. ts'[Events] = ts[Events]
    BY <2>1, SoundKeeps
  <2>3. CASE anchorTime = None /\ anchorTime' = now
    <3>1. used = 0
      BY <1>5, <2>3, OpeningUsed DEF PaceInv
    <3> QED BY <1>2, <1>3, <2>1, <2>2, <2>3, <3>1, PaceAnchors
  <2>4. CASE anchorTime' = anchorTime
    <3>1. elapsed' = elapsed
      BY <1>2, <1>3, <2>4 DEF elapsed, lastTick, frames
    <3>2. used \in Int /\ waiting \in Int /\ (anchorTime # None => elapsed \in Int)
      BY TicksAre
    <3> QED BY <1>3, <2>2, <2>4, <3>1, <3>2, PaceKept
  <2> QED BY <1>2, <2>3, <2>4
<1> QED BY <1>4, <1>5

\* A digit begins not before the end of the digit before it.
LEMMA DigitsApart ==
  ASSUME EventFrames >= 2, WriterInv, ShortCall, LoopInv, PaceInv, FirstEvent, begun # <<>>
  PROVE  /\ ts[Events] \in TS /\ anchorTime # None
         /\ pos(ts[Events]) + EventFrames * FrameTS <= pos(ts'[Events])
         /\ pos(ts[Events]) < pos(ts'[Events])
<1>1. code # NoCode /\ at = "frame" /\ first
  BY DEF FirstEvent
<1>2. anchorTime # None
  BY <1>1 DEF PaceInv, opening
<1>3. ts[Events] \in TS
  BY <1>1, Types, LoopConsts DEF LoopInv, running
<1>4. PICK n \in Nat : pos(ts[Events]) = n * FrameTS /\ n + (used + waiting) <= elapsed + 2
  BY <1>2 DEF PaceInv
<1>5. used = 2 * EventFrames
  BY <1>1 DEF used
<1> DEFINE m == frames(now - anchorTime)
<1>6. /\ waiting \in {0, 1} /\ elapsed \in Int /\ elapsed <= m
      /\ m \in Nat /\ EventFrames \in Nat /\ FrameTS \in Nat \ {0}
  BY <1>2, TicksAre, Projection, FramesAre, LoopConsts, Consts
<1>7. pos(ts'[Events]) = m * FrameTS
  BY <1>2, Synced
<1> HIDE DEF m
<1>8. n + EventFrames <= m /\ n + EventFrames \in Nat
  BY <1>4, <1>5, <1>6
<1>9. (n + EventFrames) * FrameTS <= m * FrameTS
  BY <1>6, <1>8, Products
<1>10. (n + EventFrames) * FrameTS = n * FrameTS + EventFrames * FrameTS
  BY <1>6
<1>11. EventFrames * FrameTS \in Nat /\ EventFrames * FrameTS > 0 /\ n * FrameTS \in Nat
       /\ m * FrameTS \in Nat
  BY <1>6
<1> QED BY <1>2, <1>3, <1>4, <1>7, <1>9, <1>10, <1>11

----------------------------------------------------------------------------
(* What the receiver has heard.                                            *)

LEMMA HeardKept ==
  ASSUME LoopInv, HeardInv, UNCHANGED <<begun, heard, marked, losses, repeats>>,
         begun # <<>> => ts'[Events] = ts[Events],
         opening' <=> opening, open /\ Len(heard) # Len(begun) => open'
  PROVE  HeardInv'
<1>1. begun \in Seq(Chars) /\ heard \in Seq([ts : TS, digit : Chars])
  BY DEF LoopInv
<1>2. CASE begun = <<>>
  <2>1. Len(begun) = 0 /\ Len(heard) \in Nat
    BY <1>1, <1>2
  <2>2. Len(heard) = 0
    BY <2>1 DEF HeardInv
  <2> QED BY <1>2, <2>1, <2>2 DEF HeardInv
<1>3. CASE begun # <<>>
  BY <1>3 DEF HeardInv, pos
<1> QED BY <1>2, <1>3

LEMMA HeardFrame ==
  ASSUME LoopInv, HeardInv, Frame
  PROVE  HeardInv'
<1>1. /\ at = "select" /\ tick /\ at' = "frame"
      /\ UNCHANGED <<writerVars, repeats, phase, last, receiver>>
  BY DEF Frame
<1>2. ASSUME open PROVE open'
  <2>1. remaining \in Nat /\ code # NoCode /\ remaining # 0 /\ remaining < EventFrames
        /\ totalDur = EventFrames
    BY <1>1, <1>2 DEF open, LoopInv
  <2>2. UNCHANGED loopVars
    BY <2>1 DEF Frame
  <2>3. ~first'
    BY <2>1, <2>2, LoopConsts DEF first, loopVars
  <2> QED BY <1>1, <2>1, <2>2, <2>3 DEF open, loopVars
<1>3. ~opening /\ ~opening'
  BY <1>1 DEF opening
<1> QED BY <1>1, <1>2, <1>3, HeardKept DEF writerVars, receiver

LEMMA HeardFirstEvent ==
  ASSUME EventFrames >= 2, WriterInv, ShortCall, LoopInv, PaceInv, HeardInv, FirstEvent
  PROVE  HeardInv'
<1> DEFINE n == Len(begun)
<1>1. /\ opening' /\ open' /\ ~open /\ repeats = 0 /\ at = "frame"
      /\ begun' \in Seq(Chars) /\ Len(begun') = n + 1
      /\ \A i \in 1..n : begun'[i] = begun[i]
  BY LoopFirstEvent
<1>2. UNCHANGED <<repeats, losses, heard, marked>>
  BY DEF FirstEvent
<1>3. n \in Nat /\ (begun = <<>> <=> n = 0) /\ losses \in Nat
      /\ heard \in Seq([ts : TS, digit : Chars])
  BY LoopConsts DEF LoopInv
<1>4. Len(heard) = n /\ ~opening
  BY <1>1 DEF HeardInv, opening
<1>5. ASSUME NEW i \in 1..n
      PROVE  pos(heard[i].ts) < pos(ts'[Events]) /\ heard[i].digit = begun[i]
  <2>1. ts[Events] \in TS /\ pos(ts[Events]) < pos(ts'[Events])
    BY <1>3, <1>5, DigitsApart
  <2>2. heard[i].digit = begun[i]
        /\ (IF i = n THEN heard[i].ts = ts[Events] ELSE pos(heard[i].ts) < pos(ts[Events]))
    BY <1>4 DEF HeardInv
  <2>3. heard[i].ts \in TS
    <3>1. i \in 1..Len(heard)
      BY <1>4
    <3>2. heard[i] \in [ts : TS, digit : Chars]
      BY <1>3, <3>1, ElementOfSeq
    <3> QED BY <3>2
  <2>4. pos(ts[Events]) \in Int /\ pos(heard[i].ts) \in Int /\ pos(ts'[Events]) \in Int
    BY <2>1, <2>3, PosTypes, Synced
  <2>5. CASE i = n
    BY <2>1, <2>2, <2>5
  <2>6. CASE i # n
    <3>1. \A x, y, z \in Int : x < y /\ y < z => x < z
      OBVIOUS
    <3> QED BY <2>1, <2>2, <2>4, <2>6, <3>1
  <2> QED BY <2>2, <2>5, <2>6
<1>6. losses = 0 => Len(marked) = n /\ \A i \in 1..n : marked[i] = begun[i]
  BY <1>4 DEF HeardInv
<1> HIDE DEF n
<1>7. /\ (n + 1) - 1 = n /\ n # n + 1 /\ \A i \in 1..n : i # n + 1
      /\ losses >= 0
  BY <1>3
<1> QED BY <1>1, <1>2, <1>3, <1>4, <1>5, <1>6, <1>7 DEF HeardInv, pos

\* What a packet of the digit that is on does to the receiver.
LEMMA Heard ==
  ASSUME WriterInv, LoopInv, HeardInv, WriteEvents, Receive(Encode)
  PROVE  LET n == Len(begun)
         IN  /\ losses' = losses
             /\ Len(heard) = n => heard' = heard
             /\ Len(heard) # n /\ (end \/ opening) =>
                  /\ Len(heard') = n /\ heard'[n].digit = begun[n] /\ heard'[n].ts = ts[Events]
                  /\ \A i \in 1..n-1 : heard'[i] = heard[i]
             /\ Len(heard) # n /\ ~(end \/ opening) => heard' = heard
             /\ ~opening => marked' = marked
             /\ opening => marked' = Append(marked, begun[n])
<1> DEFINE n == Len(begun)
           p == Encode
<1>1. at = "event" /\ code # NoCode /\ open /\ begun # <<>> /\ begun[n] = eventToChar[code]
  BY DEF WriteEvents, LoopInv, open
<1>2. begun \in Seq(Chars) /\ heard \in Seq([ts : TS, digit : Chars]) /\ marked \in Seq(Chars)
  BY DEF LoopInv
<1>3. n \in Nat /\ n > 0
  BY <1>1, <1>2
<1>4. p.ts = ts[Events] /\ p.code = code /\ p.end = end /\ p.marker = first
  BY DEF Encode
<1>5. Decode(p) = [ts |-> ts[Events], digit |-> begun[n]]
  BY <1>1, <1>4 DEF Decode
<1>6. (DecodeRTP(p) <=> opening) /\ (DecodeRTPWithEnd(p) <=> end \/ opening)
  BY <1>1, <1>4 DEF DecodeRTP, DecodeRTPWithEnd, opening
<1>7. /\ marked' = IF DecodeRTP(p) THEN Append(marked, Decode(p).digit) ELSE marked
      /\ heard' = IF DecodeRTPWithEnd(p) /\ \A i \in 1..Len(heard) : heard[i].ts # p.ts
                  THEN Append(heard, Decode(p)) ELSE heard
      /\ losses' = losses
  BY DEF Receive
<1>8. Decode(p).digit = begun[n]
  BY <1>5
<1>9. Len(heard) \in {n, n - 1} /\ begun[n] \in Chars /\ ts[Events] \in TS
  <2>1. ts[Events] \in TS
    BY <1>1, Types, LoopConsts DEF LoopInv, running
  <2>2. begun[n] \in Chars
    BY <1>2, <1>3
  <2> QED BY <2>1, <2>2 DEF HeardInv
<1> HIDE DEF p
<1>10. ASSUME Len(heard) = n PROVE heard' = heard
  <2>1. heard[n].ts = ts[Events] /\ n \in 1..Len(heard)
    BY <1>3, <1>10 DEF HeardInv
  <2> QED BY <1>4, <1>7, <2>1
<1>11. ASSUME Len(heard) # n, end \/ opening
       PROVE  /\ Len(heard') = n /\ heard'[n].digit = begun[n] /\ heard'[n].ts = ts[Events]
              /\ \A i \in 1..n-1 : heard'[i] = heard[i]
  <2>1. Len(heard) = n - 1
    BY <1>9, <1>11
  <2>2. ASSUME NEW i \in 1..Len(heard) PROVE heard[i].ts # p.ts
    <3>1. i # n
      BY <1>3, <2>1, <2>2
    <3>2. pos(heard[i].ts) < pos(ts[Events])
      BY <2>2, <3>1 DEF HeardInv
    <3>3. pos(ts[Events]) \in Int
      BY <1>9, PosTypes
    <3> QED BY <1>4, <3>2, <3>3
  <2>3. heard' = Append(heard, Decode(p))
    BY <1>6, <1>7, <1>11, <2>2
  <2>4. Decode(p) \in [ts : TS, digit : Chars]
    BY <1>5, <1>9
  <2>5. /\ Len(heard') = Len(heard) + 1 /\ heard'[Len(heard) + 1] = Decode(p)
        /\ \A i \in 1..Len(heard) : heard'[i] = heard[i]
    BY <1>2, <2>3, <2>4, AppendProperties
  <2>6. (n - 1) + 1 = n
    BY <1>3
  <2>7. heard'[n] = [ts |-> ts[Events], digit |-> begun[n]]
    BY <1>5, <2>1, <2>5, <2>6
  <2> QED BY <2>1, <2>5, <2>6, <2>7
<1>12. ASSUME ~(end \/ opening) PROVE heard' = heard
  BY <1>6, <1>7, <1>12
<1> QED BY <1>6, <1>7, <1>8, <1>10, <1>11, <1>12

LEMMA HeardWriteEvents ==
  ASSUME EventFrames >= 2, MaxLost <= 3, WriterInv, LoopInv, HeardInv, WriteEvents
  PROVE  /\ HeardInv'
         /\ at' = "select" /\ end => Len(heard') = Len(begun')
<1> DEFINE n == Len(begun)
<1>1. /\ open /\ ~opening' /\ LoopInv' /\ UNCHANGED <<now, ts, phase, tick, begun, code, totalDur>>
      /\ at = "event"
  BY LoopWriteEvents DEF WriteEvents
<1>2. /\ begun \in Seq(Chars) /\ heard \in Seq([ts : TS, digit : Chars]) /\ marked \in Seq(Chars)
      /\ losses \in Nat /\ losses <= MaxLost /\ repeats \in 0..2 /\ remaining \in Nat
      /\ begun # <<>> /\ remaining > 0 /\ code # NoCode /\ totalDur = EventFrames
  BY <1>1, LoopConsts DEF LoopInv
<1>3. n \in Nat /\ n > 0
  BY <1>2
<1>4. opening => ~end /\ repeats = 0
  <2>1. ASSUME opening PROVE remaining = EventFrames
    BY <1>2, <2>1 DEF opening, first
  <2> QED BY <1>2, <2>1, LoopConsts DEF end, LoopInv
<1>5. /\ Len(heard) \in {n, n - 1}
      /\ \A i \in 1..Len(heard) :
           /\ heard[i].digit = begun[i]
           /\ IF i = n THEN heard[i].ts = ts[Events] ELSE pos(heard[i].ts) < pos(ts[Events])
      /\ opening => Len(heard) = n - 1
      /\ Len(heard) # n => losses >= repeats + (IF opening THEN 0 ELSE 1)
      /\ losses = 0 => /\ Len(marked) = IF opening THEN n - 1 ELSE n
                       /\ \A i \in 1..Len(marked) : marked[i] = begun[i]
  BY DEF HeardInv
<1>6. \/ end /\ repeats < 2 /\ repeats' = repeats + 1 /\ UNCHANGED <<at, remaining>>
      \/ ~(end /\ repeats < 2) /\ repeats' = 0 /\ at' = "select" /\ remaining' = remaining - 1
  BY DEF WriteEvents
<1>7. end <=> remaining = 1
  BY <1>2 DEF end
<1>8. ~end => repeats = 0 /\ repeats' = 0 /\ open'
  <2>1. ASSUME ~end
        PROVE  repeats = 0 /\ repeats' = 0 /\ at' = "select" /\ remaining' = remaining - 1
    BY <1>6, <1>7, <2>1 DEF LoopInv
  <2>2. ~end => remaining - 1 # 0
    BY <1>2, <1>7
  <2>3. at' = "select" /\ remaining' # 0 => open'
    BY <1>1, <1>2 DEF open
  <2> QED BY <2>1, <2>2, <2>3
<1>9. end /\ repeats < 2 => open'
  BY <1>1, <1>2, <1>6 DEF open
\* Heard before, or now.
<1>10. ASSUME Len(heard') = n,
              \A i \in 1..n :
                /\ heard'[i].digit = begun[i]
                /\ IF i = n THEN heard'[i].ts = ts[Events] ELSE pos(heard'[i].ts) < pos(ts[Events]),
              losses' = 0 => Len(marked') = n /\ \A i \in 1..n : marked'[i] = begun[i]
       PROVE  HeardInv'
  BY <1>1, <1>10 DEF HeardInv, pos
<1>11. ASSUME Len(heard) # n, heard' = heard, open',
              losses' >= repeats' + 1,
              losses' = 0 => Len(marked') = n /\ \A i \in 1..n : marked'[i] = begun[i]
       PROVE  HeardInv'
  <2>1. Len(heard) = n - 1
    BY <1>5, <1>11
  <2>2. \A i \in 1..n-1 : i # n
    BY <1>3
  <2> QED BY <1>1, <1>5, <1>11, <2>1, <2>2 DEF HeardInv, pos
<1>12. CASE Receive(Encode)
  <2>1. /\ losses' = losses
        /\ Len(heard) = n => heard' = heard
        /\ Len(heard) # n /\ (end \/ opening) =>
             /\ Len(heard') = n /\ heard'[n].digit = begun[n] /\ heard'[n].ts = ts[Events]
             /\ \A i \in 1..n-1 : heard'[i] = heard[i]
        /\ Len(heard) # n /\ ~(end \/ opening) => heard' = heard
        /\ ~opening => marked' = marked
        /\ opening => marked' = Append(marked, begun[n])
    BY <1>12, Heard
  <2>2. losses' = 0 => Len(marked') = n /\ \A i \in 1..n : marked'[i] = begun[i]
    <3>1. CASE ~opening
      BY <1>5, <2>1, <3>1
    <3>2. CASE opening /\ losses' = 0
      <4>1. Len(marked) = n - 1 /\ \A i \in 1..n-1 : marked[i] = begun[i]
        BY <1>5, <2>1, <3>2
      <4>2. begun[n] \in Chars
        BY <1>2, <1>3
      <4>3. /\ Len(marked') = Len(marked) + 1 /\ marked'[Len(marked) + 1] = begun[n]
            /\ \A i \in 1..Len(marked) : marked'[i] = marked[i]
        BY <1>2, <2>1, <3>2, <4>2, AppendProperties
      <4>4. (n - 1) + 1 = n /\ \A i \in 1..n : i = n \/ i \in 1..n-1
        BY <1>3
      <4> QED BY <4>1, <4>3, <4>4
    <3> QED BY <3>1, <3>2
  <2>3. CASE Len(heard) = n
    <3>1. heard' = heard
      BY <2>1, <2>3
    <3> QED BY <1>1, <1>5, <1>10, <2>2, <2>3, <3>1
  <2>4. CASE Len(heard) # n /\ (end \/ opening)
    <3>1. /\ Len(heard') = n /\ heard'[n].digit = begun[n] /\ heard'[n].ts = ts[Events]
          /\ \A i \in 1..n-1 : heard'[i] = heard[i]
      BY <2>1, <2>4
    <3>2. Len(heard) = n - 1 /\ \A i \in 1..n : i = n \/ (i \in 1..n-1 /\ i # n)
      BY <1>3, <1>5, <2>4
    <3>3. ASSUME NEW i \in 1..n
          PROVE  /\ heard'[i].digit = begun[i]
                 /\ IF i = n THEN heard'[i].ts = ts[Events]
                    ELSE pos(heard'[i].ts) < pos(ts[Events])
      <4>1. CASE i = n
        BY <3>1, <4>1
      <4>2. CASE i \in 1..n-1 /\ i # n
        BY <1>5, <3>1, <3>2, <4>2
      <4> QED BY <3>2, <4>1, <4>2
    <3> QED BY <1>1, <1>10, <2>2, <3>1, <3>3
  <2>5. CASE Len(heard) # n /\ ~(end \/ opening)
    <3>1. heard' = heard /\ repeats = 0 /\ repeats' = 0 /\ open' /\ losses' >= 0 + 1
      BY <1>5, <1>8, <2>1, <2>5
    <3> QED BY <1>11, <2>2, <2>5, <3>1
  <2> QED BY <2>3, <2>4, <2>5
<1>13. CASE Lose
  <2>1. losses < MaxLost /\ losses' = losses + 1 /\ heard' = heard /\ marked' = marked
    BY <1>13 DEF Lose
  <2>2. losses' # 0 /\ losses' <= 3
    BY <1>2, <2>1, LoopConsts
  <2>3. CASE Len(heard) = n
    BY <1>1, <1>5, <1>10, <2>1, <2>2, <2>3
  <2>4. CASE Len(heard) # n
    <3>1. losses' >= repeats + (IF opening THEN 1 ELSE 2)
      BY <1>2, <1>5, <2>1, <2>4
    <3>2. ~(end /\ repeats = 2)
      BY <1>2, <1>4, <2>1, <2>2, <3>1, LoopConsts
    <3>3. open' /\ ~(at' = "select" /\ end)
      BY <1>1, <1>2, <1>6, <1>8, <1>9, <3>2
    <3>4. repeats' = repeats + 1 \/ (repeats' = 0 /\ repeats = 0)
      BY <1>6, <1>8, <1>2, <3>2
    <3>5. losses' >= repeats' + 1
      <4>1. losses' \in Int /\ repeats' \in Int
        BY <1>2, <2>1, <3>4
      <4>2. repeats' = repeats + 1 => ~opening
        BY <1>2, <1>4, <1>8
      <4>3. CASE repeats' = repeats + 1
        <5>1. losses' >= repeats + 2
          BY <3>1, <4>2, <4>3
        <5> QED BY <1>2, <4>1, <4>3, <5>1
      <4>4. CASE repeats' = 0 /\ repeats = 0
        <5>1. losses' >= 0 + 1
          BY <3>1, <4>1, <4>4
        <5> QED BY <4>1, <4>4, <5>1
      <4> QED BY <3>4, <4>3, <4>4
    <3> QED BY <1>11, <2>1, <2>2, <2>4, <3>3, <3>5
  <2> QED BY <1>1, <2>1, <2>3, <2>4
<1> QED BY <1>12, <1>13 DEF WriteEvents

----------------------------------------------------------------------------
(* The digits.                                                             *)

\* One step of Write, the ticker, the audio or the receiver.
LEMMA DigitsSteps ==
  ASSUME ShortCall, EventFrames >= 2, MaxLost <= 3, WriterInv, WriterInv',
         LoopInv, PaceInv, HeardInv, [DTMFNext]_<<writerVars, dtmfVars>>
  PROVE  LoopInv' /\ PaceInv' /\ HeardInv'
<1>1. CASE Write
  BY <1>1, LoopWrite
<1>2. CASE Cancel \/ Finish \/ WriteFails
  BY <1>2, LoopReturns DEF Cancel, Finish, WriteFails
<1>3. CASE Frame
  BY <1>3, LoopFrame, PaceFrame, HeardFrame
<1>4. CASE Silence
  <2>1. ~opening /\ ~opening' /\ UNCHANGED <<begun, heard, marked, losses, repeats, ts>>
    BY <1>4 DEF Silence, opening, receiver, writerVars
  <2> QED BY <1>4, <2>1, LoopSilence, PaceSilence, HeardKept
<1>5. CASE NextEvent
  <2>1. UNCHANGED <<begun, heard, marked, losses, repeats, ts>>
    BY <1>5 DEF NextEvent, receiver, writerVars
  <2> QED BY <1>5, <2>1, LoopNextEvent, PaceNextEvent, HeardKept
<1>6. CASE FirstEvent
  BY <1>6, LoopFirstEvent, PaceFirstEvent, HeardFirstEvent
<1>7. CASE WriteEvents
  BY <1>7, LoopWriteEvents, PaceWriteEvents, HeardWriteEvents
<1>8. CASE Sound
  <2>1. UNCHANGED <<begun, heard, marked, losses, repeats>>
    BY <1>8 DEF Sound, dtmfVars, receiver
  <2>2. begun # <<>> => ts'[Events] = ts[Events]
    BY <1>8, SoundKeeps DEF LoopInv
  <2> QED BY <1>8, <2>1, <2>2, LoopSound, PaceSound, HeardKept
<1>9. CASE DTMFClock
  <2>1. UNCHANGED <<begun, heard, marked, losses, repeats, ts>>
    BY <1>9 DEF DTMFClock, WriterClock, receiver
  <2> QED BY <1>9, <2>1, LoopClock, PaceClock, HeardKept
<1>10. CASE UNCHANGED <<writerVars, dtmfVars>>
  <2>1. UNCHANGED <<now, anchorTime, ts, at, digits, code, remaining, totalDur, nextDelay,
                    repeats, phase, tick, last, begun, losses, heard, marked>>
    BY <1>10 DEF writerVars, dtmfVars, loopVars, receiver
  <2>2. (running <=> running') /\ (open <=> open') /\ (opening <=> opening')
        /\ used' = used /\ waiting' = waiting /\ elapsed' = elapsed
    BY <2>1 DEF running, open, opening, first, used, waiting, elapsed, lastTick, frames
  <2>3. LoopInv'
    BY <2>1, <2>2 DEF LoopInv
  <2>4. PaceInv'
    BY <2>1, <2>2 DEF PaceInv, pos
  <2> QED BY <2>1, <2>2, <2>3, <2>4, HeardKept
<1> QED BY <1>1, <1>2, <1>3, <1>4, <1>5, <1>6, <1>7, <1>8, <1>9, <1>10 DEF DTMFNext

\* The invariant of a call of Write beside the audio: its loop, its pace against the
\* wall clock, and what the receiver has got (dtmf/dtmf.go).
THEOREM DigitsInvariant ==
  ASSUME ShortCall, EventFrames >= 2, MaxLost <= 3
  PROVE  DTMFSpec => []DigitsInv
<1>1. DTMFInit => DigitsInv
  BY LoopStarts DEF DigitsInv
<1>2. WriterInv /\ WriterInv' /\ DigitsInv /\ [DTMFNext]_<<writerVars, dtmfVars>> => DigitsInv'
  BY DigitsSteps DEF DigitsInv
<1>3. DTMFSpec => []WriterInv
  BY DTMFRunsWriter, WriterInvariant, PTL
<1> QED BY <1>1, <1>2, <1>3, PTL DEF DTMFSpec

\* Digits of two frames or more are heard once each, in order and apart, although
\* three packets are lost, ticks are late or dropped and the audio goes on; by
\* DecodeRTP if none is lost.
THEOREM DigitsReceivedHold ==
  ASSUME ShortCall, EventFrames >= 2, MaxLost <= 3
  PROVE  DTMFSpec => DigitsReceived
<1> DEFINE Goal ==
      /\ FirstEvent /\ last # NoEvent =>
           LET gap == (ts'[Events] - last.ts) % TSMod
           IN  gap >= last.dur * FrameTS /\ gap < TSMod \div 2
      /\ WriteEvents /\ at' = "select" /\ end =>
           /\ digitsHeard' = begun
           /\ losses' = 0 => marked' = begun
<1>1. ASSUME WriterInv, DigitsInv, DigitsInv' PROVE Goal
  <2>1. LoopInv /\ PaceInv /\ HeardInv /\ LoopInv' /\ HeardInv'
    BY <1>1 DEF DigitsInv
  <2>2. ASSUME FirstEvent, last # NoEvent
        PROVE  LET gap == (ts'[Events] - last.ts) % TSMod
               IN  gap >= last.dur * FrameTS /\ gap < TSMod \div 2
    <3> DEFINE t == ts'[Events]
               u == ts[Events]
               x == last.dur * FrameTS
               y == EventFrames * FrameTS
    <3>1. last.ts = u /\ begun # <<>> /\ last.dur \in 0..EventFrames
      BY <2>1, <2>2 DEF LoopInv, FirstEvent
    <3>2. u \in TS /\ pos(u) + y <= pos(t) /\ pos(u) < pos(t)
      BY <1>1, <2>1, <2>2, <3>1, DigitsApart
    <3>3. t \in TS /\ pos(t) <= reach
      BY <1>1, <2>1, <2>2, Synced
    <3>4. x \in Nat /\ y \in Nat /\ x <= y
      BY <3>1, Products, LoopConsts, Consts
    <3>5. pos(t) \in Nat /\ pos(u) \in Nat /\ TSMod \div 2 \in Nat
      BY <3>2, <3>3, PosTypes, Consts
    <3>6. reach \in Nat /\ reach < TSMod \div 2
      BY <1>1, Reaches
    <3> HIDE DEF t, u, x, y
    <3>7. pos(t) < TSMod \div 2 /\ pos(u) < TSMod \div 2 /\ pos(u) <= pos(t)
      BY <3>2, <3>3, <3>5, <3>6
    <3>8. (t - u) % TSMod = pos(t) - pos(u)
      BY <3>2, <3>3, <3>7, AheadIs
    <3>9. (t - u) % TSMod >= x /\ (t - u) % TSMod < TSMod \div 2
      BY <3>2, <3>4, <3>5, <3>7, <3>8
    <3> QED BY <3>1, <3>9 DEF t, x
  <2>3. ASSUME WriteEvents, at' = "select", end
        PROVE  digitsHeard' = begun /\ (losses' = 0 => marked' = begun)
    <3> DEFINE n == Len(begun)
    <3>1. begun' = begun /\ Len(heard') = n /\ ~opening'
      BY <1>1, <2>1, <2>3, LoopWriteEvents, HeardWriteEvents
    <3>2. \A i \in 1..n : heard'[i].digit = begun[i]
      BY <2>1, <3>1 DEF HeardInv
    <3>3. begun \in Seq(Chars) /\ marked' \in Seq(Chars)
      BY <2>1 DEF LoopInv
    <3>4. begun = [i \in 1..n |-> begun[i]] /\ n \in Nat
      BY <3>3
    <3>5. digitsHeard' = [i \in 1..n |-> heard'[i].digit]
      BY <3>1 DEF digitsHeard
    <3>6. ASSUME losses' = 0 PROVE marked' = begun
      <4>1. Len(marked') = n /\ \A i \in 1..Len(marked') : marked'[i] = begun[i]
        BY <2>1, <3>1, <3>6 DEF HeardInv
      <4>2. marked' = [i \in 1..n |-> marked'[i]]
        BY <3>3, <4>1
      <4> QED BY <3>4, <4>1, <4>2
    <3> QED BY <3>2, <3>4, <3>5, <3>6
  <2> QED BY <2>2, <2>3
<1>2. DTMFSpec => []WriterInv
  BY DTMFRunsWriter, WriterInvariant, PTL
<1>3. WriterInv /\ DigitsInv /\ DigitsInv' => [Goal]_<<writerVars, dtmfVars>>
  BY <1>1
<1> QED BY <1>2, <1>3, DigitsInvariant, PTL DEF DigitsReceived
=============================================================================
