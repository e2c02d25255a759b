-------------------------------- MODULE DTMF --------------------------------
(***************************************************************************)
(* dtmf.Write (dtmf.go) on a manual stream, beside the audio that shares   *)
(* its SeqWriter: the loop over the digits, paced by a ticker, and what it *)
(* writes in several critical sections while audio is written in between.  *)
(* Durations are in frames; the in-band tones go to another writer.        *)
(* The packets reach a receiver in order, but for those that are lost, and *)
(* are decoded there in both of the ways the package offers.               *)
(***************************************************************************)
EXTENDS SeqWriter, Sequences

CONSTANTS Events,       \* the manual stream
          Digits,       \* the calls' digits, a set of sequences; "w" is a delay
          EventFrames,  \* roundTo(eventDur, step)
          DelayFrames,  \* roundTo(delayDur, step)
          MaxLost       \* bound on the packets lost on the way

ASSUME DTMFAssumption ==
  /\ Manual = {Events}
  /\ EventFrames \in Nat \ {0} /\ DelayFrames \in Nat \ {0} /\ MaxLost \in Nat

VARIABLES at,         \* where Write is
          digits,     \* the digits left
          code,       \* the event code of the digit that is on, or NoCode
          remaining, totalDur, nextDelay,
          repeats,    \* how often the end packet was written
          phase,      \* when the ticker fires
          tick,       \* whether ticker.C holds a tick
          last,       \* history: the last event written
          begun,      \* history: the digits of which an event was written
          losses,     \* the packets lost
          heard,      \* the digits DecodeRTPWithEnd has reported, one per timestamp
          marked      \* the digits DecodeRTP has reported

loopVars == <<digits, code, remaining, totalDur, nextDelay>>
receiver == <<begun, losses, heard, marked>>
dtmfVars == <<at, loopVars, repeats, phase, tick, last, receiver>>

NoCode  == 255
NoEvent == [ts |-> None, code |-> NoCode, dur |-> 0, end |-> FALSE, marker |-> FALSE]

\* The event codes, and the table that Decode reads them back with.
charToEvent == [b \in {"1", "2"} |-> IF b = "1" THEN 1 ELSE 2]
eventToChar == <<"1", "2">>

DTMFInit ==
  /\ WriterInit
  /\ at = "idle" /\ digits = <<>> /\ code = NoCode
  /\ remaining = 0 /\ totalDur = 0 /\ nextDelay = 0
  /\ repeats = 0 /\ phase = 0 /\ tick = FALSE /\ last = NoEvent
  /\ begun = <<>> /\ losses = 0 /\ heard = <<>> /\ marked = <<>>

\* Write returns: its locals are gone, and the histories are over.
Return ==
  /\ at' = "done" /\ digits' = <<>> /\ code' = NoCode
  /\ remaining' = 0 /\ totalDur' = 0 /\ nextDelay' = 0
  /\ repeats' = 0 /\ phase' = 0 /\ tick' = FALSE /\ last' = NoEvent
  /\ begun' = <<>> /\ losses' = 0 /\ heard' = <<>> /\ marked' = <<>>

\* Write is called; its ticker starts with it.
Write ==
  /\ at = "idle" /\ ts[Events] # None
  /\ digits' \in Digits
  /\ phase' = now % FrameDur
  /\ at' = "select"
  /\ UNCHANGED <<writerVars, code, remaining, totalDur, nextDelay, repeats, tick, last,
                 receiver>>

\* The ticker drops a tick that nobody has taken.
DTMFClock ==
  /\ WriterClock
  /\ tick' = (tick \/ (at \notin {"idle", "done"} /\ now' % FrameDur = phase))
  /\ UNCHANGED <<at, loopVars, repeats, phase, last, receiver>>

\* ctx.Done, or an error of the in-band writer.
Cancel ==
  /\ at \in {"select", "frame"}
  /\ Return /\ UNCHANGED writerVars

\* A character that is no digit is silence of the same length.
Tone(b) == IF b \in DOMAIN charToEvent THEN charToEvent[b] ELSE NoCode

setDelay(n) == /\ code' = NoCode
               /\ remaining' = n /\ totalDur' = n /\ nextDelay' = 0

\* Mutant of setTone: no pause follows a digit.
MutToneNoDelay(b) == /\ code' = Tone(b)
                     /\ remaining' = EventFrames /\ totalDur' = EventFrames
                     /\ nextDelay' = 0

setTone(b) == /\ code' = Tone(b)
              /\ remaining' = EventFrames /\ totalDur' = EventFrames
              /\ nextDelay' = EventFrames

\* Nothing is on any more, and no digit is left.
Finish ==
  /\ at = "select" /\ tick /\ remaining <= 0 /\ nextDelay = 0 /\ digits = <<>>
  /\ Return /\ UNCHANGED writerVars

\* What the frame of this tick is made of: the tone or delay goes on, the pause
\* after a digit begins, or the next digit.
Frame ==
  /\ at = "select" /\ tick
  /\ tick' = FALSE /\ at' = "frame"
  /\ \/ /\ remaining > 0
        /\ UNCHANGED loopVars
     \/ /\ remaining <= 0 /\ nextDelay # 0
        /\ setDelay(nextDelay) /\ UNCHANGED digits
     \/ /\ remaining <= 0 /\ nextDelay = 0 /\ digits # <<>>
        /\ digits' = Tail(digits)
        /\ IF digits[1] = "w" THEN setDelay(DelayFrames) ELSE setTone(digits[1])
  /\ UNCHANGED <<writerVars, repeats, phase, last, receiver>>

\* A frame without a tone writes no event.
Silence ==
  /\ at = "frame" /\ code = NoCode
  /\ at' = "select" /\ remaining' = remaining - 1
  /\ UNCHANGED <<writerVars, digits, code, totalDur, nextDelay, repeats, phase, tick, last,
                 receiver>>

first == totalDur = remaining
end   == remaining - 1 <= 0
dur   == 1 + totalDur - remaining

\* The first packet of a digit: events.SyncTimestamp().
FirstEvent ==
  /\ at = "frame" /\ code # NoCode /\ first
  /\ SyncTimestamp(Events)
  /\ at' = "event" /\ begun' = Append(begun, eventToChar[code])
  /\ UNCHANGED <<loopVars, repeats, phase, tick, last, losses, heard, marked>>

NextEvent ==
  /\ at = "frame" /\ code # NoCode /\ ~first
  /\ at' = "event"
  /\ UNCHANGED <<writerVars, loopVars, repeats, phase, tick, last, receiver>>

\* What Encode puts into the packet, with its timestamp and its marker.
Encode == [ts |-> ts[Events], code |-> code, dur |-> dur, end |-> end, marker |-> first]

Decode(p) == [ts |-> p.ts, digit |-> eventToChar[p.code]]

DecodeRTP(p)        == p.marker
DecodeRTPWithEnd(p) == p.end \/ p.marker

\* The receiver of a packet; it takes events of one timestamp for one digit.
Receive(p) ==
  /\ marked' = IF DecodeRTP(p) THEN Append(marked, Decode(p).digit) ELSE marked
  /\ heard' = IF DecodeRTPWithEnd(p) /\ \A i \in 1..Len(heard) : heard[i].ts # p.ts
              THEN Append(heard, Decode(p)) ELSE heard
  /\ UNCHANGED losses

Lose ==
  /\ losses < MaxLost
  /\ losses' = losses + 1 /\ UNCHANGED <<heard, marked>>

\* WritePayloadAtCurrent, three times for the end of a digit.
WriteEvents ==
  /\ at = "event"
  /\ WritePayloadAtCurrent(Events, TRUE)
  /\ last' = Encode
  /\ Receive(Encode) \/ Lose
  /\ IF end /\ repeats < 2
     THEN repeats' = repeats + 1 /\ UNCHANGED <<at, remaining>>
     ELSE repeats' = 0 /\ at' = "select" /\ remaining' = remaining - 1
  /\ UNCHANGED <<digits, code, totalDur, nextDelay, phase, tick, begun>>

\* An error of WritePayloadAtCurrent ends Write.
WriteFails ==
  /\ at = "event"
  /\ WritePayloadAtCurrent(Events, FALSE)
  /\ Return

\* The audio stream goes on meanwhile.
Sound ==
  /\ \/ \E s \in Streams : NewStream(s)
     \/ WritePayload
     \/ \E ok \in BOOLEAN : WritePayloadEvent(ok)
  /\ UNCHANGED dtmfVars

DTMFNext ==
  \/ Write \/ Cancel \/ Finish \/ Frame \/ Silence \/ FirstEvent \/ NextEvent
  \/ WriteEvents \/ WriteFails \/ Sound \/ DTMFClock

DTMFSpec == DTMFInit /\ [][DTMFNext]_<<writerVars, dtmfVars>>

----------------------------------------------------------------------------

digitsHeard == [i \in 1..Len(heard) |-> heard[i].digit]

\* The receiver gets the digits that were written, each once and apart.  The
\* timestamp of a digit is not before the end (timestamp and duration) of the digit
\* before it, however late or close together the ticks were taken and whatever the
\* audio did; when the last packet of a digit is out, DecodeRTPWithEnd has reported
\* it although up to three packets were lost, and DecodeRTP if none was.
DigitsReceived ==
  [][/\ FirstEvent /\ last # NoEvent =>
          LET gap == (ts'[Events] - last.ts) % TSMod
          IN  gap >= last.dur * FrameTS /\ gap < TSMod \div 2
     /\ WriteEvents /\ at' = "select" /\ end =>
          /\ digitsHeard' = begun
          /\ losses' = 0 => marked' = begun]_<<writerVars, dtmfVars>>
=============================================================================
