----------------------------- MODULE RTPSession -----------------------------
(***************************************************************************)
(* The RTP session of rtp/session.go: the goroutine that calls             *)
(* AcceptStream, which reads the connection and hands packets to the       *)
(* streams, the readers that call ReadRTP, and the caller of Close.        *)
(*                                                                         *)
(* A packet is its number among the packets of its SSRC; packets that are  *)
(* too long or do not parse are skipped by the code and left out here.     *)
(* s.rmu is held by AcceptStream from "read" to "wrote".  A stream's own   *)
(* mutex is held within a step.                                            *)
(***************************************************************************)
EXTENDS Integers, Sequences, FiniteSets

CONSTANTS SSRCs, Readers,
          StreamOf,     \* the SSRC that a reader reads
          QueueSize,    \* cap(r.recv)
          MaxPackets    \* bound on the packets of an SSRC

NoReader == "none"  \* a nil r.hdr

ASSUME SessionAssumption ==
  /\ NoReader \notin Readers /\ NoReader \notin SSRCs
  /\ IsFiniteSet(Readers) /\ StreamOf \in [Readers -> SSRCs]
  /\ QueueSize \in Nat \ {0} /\ MaxPackets \in Nat

VARIABLES
  conn,      \* whether s.conn is open
  fuse,      \* s.closed: "ok" or "broken"
  close,     \* where Close is
  torn,      \* s.bySSRC is nil
  bySSRC,    \* the SSRCs in s.bySSRC
  accepted,  \* the streams AcceptStream has returned
  acc,       \* where AcceptStream is
  pkt,       \* its packet: the SSRC, the number, and isNew
  arrived,   \* how many packets of an SSRC have been read
  recv,      \* the queue of a stream
  hdr,       \* the reader whose buffers a stream holds, or NoReader
  copyTo,    \* what was last copied to the buffers of a reader, or Stale
  rd,        \* where the reader is
  offered,   \* whether its copyNotify is set
  eof,       \* the readers whose ReadRTP returned io.EOF; they read no more
  handed,    \* history: the packets of an SSRC that readers were given
  dropped    \* history: the packets of an SSRC that found a full queue

connVars   == <<conn, fuse, close, torn>>
acceptVars == <<bySSRC, accepted, acc, pkt, arrived>>
readVars   == <<rd, offered, eof, handed>>
vars == <<connVars, acceptVars, recv, hdr, copyTo, dropped, readVars>>

Stale == 0          \* buffers that no packet was copied to
NoPkt == [ssrc |-> NoReader, n |-> 0, isNew |-> FALSE]

Init ==
  /\ conn = "open" /\ fuse = "ok" /\ close = "no" /\ torn = FALSE
  /\ bySSRC = {} /\ accepted = {} /\ acc = "idle" /\ pkt = NoPkt
  /\ arrived = [s \in SSRCs |-> 0] /\ recv = [s \in SSRCs |-> <<>>]
  /\ hdr = [s \in SSRCs |-> NoReader] /\ copyTo = [r \in Readers |-> Stale]
  /\ rd = [r \in Readers |-> "idle"] /\ offered = [r \in Readers |-> FALSE]
  /\ eof = {} /\ handed = [s \in SSRCs |-> <<>>]
  /\ dropped = [s \in SSRCs |-> {}]

\* Mutant of rmuFree: AcceptStream takes the lock before it calls Watch.
MutLockBeforeWatch == acc = "ended"

rmuFree == acc \in {"idle", "watched", "ended"}

\* The callback of s.closed.Once is running.
closing == close \in {"conn", "lock"}

----------------------------------------------------------------------------
(* AcceptStream and readStream.write.                                      *)

\* s.closed.Watch(), which waits while the callback of Once runs.
Watch ==
  /\ acc = "idle" /\ ~closing
  /\ acc' = "watched"
  /\ UNCHANGED <<connVars, bySSRC, accepted, pkt, arrived, recv, hdr, copyTo, dropped,
                 readVars>>

\* s.rmu is taken; a session that is closed returns io.EOF.
AcceptStream ==
  /\ acc = "watched"
  /\ acc' = IF torn THEN "ended" ELSE "read"
  /\ UNCHANGED <<connVars, bySSRC, accepted, pkt, arrived, recv, hdr, copyTo, dropped,
                 readVars>>

ReadPacket(s) ==
  /\ acc = "read" /\ conn = "open" /\ arrived[s] < MaxPackets
  /\ arrived' = [arrived EXCEPT ![s] = @ + 1]
  /\ pkt' = [ssrc |-> s, n |-> arrived[s] + 1, isNew |-> s \notin bySSRC]
  /\ bySSRC' = bySSRC \cup {s}
  /\ acc' = "write"
  /\ UNCHANGED <<connVars, accepted, recv, hdr, copyTo, dropped, readVars>>

\* s.conn.Read returns the error of a closed connection, and AcceptStream it.
ReadError ==
  /\ acc = "read" /\ conn = "closed"
  /\ acc' = "ended"
  /\ UNCHANGED <<connVars, bySSRC, accepted, pkt, arrived, recv, hdr, copyTo, dropped,
                 readVars>>

room(q) == Len(q) < QueueSize

\* write: no reader is waiting, the packet is queued, or dropped if it is full.
Enqueue ==
  /\ acc = "write" /\ hdr[pkt.ssrc] = NoReader
  /\ LET s == pkt.ssrc
     IN  \/ /\ room(recv[s])
            /\ recv' = [recv EXCEPT ![s] = Append(@, pkt.n)]
            /\ UNCHANGED dropped
         \/ /\ ~room(recv[s])
            /\ dropped' = [dropped EXCEPT ![s] = @ \cup {pkt.n}]
            /\ UNCHANGED recv
  /\ acc' = "wrote"
  /\ UNCHANGED <<connVars, bySSRC, accepted, pkt, arrived, hdr, copyTo, readVars>>

\* write: the packet is copied to the buffers of the reader that is waiting.
CopyToReader ==
  /\ acc = "write" /\ hdr[pkt.ssrc] # NoReader
  /\ copyTo' = [copyTo EXCEPT ![hdr[pkt.ssrc]] = pkt.n]
  /\ hdr' = [hdr EXCEPT ![pkt.ssrc] = NoReader]
  /\ acc' = "notify"
  /\ UNCHANGED <<connVars, bySSRC, accepted, pkt, arrived, recv, dropped, readVars>>

\* write: r.copied <- n meets a reader that is waiting for it.
Notify(r) ==
  /\ acc = "notify" /\ StreamOf[r] = pkt.ssrc
  /\ rd[r] = "wait" /\ offered[r]
  /\ acc' = "wrote"
  /\ rd' = [rd EXCEPT ![r] = "return"]
  /\ handed' = [handed EXCEPT ![pkt.ssrc] = Append(@, copyTo[r])]
  /\ UNCHANGED <<connVars, bySSRC, accepted, pkt, arrived, recv, hdr, copyTo, dropped,
                 offered, eof>>

\* Mutant of NotifyClosed: the notification is not waited for.
MutNotifyTry ==
  /\ acc = "notify"
  /\ acc' = "wrote"
  /\ UNCHANGED <<connVars, bySSRC, accepted, pkt, arrived, recv, hdr, copyTo, dropped,
                 readVars>>

NotifyClosed ==
  /\ acc = "notify" /\ fuse = "broken"
  /\ acc' = "wrote"
  /\ UNCHANGED <<connVars, bySSRC, accepted, pkt, arrived, recv, hdr, copyTo, dropped,
                 readVars>>

\* AcceptStream returns a stream that is new, and reads on otherwise.
Wrote ==
  /\ acc = "wrote"
  /\ acc' = IF pkt.isNew THEN "idle" ELSE "read"
  /\ accepted' = accepted \cup {pkt.ssrc}
  /\ pkt' = NoPkt
  /\ UNCHANGED <<connVars, bySSRC, arrived, recv, hdr, copyTo, dropped, readVars>>

----------------------------------------------------------------------------
(* ReadRTP.                                                                *)

\* ReadRTP finds a packet in the queue at once.
ReadQueued(r) ==
  LET s == StreamOf[r]
  IN  /\ rd[r] = "idle" /\ s \in accepted /\ recv[s] # <<>>
      /\ recv' = [recv EXCEPT ![s] = Tail(@)]
      /\ handed' = [handed EXCEPT ![s] = Append(@, Head(recv[s]))]
      /\ UNCHANGED <<connVars, acceptVars, hdr, copyTo, dropped, rd, offered, eof>>

\* Mutant of mayOffer: the queue is not looked at before the buffers are offered.
MutOfferAtOnce(q) == TRUE

\* The queue is empty when the buffers are offered.
mayOffer(q) == q = <<>>

\* ReadRTP offers its buffers, unless another reader has, and waits.
ReadRTP(r) ==
  LET s == StreamOf[r]
  IN  /\ rd[r] = "idle" /\ s \in accepted /\ mayOffer(recv[s])
      /\ r \notin eof
      /\ rd' = [rd EXCEPT ![r] = "wait"]
      /\ offered' = [offered EXCEPT ![r] = (hdr[s] = NoReader)]
      /\ hdr' = [hdr EXCEPT ![s] = IF @ = NoReader THEN r ELSE @]
      /\ UNCHANGED <<connVars, acceptVars, recv, copyTo, dropped, eof, handed>>

\* The select of a waiting ReadRTP receives from the queue.
WaitQueued(r) ==
  LET s == StreamOf[r]
  IN  /\ rd[r] = "wait" /\ recv[s] # <<>>
      /\ recv' = [recv EXCEPT ![s] = Tail(@)]
      /\ rd' = [rd EXCEPT ![r] = "return"]
      /\ handed' = [handed EXCEPT ![s] = Append(@, Head(recv[s]))]
      /\ UNCHANGED <<connVars, acceptVars, hdr, copyTo, dropped, offered, eof>>

WaitClosed(r) ==
  /\ rd[r] = "wait" /\ fuse = "broken"
  /\ rd' = [rd EXCEPT ![r] = "return"]
  /\ eof' = eof \cup {r}
  /\ UNCHANGED <<connVars, acceptVars, recv, hdr, copyTo, dropped, offered, handed>>

\* Mutant of Return: the offer is left standing.
MutReturnKeepsOffer(r) ==
  /\ rd[r] = "return"
  /\ rd' = [rd EXCEPT ![r] = "idle"]
  /\ offered' = [offered EXCEPT ![r] = FALSE]
  /\ UNCHANGED <<connVars, acceptVars, recv, hdr, copyTo, dropped, eof, handed>>

\* The deferred function takes the offer back if it still stands; the caller has
\* its buffers again.
Return(r) ==
  LET s == StreamOf[r]
  IN  /\ rd[r] = "return"
      /\ rd' = [rd EXCEPT ![r] = "idle"]
      /\ offered' = [offered EXCEPT ![r] = FALSE]
      /\ hdr' = [hdr EXCEPT ![s] = IF offered[r] /\ @ = r THEN NoReader ELSE @]
      /\ copyTo' = [copyTo EXCEPT ![r] = Stale]
      /\ UNCHANGED <<connVars, acceptVars, recv, dropped, eof, handed>>

----------------------------------------------------------------------------
(* Close, whose callback runs within s.closed.Once.  The fuse is a library: *)
(* that its channel closes before the callback or after it is not relied on. *)

CloseCall ==
  /\ close = "no" /\ close' = "conn"
  /\ fuse' \in {"ok", "broken"}
  /\ UNCHANGED <<conn, torn, acceptVars, recv, hdr, copyTo, dropped, readVars>>

CloseConn ==
  /\ close = "conn" /\ conn' = "closed" /\ close' = "lock"
  /\ UNCHANGED <<fuse, torn, acceptVars, recv, hdr, copyTo, dropped, readVars>>

CloseStreams ==
  /\ close = "lock" /\ rmuFree
  /\ torn' = TRUE /\ bySSRC' = {}
  /\ fuse' = "broken" /\ close' = "done"
  /\ UNCHANGED <<conn, accepted, acc, pkt, arrived, recv, hdr, copyTo, dropped, readVars>>

Accept == Watch \/ AcceptStream \/ ReadError \/ Enqueue \/ CopyToReader
            \/ NotifyClosed \/ Wrote
Wake(r) == WaitQueued(r) \/ WaitClosed(r) \/ Return(r)
Closing == CloseConn \/ CloseStreams

Next ==
  \/ Accept \/ Closing \/ CloseCall
  \/ \E s \in SSRCs : ReadPacket(s)
  \/ \E r \in Readers : Notify(r) \/ ReadQueued(r) \/ ReadRTP(r) \/ Wake(r)

Spec == Init /\ [][Next]_vars

\* Every goroutine that can go on does; no packet need ever arrive.
Fairness ==
  /\ WF_vars(Accept) /\ WF_vars(Closing)
  /\ \A r \in Readers : WF_vars(Notify(r)) /\ WF_vars(Wake(r))

FairSpec == Spec /\ Fairness

----------------------------------------------------------------------------
(* Properties.                                                             *)

\* The type invariant: in particular the queue of a stream keeps to its capacity.
SessionTypeOK ==
  /\ conn \in {"open", "closed"} /\ fuse \in {"ok", "broken"}
  /\ close \in {"no", "conn", "lock", "done"} /\ torn \in BOOLEAN
  /\ bySSRC \subseteq SSRCs /\ accepted \subseteq SSRCs
  /\ acc \in {"idle", "watched", "read", "write", "notify", "wrote", "ended"}
  /\ pkt \in [ssrc : SSRCs, n : 1..MaxPackets, isNew : BOOLEAN] \cup {NoPkt}
  /\ arrived \in [SSRCs -> 0..MaxPackets]
  /\ dropped \in [SSRCs -> SUBSET (1..MaxPackets)]
  /\ recv \in [SSRCs -> Seq(1..MaxPackets)]
  /\ \A s \in SSRCs : Len(recv[s]) <= QueueSize
  /\ hdr \in [SSRCs -> Readers \cup {NoReader}]
  /\ copyTo \in [Readers -> 0..MaxPackets]
  /\ rd \in [Readers -> {"idle", "wait", "return"}]
  /\ offered \in [Readers -> BOOLEAN]
  /\ eof \subseteq Readers
  /\ handed \in [SSRCs -> Seq(0..MaxPackets)]

\* The buffers that write copies to belong to a ReadRTP that has not returned: no
\* packet is copied into memory that the caller has already taken back.
OfferStands ==
  \A s \in SSRCs : hdr[s] # NoReader => rd[hdr[s]] # "idle" /\ StreamOf[hdr[s]] = s

\* The streams with a single reader.
alone == {s \in SSRCs : Cardinality({r \in Readers : StreamOf[r] = s}) = 1}

\* A stream's only reader is handed its packets in the order in which they arrived,
\* none twice and never buffers that no packet was copied to, on whichever of the
\* two ways (queue or direct copy) each packet comes.
ReadsInOrder ==
  \A s \in alone : /\ \A i \in DOMAIN handed[s] : handed[s][i] # Stale
                   /\ \A i, j \in DOMAIN handed[s] :
                        i < j => handed[s][i] < handed[s][j]

\* The packets of s that were handed out, queued, dropped, or are on their way.
accounted(s) ==
  {handed[s][i] : i \in DOMAIN handed[s]} \cup {recv[s][i] : i \in DOMAIN recv[s]}
    \cup dropped[s]
    \cup IF acc \in {"write", "notify"} /\ pkt.ssrc = s THEN {pkt.n} ELSE {}

\* Up to the close no packet that arrived is lost: each one was handed out, is queued or
\* on its way, or found the queue full.  Where readers share a stream the notification
\* for one of them may wake another (the race of ReadRTP) and the packet be lost; there
\* no packet is as long as nobody was handed buffers that hold none.
PacketsAccounted ==
  fuse # "broken" =>
    \A s \in SSRCs :
      s \in alone \/ (\A i \in DOMAIN handed[s] : handed[s][i] # Stale)
        => 1..arrived[s] \subseteq accounted(s)

\* Close returns, and with it AcceptStream and every ReadRTP that waits: Close does
\* not wait for a lock whose holder waits for the connection, for a reader or for
\* the fuse that Close holds.
SessionEnds ==
  close = "conn" ~> close = "done" /\ acc = "ended" /\ \A r \in Readers : rd[r] = "idle"
=============================================================================
