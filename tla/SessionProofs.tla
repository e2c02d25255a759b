---------------------------- MODULE SessionProofs ----------------------------
(***************************************************************************)
(* Proofs about the RTP session, for any number of streams, readers and    *)
(* packets and any queue size.                                             *)
(***************************************************************************)
EXTENDS RTPSession, FiniteSetTheorems, SequenceTheorems, TLAPS

----------------------------------------------------------------------------
(* The inductive invariant.                                                *)

\* AcceptStream has a packet of s that it has not handed on yet.
inHand(s) == acc \in {"write", "notify"} /\ pkt.ssrc = s

\* From "write" to "wrote" AcceptStream has a packet, the last that arrived.
PacketInv ==
  acc \in {"write", "notify", "wrote"} =>
    pkt # NoPkt /\ pkt.ssrc \in SSRCs /\ pkt.n = arrived[pkt.ssrc]

\* Close is called once, and with it the fuse may break.
FuseInv == close = "no" => fuse = "ok"

\* A stream holds the buffers of a ReadRTP that has not returned and that still
\* means to take them back.
OfferInv ==
  \A s \in SSRCs : hdr[s] # NoReader =>
    rd[hdr[s]] # "idle" /\ StreamOf[hdr[s]] = s /\ offered[hdr[s]]

SessionInv == SessionTypeOK /\ PacketInv /\ FuseInv /\ OfferInv

\* The numbers of a queue grow, lie within 1..m, and come before those of another.
Ascending(q) == \A i, j \in 1..Len(q) : i < j => q[i] < q[j]
Within(q, m) == \A i \in 1..Len(q) : 0 < q[i] /\ q[i] <= m
Before(p, q) == \A i \in 1..Len(p), j \in 1..Len(q) : p[i] < q[j]

\* Up to which number the packets of s have been queued, dropped or handed out.
upTo(s) == IF inHand(s) THEN arrived[s] - 1 ELSE arrived[s]

\* What is queued is in order, and comes before what is in hand.
QueueInv == \A s \in SSRCs : Ascending(recv[s]) /\ Within(recv[s], upTo(s))

\* A reader that was told of the end does not wait again.
EofInv == \A r \in eof : rd[r] # "wait"

\* r is the only reader of s.
onlyReader(r, s) == \A q \in Readers : StreamOf[q] = s <=> q = r

\* While the buffers of its only reader are offered, or have been copied to and it has
\* not been told, nothing is queued and the reader is waiting, or has been told of
\* the end; what is copied to it is the packet in hand.
DirectInv ==
  \A s \in SSRCs, r \in Readers : onlyReader(r, s) =>
    /\ hdr[s] = r => recv[s] = <<>> /\ (rd[r] = "wait" \/ r \in eof)
    /\ acc = "notify" /\ pkt.ssrc = s =>
         /\ recv[s] = <<>> /\ hdr[s] # r
         /\ (rd[r] = "wait" /\ copyTo[r] = pkt.n) \/ r \in eof

\* What the only reader was handed is in order, and comes before what is queued.
OrderInv ==
  \A s \in SSRCs, r \in Readers : onlyReader(r, s) =>
    /\ Ascending(handed[s]) /\ Within(handed[s], upTo(s)) /\ Before(handed[s], recv[s])

InOrder == QueueInv /\ EofInv /\ DirectInv /\ OrderInv

----------------------------------------------------------------------------
(* Types and offers.                                                       *)

\* The steps of AcceptStream that have no packet, and those of Close.
LEMMA SessionQuiet ==
  ASSUME SessionInv,
         Watch \/ AcceptStream \/ ReadError \/ CloseCall \/ CloseConn \/ CloseStreams
  PROVE  SessionInv'
<1> USE DEF connVars, acceptVars, readVars
<1>1. SessionTypeOK'
  BY DEF SessionInv, SessionTypeOK, Watch, AcceptStream, ReadError, CloseCall, CloseConn,
         CloseStreams
<1>2. PacketInv'
  BY DEF SessionInv, PacketInv, Watch, AcceptStream, ReadError, CloseCall, CloseConn,
         CloseStreams
<1>3. FuseInv'
  BY DEF SessionInv, FuseInv, Watch, AcceptStream, ReadError, CloseCall, CloseConn,
         CloseStreams
<1>4. OfferInv'
  BY DEF SessionInv, OfferInv, Watch, AcceptStream, ReadError, CloseCall, CloseConn,
         CloseStreams
<1> QED BY <1>1, <1>2, <1>3, <1>4 DEF SessionInv

\* A packet arrives.
LEMMA SessionArrives ==
  ASSUME SessionInv, NEW s \in SSRCs, ReadPacket(s)
  PROVE  SessionInv'
<1> USE DEF connVars, readVars
<1>1. /\ acc = "read" /\ acc' = "write" /\ arrived[s] < MaxPackets
      /\ arrived' = [arrived EXCEPT ![s] = @ + 1]
      /\ pkt' = [ssrc |-> s, n |-> arrived[s] + 1, isNew |-> s \notin bySSRC]
      /\ bySSRC' = bySSRC \cup {s}
      /\ UNCHANGED <<conn, fuse, close, torn, accepted, recv, hdr, copyTo, dropped, rd,
                     offered, eof, handed>>
  BY DEF ReadPacket
<1>2. arrived \in [SSRCs -> 0..MaxPackets] /\ MaxPackets \in Nat
  BY SessionAssumption DEF SessionInv, SessionTypeOK
<1>3. arrived[s] + 1 \in 1..MaxPackets /\ arrived' \in [SSRCs -> 0..MaxPackets]
      /\ arrived'[s] = arrived[s] + 1
  BY <1>1, <1>2
<1>4. pkt' \in [ssrc : SSRCs, n : 1..MaxPackets, isNew : BOOLEAN]
  BY <1>1, <1>3
<1>5. SessionTypeOK'
  BY <1>1, <1>3, <1>4 DEF SessionInv, SessionTypeOK
<1>6. PacketInv'
  <2>1. pkt'.ssrc = s /\ pkt'.n = arrived[s] + 1
    BY <1>1
  <2>2. pkt' # NoPkt
    BY <2>1, SessionAssumption DEF NoPkt
  <2> QED BY <1>3, <2>1, <2>2 DEF PacketInv
<1>7. FuseInv'
  BY <1>1 DEF SessionInv, FuseInv
<1>8. OfferInv'
  BY <1>1 DEF SessionInv, OfferInv
<1> QED BY <1>5, <1>6, <1>7, <1>8 DEF SessionInv

\* The packet in hand is a packet of the session.
LEMMA PacketTypes ==
  ASSUME SessionInv, acc \in {"write", "notify", "wrote"}
  PROVE  /\ pkt \in [ssrc : SSRCs, n : 1..MaxPackets, isNew : BOOLEAN]
         /\ pkt.ssrc \in SSRCs /\ pkt.n \in 1..MaxPackets /\ pkt.n = arrived[pkt.ssrc]
<1>1. pkt # NoPkt /\ pkt.n = arrived[pkt.ssrc]
  BY DEF SessionInv, PacketInv
<1>2. pkt \in [ssrc : SSRCs, n : 1..MaxPackets, isNew : BOOLEAN]
  BY <1>1 DEF SessionInv, SessionTypeOK
<1> QED BY <1>1, <1>2

\* The packet is queued, or dropped.
LEMMA SessionEnqueues ==
  ASSUME SessionInv, Enqueue
  PROVE  SessionInv'
<1> USE DEF connVars, readVars
<1>1. PICK s \in SSRCs : s = pkt.ssrc /\ pkt.n \in 1..MaxPackets
  BY PacketTypes DEF Enqueue
<1>2. /\ acc = "write" /\ acc' = "wrote"
      /\ UNCHANGED <<conn, fuse, close, torn, bySSRC, accepted, pkt, arrived, hdr, copyTo,
                     rd, offered, eof, handed>>
  BY DEF Enqueue
<1>3. /\ recv \in [SSRCs -> Seq(1..MaxPackets)] /\ recv[s] \in Seq(1..MaxPackets)
      /\ dropped \in [SSRCs -> SUBSET (1..MaxPackets)]
      /\ \A t \in SSRCs : Len(recv[t]) <= QueueSize
  BY <1>1 DEF SessionInv, SessionTypeOK
<1>4. Len(recv[s]) \in Nat /\ QueueSize \in Nat
  BY <1>3, LenProperties, SessionAssumption
<1>5. SessionTypeOK'
  <2>1. CASE room(recv[s])
    <3>1. recv' = [recv EXCEPT ![s] = Append(@, pkt.n)] /\ dropped' = dropped
      BY <1>1, <2>1 DEF Enqueue
    <3>2. /\ Append(recv[s], pkt.n) \in Seq(1..MaxPackets)
          /\ Len(Append(recv[s], pkt.n)) <= QueueSize
      BY <1>1, <1>3, <1>4, <2>1 DEF room
    <3>3. recv' \in [SSRCs -> Seq(1..MaxPackets)]
          /\ \A t \in SSRCs : Len(recv'[t]) <= QueueSize
      BY <1>3, <3>1, <3>2
    <3> QED BY <1>2, <3>1, <3>3 DEF SessionInv, SessionTypeOK
  <2>2. CASE ~room(recv[s])
    <3>1. dropped' = [dropped EXCEPT ![s] = @ \cup {pkt.n}] /\ recv' = recv
      BY <1>1, <2>2 DEF Enqueue
    <3>2. dropped' \in [SSRCs -> SUBSET (1..MaxPackets)]
      BY <1>1, <1>3, <3>1
    <3> QED BY <1>2, <3>1, <3>2 DEF SessionInv, SessionTypeOK
  <2> QED BY <2>1, <2>2
<1>6. PacketInv' /\ FuseInv' /\ OfferInv'
  BY <1>2 DEF SessionInv, PacketInv, FuseInv, OfferInv
<1> QED BY <1>5, <1>6 DEF SessionInv

\* The packet is copied to the buffers of a reader, and AcceptStream goes on.
LEMMA SessionCopies ==
  ASSUME SessionInv, CopyToReader \/ Wrote
  PROVE  SessionInv'
<1> USE DEF connVars, readVars
<1>1. /\ UNCHANGED <<conn, fuse, close, torn, bySSRC, arrived, recv, dropped, rd, offered,
                     eof, handed>>
      /\ acc' \in {"notify", "idle", "read"}
  BY DEF CopyToReader, Wrote
<1>2. pkt.ssrc \in SSRCs /\ pkt.n \in 1..MaxPackets
  BY PacketTypes DEF CopyToReader, Wrote
<1>4. FuseInv'
  BY <1>1 DEF SessionInv, FuseInv
<1>5. SessionTypeOK'
  <2>1. copyTo' \in [Readers -> 0..MaxPackets]
    <3>1. copyTo \in [Readers -> 0..MaxPackets] /\ pkt.n \in 0..MaxPackets
      BY <1>2, SessionAssumption DEF SessionInv, SessionTypeOK
    <3>2. copyTo' = copyTo \/ \E r : copyTo' = [copyTo EXCEPT ![r] = pkt.n]
      BY DEF CopyToReader, Wrote
    <3> QED BY <3>1, <3>2
  <2>2. hdr' \in [SSRCs -> Readers \cup {NoReader}]
    BY DEF CopyToReader, Wrote, SessionInv, SessionTypeOK
  <2>3. accepted' \subseteq SSRCs
    BY <1>2 DEF CopyToReader, Wrote, SessionInv, SessionTypeOK
  <2>4. pkt' \in [ssrc : SSRCs, n : 1..MaxPackets, isNew : BOOLEAN] \cup {NoPkt}
    BY DEF CopyToReader, Wrote, SessionInv, SessionTypeOK
  <2> QED BY <1>1, <2>1, <2>2, <2>3, <2>4 DEF SessionInv, SessionTypeOK
<1>6. PacketInv'
  BY DEF CopyToReader, Wrote, SessionInv, PacketInv
<1>7. OfferInv'
  <2>1. hdr \in [SSRCs -> Readers \cup {NoReader}]
    BY DEF SessionInv, SessionTypeOK
  <2>2. \A s \in SSRCs : hdr'[s] # NoReader => hdr'[s] = hdr[s]
    BY <2>1 DEF CopyToReader, Wrote
  <2> QED BY <1>1, <2>2 DEF SessionInv, OfferInv
<1> QED BY <1>4, <1>5, <1>6, <1>7 DEF SessionInv

\* The reader is told of its packet; or, once the fuse is broken, is not.
LEMMA SessionNotifies ==
  ASSUME SessionInv, NotifyClosed \/ \E r \in Readers : Notify(r)
  PROVE  SessionInv'
<1> USE DEF connVars, readVars
<1>1. /\ acc = "notify" /\ acc' = "wrote"
      /\ UNCHANGED <<conn, fuse, close, torn, bySSRC, accepted, pkt, arrived, recv, hdr,
                     copyTo, dropped, offered, eof>>
  BY DEF NotifyClosed, Notify
<1>2. PICK s \in SSRCs : s = pkt.ssrc
  BY <1>1, PacketTypes
<1>3. /\ handed \in [SSRCs -> Seq(0..MaxPackets)] /\ copyTo \in [Readers -> 0..MaxPackets]
      /\ rd \in [Readers -> {"idle", "wait", "return"}]
      /\ hdr \in [SSRCs -> Readers \cup {NoReader}]
  BY DEF SessionInv, SessionTypeOK
<1>4. CASE NotifyClosed
  <2>1. UNCHANGED <<handed, rd>>
    BY <1>4 DEF NotifyClosed
  <2> QED BY <1>1, <2>1 DEF SessionInv, SessionTypeOK, PacketInv, FuseInv, OfferInv
<1>5. ASSUME NEW r \in Readers, Notify(r)
      PROVE  SessionInv'
  <2>1. /\ rd' = [rd EXCEPT ![r] = "return"]
        /\ handed' = [handed EXCEPT ![s] = Append(@, copyTo[r])]
    BY <1>2, <1>5 DEF Notify
  <2>2. handed' \in [SSRCs -> Seq(0..MaxPackets)]
    <3>1. handed[s] \in Seq(0..MaxPackets) /\ copyTo[r] \in 0..MaxPackets
      BY <1>3
    <3>2. Append(handed[s], copyTo[r]) \in Seq(0..MaxPackets)
      BY <3>1
    <3> QED BY <1>3, <2>1, <3>2
  <2>3. rd' \in [Readers -> {"idle", "wait", "return"}]
        /\ \A p \in Readers : rd[p] # "idle" => rd'[p] # "idle"
    BY <1>3, <2>1
  <2>4. SessionTypeOK'
    BY <1>1, <2>2, <2>3 DEF SessionInv, SessionTypeOK
  <2>5. PacketInv' /\ FuseInv' /\ OfferInv'
    BY <1>1, <1>3, <2>3 DEF SessionInv, PacketInv, FuseInv, OfferInv
  <2> QED BY <2>4, <2>5 DEF SessionInv
<1> QED BY <1>4, <1>5

\* A reader takes a packet from the queue.
LEMMA SessionReads ==
  ASSUME SessionInv, NEW r \in Readers, ReadQueued(r) \/ WaitQueued(r)
  PROVE  SessionInv'
<1> USE DEF connVars, acceptVars, readVars
<1>1. PICK s \in SSRCs : s = StreamOf[r]
  BY SessionAssumption
<1>2. /\ recv[s] # <<>> /\ recv' = [recv EXCEPT ![s] = Tail(@)]
      /\ handed' = [handed EXCEPT ![s] = Append(@, Head(recv[s]))]
      /\ rd' = rd \/ rd' = [rd EXCEPT ![r] = "return"]
      /\ UNCHANGED <<conn, fuse, close, torn, bySSRC, accepted, acc, pkt, arrived, hdr,
                     copyTo, dropped, offered, eof>>
  BY <1>1 DEF ReadQueued, WaitQueued
<1>3. /\ recv \in [SSRCs -> Seq(1..MaxPackets)] /\ handed \in [SSRCs -> Seq(0..MaxPackets)]
      /\ rd \in [Readers -> {"idle", "wait", "return"}]
      /\ hdr \in [SSRCs -> Readers \cup {NoReader}]
      /\ \A t \in SSRCs : Len(recv[t]) <= QueueSize
  BY DEF SessionInv, SessionTypeOK
<1>4. recv[s] \in Seq(1..MaxPackets) /\ handed[s] \in Seq(0..MaxPackets)
  BY <1>3
<1>5. MaxPackets \in Nat /\ QueueSize \in Nat /\ Len(recv[s]) \in Nat
  BY <1>4, LenProperties, SessionAssumption
<1>6. /\ Tail(recv[s]) \in Seq(1..MaxPackets) /\ Len(Tail(recv[s])) = Len(recv[s]) - 1
      /\ Head(recv[s]) \in 1..MaxPackets
  BY <1>2, <1>4, HeadTailProperties
<1>7. Append(handed[s], Head(recv[s])) \in Seq(0..MaxPackets)
  <2>1. Head(recv[s]) \in 0..MaxPackets
    BY <1>5, <1>6
  <2> QED BY <1>4, <2>1
<1>8. SessionTypeOK'
  <2>1. recv' \in [SSRCs -> Seq(1..MaxPackets)] /\ handed' \in [SSRCs -> Seq(0..MaxPackets)]
    BY <1>2, <1>3, <1>6, <1>7
  <2>2. \A t \in SSRCs : Len(recv'[t]) <= QueueSize
    <3>1. Len(Tail(recv[s])) <= QueueSize
      BY <1>3, <1>5, <1>6
    <3> QED BY <1>2, <1>3, <3>1
  <2>3. rd' \in [Readers -> {"idle", "wait", "return"}]
    BY <1>2, <1>3
  <2> QED BY <1>2, <2>1, <2>2, <2>3 DEF SessionInv, SessionTypeOK
<1>9. PacketInv' /\ FuseInv' /\ OfferInv'
  <2>1. \A p \in Readers : rd[p] # "idle" => rd'[p] # "idle"
    BY <1>2, <1>3
  <2> QED BY <1>2, <1>3, <2>1 DEF SessionInv, PacketInv, FuseInv, OfferInv
<1> QED BY <1>8, <1>9 DEF SessionInv

\* A reader offers its buffers, is told of the end, or returns.
LEMMA SessionOffers ==
  ASSUME SessionInv, NEW r \in Readers, ReadRTP(r) \/ WaitClosed(r) \/ Return(r)
  PROVE  SessionInv'
<1> USE DEF connVars, acceptVars
<1>1. PICK s \in SSRCs : s = StreamOf[r]
  BY SessionAssumption
<1>2. UNCHANGED <<conn, fuse, close, torn, bySSRC, accepted, acc, pkt, arrived, recv,
                  dropped, handed>>
  BY DEF ReadRTP, WaitClosed, Return
<1>3. /\ hdr \in [SSRCs -> Readers \cup {NoReader}]
      /\ rd \in [Readers -> {"idle", "wait", "return"}] /\ offered \in [Readers -> BOOLEAN]
      /\ copyTo \in [Readers -> 0..MaxPackets] /\ eof \subseteq Readers
      /\ Stale \in 0..MaxPackets
  BY SessionAssumption DEF SessionInv, SessionTypeOK, Stale
<1>4. FuseInv' /\ PacketInv'
  BY <1>2 DEF SessionInv, FuseInv, PacketInv
<1>5. OfferInv
  BY DEF SessionInv
<1>6. NoReader \notin Readers
  BY SessionAssumption
<1>7. CASE ReadRTP(r)
  <2>1. /\ rd[r] = "idle" /\ rd' = [rd EXCEPT ![r] = "wait"]
        /\ offered' = [offered EXCEPT ![r] = (hdr[s] = NoReader)]
        /\ hdr' = [hdr EXCEPT ![s] = IF @ = NoReader THEN r ELSE @]
        /\ UNCHANGED <<copyTo, eof>>
    BY <1>1, <1>7 DEF ReadRTP
  <2>2. SessionTypeOK'
    <3>1. rd' \in [Readers -> {"idle", "wait", "return"}] /\ offered' \in [Readers -> BOOLEAN]
      BY <1>3, <2>1
    <3>2. hdr' \in [SSRCs -> Readers \cup {NoReader}]
      BY <1>1, <1>3, <2>1
    <3> QED BY <1>2, <2>1, <3>1, <3>2 DEF SessionInv, SessionTypeOK
  <2>3. OfferInv'
    <3> SUFFICES ASSUME NEW t \in SSRCs, hdr'[t] # NoReader
                 PROVE  rd'[hdr'[t]] # "idle" /\ StreamOf[hdr'[t]] = t /\ offered'[hdr'[t]]
      BY DEF OfferInv
    <3>1. CASE hdr[t] # NoReader
      <4>1. hdr'[t] = hdr[t] /\ hdr[t] # r
        BY <1>3, <1>5, <2>1, <3>1 DEF OfferInv
      <4> QED BY <1>3, <1>5, <2>1, <3>1, <4>1 DEF OfferInv
    <3>2. CASE hdr[t] = NoReader
      <4>1. t = s /\ hdr'[t] = r
        BY <1>3, <2>1, <3>2
      <4> QED BY <1>1, <1>3, <2>1, <3>2, <4>1
    <3> QED BY <3>1, <3>2
  <2> QED BY <1>4, <2>2, <2>3 DEF SessionInv
<1>8. CASE WaitClosed(r)
  <2>1. rd' = [rd EXCEPT ![r] = "return"] /\ eof' = eof \cup {r}
        /\ UNCHANGED <<hdr, copyTo, offered>>
    BY <1>8 DEF WaitClosed
  <2>2. rd' \in [Readers -> {"idle", "wait", "return"}]
        /\ \A p \in Readers : rd[p] # "idle" => rd'[p] # "idle"
    BY <1>3, <2>1
  <2>3. SessionTypeOK'
    BY <1>2, <2>1, <2>2 DEF SessionInv, SessionTypeOK
  <2>4. OfferInv'
    BY <1>3, <1>5, <2>1, <2>2 DEF OfferInv
  <2> QED BY <1>4, <2>3, <2>4 DEF SessionInv
<1>9. CASE Return(r)
  <2>1. /\ rd' = [rd EXCEPT ![r] = "idle"] /\ offered' = [offered EXCEPT ![r] = FALSE]
        /\ hdr' = [hdr EXCEPT ![s] = IF offered[r] /\ @ = r THEN NoReader ELSE @]
        /\ copyTo' = [copyTo EXCEPT ![r] = Stale] /\ eof' = eof
    BY <1>1, <1>9 DEF Return
  <2>2. SessionTypeOK'
    <3>1. rd' \in [Readers -> {"idle", "wait", "return"}] /\ offered' \in [Readers -> BOOLEAN]
          /\ copyTo' \in [Readers -> 0..MaxPackets]
      BY <1>3, <2>1
    <3>2. hdr' \in [SSRCs -> Readers \cup {NoReader}]
      BY <1>1, <1>3, <2>1
    <3> QED BY <1>2, <2>1, <3>1, <3>2 DEF SessionInv, SessionTypeOK
  <2>3. OfferInv'
    <3> SUFFICES ASSUME NEW t \in SSRCs, hdr'[t] # NoReader
                 PROVE  rd'[hdr'[t]] # "idle" /\ StreamOf[hdr'[t]] = t /\ offered'[hdr'[t]]
      BY DEF OfferInv
    <3>1. hdr'[t] = hdr[t] /\ (t = s => ~(offered[r] /\ hdr[t] = r))
      BY <1>3, <2>1
    <3>2. StreamOf[hdr[t]] = t /\ offered[hdr[t]] /\ rd[hdr[t]] # "idle"
      BY <1>5, <3>1 DEF OfferInv
    <3>3. hdr[t] # r
      BY <1>1, <3>1, <3>2
    <3> QED BY <1>3, <2>1, <3>1, <3>2, <3>3
  <2> QED BY <1>4, <2>2, <2>3 DEF SessionInv
<1> QED BY <1>7, <1>8, <1>9

LEMMA SessionInit == Init => SessionInv
<1> SUFFICES ASSUME Init PROVE SessionInv
  OBVIOUS
<1>1. MaxPackets \in Nat /\ QueueSize \in Nat
  BY SessionAssumption
<1>2. SessionTypeOK
  <2>1. /\ 0 \in 0..MaxPackets /\ <<>> \in Seq(1..MaxPackets) /\ <<>> \in Seq(0..MaxPackets)
        /\ Len(<<>>) <= QueueSize
    BY <1>1
  <2>2. /\ arrived \in [SSRCs -> 0..MaxPackets]
        /\ dropped \in [SSRCs -> SUBSET (1..MaxPackets)]
        /\ recv \in [SSRCs -> Seq(1..MaxPackets)] /\ handed \in [SSRCs -> Seq(0..MaxPackets)]
        /\ copyTo \in [Readers -> 0..MaxPackets]
        /\ \A s \in SSRCs : Len(recv[s]) <= QueueSize
    BY <2>1 DEF Init, Stale
  <2> QED BY <2>2 DEF Init, SessionTypeOK
<1>3. PacketInv /\ FuseInv /\ OfferInv
  BY DEF Init, PacketInv, FuseInv, OfferInv
<1> QED BY <1>2, <1>3 DEF SessionInv

LEMMA SessionStutter ==
  ASSUME SessionInv, UNCHANGED vars
  PROVE  SessionInv'
BY DEF vars, connVars, acceptVars, readVars, SessionInv, SessionTypeOK, PacketInv, FuseInv,
       OfferInv

\* The session keeps its types and knows which packet it has and whose buffers it holds.
THEOREM SessionInvariant == Spec => []SessionInv
<1>1. Init => SessionInv
  BY SessionInit
<1>2. SessionInv /\ [Next]_vars => SessionInv'
  <2> SUFFICES ASSUME SessionInv, [Next]_vars
               PROVE  SessionInv'
    OBVIOUS
  <2>1. CASE Accept
    BY <2>1, SessionQuiet, SessionEnqueues, SessionCopies, SessionNotifies DEF Accept
  <2>2. CASE Closing \/ CloseCall
    BY <2>2, SessionQuiet DEF Closing
  <2>3. CASE \E s \in SSRCs : ReadPacket(s)
    BY <2>3, SessionArrives
  <2>4. ASSUME NEW r \in Readers, Notify(r) \/ ReadQueued(r) \/ ReadRTP(r) \/ Wake(r)
        PROVE  SessionInv'
    BY <2>4, SessionNotifies, SessionReads, SessionOffers DEF Wake
  <2>5. CASE UNCHANGED vars
    BY <2>5, SessionStutter
  <2> QED BY <2>1, <2>2, <2>3, <2>4, <2>5 DEF Next
<1> QED BY <1>1, <1>2, PTL DEF Spec

\* rtp/session.go, readStream: write never copies into buffers that their ReadRTP has
\* given back, for any number of readers of a stream and any order of their steps.
THEOREM OfferStandsHolds == Spec => []OfferStands
<1>1. SessionInv => OfferStands
  BY DEF SessionInv, OfferInv, OfferStands
<1> QED BY <1>1, SessionInvariant, PTL

----------------------------------------------------------------------------
(* Ascending sequences.                                                    *)

LEMMA OrderAppend ==
  ASSUME NEW q \in Seq(Int), NEW v \in Int, NEW m \in Int, Ascending(q), Within(q, m),
         m < v, 0 < v
  PROVE  Append(q, v) \in Seq(Int) /\ Ascending(Append(q, v)) /\ Within(Append(q, v), v)
<1> DEFINE p == Append(q, v)
<1>1. Len(q) \in Nat /\ Len(p) = Len(q) + 1 /\ p \in Seq(Int)
      /\ (\A i \in 1..Len(q) : p[i] = q[i] /\ q[i] \in Int) /\ p[Len(q) + 1] = v
  BY AppendProperties, ElementOfSeq, LenProperties
<1> HIDE DEF p
<1>2. \A i \in 1..Len(p) : i \in 1..Len(q) \/ i = Len(q) + 1
  BY <1>1
<1>3. ASSUME NEW i \in 1..Len(q)
      PROVE  0 < p[i] /\ p[i] < v
  <2>1. p[i] = q[i] /\ q[i] \in Int
    BY <1>1
  <2>2. 0 < q[i] /\ q[i] <= m
    BY DEF Within
  <2> QED BY <2>1, <2>2
<1>4. Within(p, v)
  BY <1>1, <1>2, <1>3 DEF Within
<1>5. Ascending(p)
  <2> SUFFICES ASSUME NEW i \in 1..Len(p), NEW j \in 1..Len(p), i < j
               PROVE  p[i] < p[j]
    BY DEF Ascending
  <2>1. i \in 1..Len(q)
    BY <1>1
  <2>2. CASE j \in 1..Len(q)
    BY <1>1, <2>1, <2>2 DEF Ascending
  <2>3. CASE j = Len(q) + 1
    BY <1>1, <1>3, <2>1, <2>3
  <2> QED BY <1>2, <2>2, <2>3
<1> QED BY <1>1, <1>4, <1>5 DEF p

LEMMA BeforeAppend ==
  ASSUME NEW p \in Seq(Int), NEW q \in Seq(Int), NEW v \in Int, NEW m \in Int,
         Before(p, q), Within(p, m), m < v
  PROVE  Before(p, Append(q, v))
<1>1. Len(q) \in Nat /\ Len(Append(q, v)) = Len(q) + 1
      /\ (\A i \in 1..Len(q) : Append(q, v)[i] = q[i]) /\ Append(q, v)[Len(q) + 1] = v
  BY AppendProperties, LenProperties
<1>2. \A i \in 1..Len(p) : p[i] \in Int /\ p[i] <= m
  BY ElementOfSeq DEF Within
<1> QED BY <1>1, <1>2 DEF Before

LEMMA BeforeEmpty ==
  ASSUME NEW p, NEW q, q = <<>>
  PROVE  Before(p, q)
<1>1. Len(q) = 0
  BY EmptySeq
<1>2. \A j \in 1..Len(q) : FALSE
  BY <1>1
<1> QED BY <1>2 DEF Before

LEMMA OrderRaise ==
  ASSUME NEW q \in Seq(Int), NEW m \in Int, NEW n \in Int, Within(q, m), m <= n
  PROVE  Within(q, n)
<1>1. \A i \in 1..Len(q) : q[i] \in Int
  BY ElementOfSeq
<1> QED BY <1>1 DEF Within

\* The head of a queue is moved to the end of another.
LEMMA OrderMove ==
  ASSUME NEW p \in Seq(Int), NEW q \in Seq(Int), q # <<>>, NEW m \in Int,
         Ascending(p), Ascending(q), Within(p, m), Within(q, m), Before(p, q)
  PROVE  /\ Ascending(Append(p, Head(q))) /\ Within(Append(p, Head(q)), m)
         /\ Before(Append(p, Head(q)), Tail(q))
<1> DEFINE a == Append(p, Head(q))
           b == Tail(q)
<1>1. Len(q) \in Nat \ {0} /\ Head(q) = q[1] /\ q[1] \in Int
  BY EmptySeq, ElementOfSeq
<1>2. Len(p) \in Nat /\ Len(a) = Len(p) + 1
      /\ (\A i \in 1..Len(p) : a[i] = p[i] /\ p[i] \in Int) /\ a[Len(p) + 1] = q[1]
  BY <1>1, AppendProperties, ElementOfSeq, LenProperties
<1>3. Len(b) = Len(q) - 1 /\ \A i \in 1..Len(b) : b[i] = q[i + 1]
  BY HeadTailProperties
<1> HIDE DEF a, b
<1>4. \A i \in 1..Len(a) : i \in 1..Len(p) \/ i = Len(p) + 1
  BY <1>2
<1>5. \A i \in 1..Len(p) : 0 < p[i] /\ p[i] <= m /\ p[i] < q[1]
  BY <1>1 DEF Within, Before
<1>6. 0 < q[1] /\ q[1] <= m
  BY <1>1 DEF Within
<1>7. Within(a, m)
  BY <1>2, <1>4, <1>5, <1>6 DEF Within
<1>8. Ascending(a)
  <2> SUFFICES ASSUME NEW i \in 1..Len(a), NEW j \in 1..Len(a), i < j
               PROVE  a[i] < a[j]
    BY DEF Ascending
  <2>1. i \in 1..Len(p)
    BY <1>2
  <2>2. CASE j \in 1..Len(p)
    BY <1>2, <2>1, <2>2 DEF Ascending
  <2>3. CASE j = Len(p) + 1
    BY <1>2, <1>5, <2>1, <2>3
  <2> QED BY <1>4, <2>2, <2>3
<1>9. Before(a, b)
  <2> SUFFICES ASSUME NEW i \in 1..Len(a), NEW j \in 1..Len(b)
               PROVE  a[i] < b[j]
    BY DEF Before
  <2>1. b[j] = q[j + 1] /\ j + 1 \in 1..Len(q) /\ 1 \in 1..Len(q) /\ 1 < j + 1
    BY <1>1, <1>3
  <2>2. CASE i \in 1..Len(p)
    BY <1>2, <2>1, <2>2 DEF Before
  <2>3. CASE i = Len(p) + 1
    BY <1>2, <2>1, <2>3 DEF Ascending
  <2> QED BY <1>4, <2>2, <2>3
<1> QED BY <1>7, <1>8, <1>9 DEF a, b

LEMMA OrderTail ==
  ASSUME NEW q \in Seq(Int), q # <<>>, NEW m \in Int, Ascending(q), Within(q, m)
  PROVE  Ascending(Tail(q)) /\ Within(Tail(q), m)
<1> DEFINE b == Tail(q)
<1>1. Len(q) \in Nat \ {0} /\ Len(b) = Len(q) - 1 /\ \A i \in 1..Len(b) : b[i] = q[i + 1]
  BY HeadTailProperties, EmptySeq
<1> HIDE DEF b
<1>2. \A i \in 1..Len(b) : i + 1 \in 1..Len(q)
  BY <1>1
<1>3. Within(b, m)
  BY <1>1, <1>2 DEF Within
<1>4. Ascending(b)
  <2> SUFFICES ASSUME NEW i \in 1..Len(b), NEW j \in 1..Len(b), i < j
               PROVE  b[i] < b[j]
    BY DEF Ascending
  <2>1. i + 1 \in 1..Len(q) /\ j + 1 \in 1..Len(q) /\ i + 1 < j + 1
    BY <1>2
  <2> QED BY <1>1, <2>1 DEF Ascending
<1> QED BY <1>3, <1>4 DEF b

----------------------------------------------------------------------------
(* A stream's only reader is handed its packets in order.                  *)

LEMMA StreamTypes ==
  ASSUME SessionTypeOK, NEW s \in SSRCs
  PROVE  recv[s] \in Seq(Int) /\ handed[s] \in Seq(Int) /\ arrived[s] \in Int
         /\ upTo(s) \in Int
<1>1. recv[s] \in Seq(1..MaxPackets) /\ handed[s] \in Seq(0..MaxPackets)
      /\ arrived[s] \in 0..MaxPackets
  BY DEF SessionTypeOK
<1>2. MaxPackets \in Nat
  BY SessionAssumption
<1>3. 1..MaxPackets \subseteq Int /\ 0..MaxPackets \subseteq Int
  BY <1>2
<1>4. recv[s] \in Seq(Int) /\ handed[s] \in Seq(Int)
  BY <1>1, <1>3, SeqMonotonic
<1>5. arrived[s] \in Int
  BY <1>1, <1>2
<1>6. upTo(s) \in Int
  BY <1>5 DEF upTo
<1> QED BY <1>4, <1>5, <1>6

\* Nothing is queued, handed out or offered.
LEMMA InOrderSame ==
  ASSUME SessionInv, InOrder, UNCHANGED <<recv, handed, hdr, rd, eof>>,
         \A s \in SSRCs : upTo(s)' \in Int /\ upTo(s) <= upTo(s)',
         acc' = "notify" => acc = "notify" /\ pkt' = pkt /\ copyTo' = copyTo
  PROVE  InOrder'
<1>1. \A s \in SSRCs : recv[s] \in Seq(Int) /\ handed[s] \in Seq(Int) /\ upTo(s) \in Int
  BY StreamTypes DEF SessionInv
<1>2. ASSUME NEW s \in SSRCs, NEW q \in Seq(Int), Within(q, upTo(s))
      PROVE  Within(q, upTo(s)')
  BY <1>1, <1>2, OrderRaise
<1>3. QueueInv'
  BY <1>1, <1>2 DEF InOrder, QueueInv
<1>4. EofInv'
  BY DEF InOrder, EofInv
<1>5. DirectInv'
  BY DEF InOrder, DirectInv, onlyReader
<1>6. OrderInv'
  BY <1>1, <1>2 DEF InOrder, OrderInv, onlyReader
<1> QED BY <1>3, <1>4, <1>5, <1>6 DEF InOrder

\* The steps of AcceptStream without a packet, those of Close, a packet that arrives
\* or that is dropped at the end.
LEMMA InOrderQuiet ==
  ASSUME SessionInv, InOrder,
         \/ Watch \/ AcceptStream \/ ReadError \/ CloseCall \/ CloseConn \/ CloseStreams
         \/ NotifyClosed \/ Wrote \/ UNCHANGED vars \/ \E s \in SSRCs : ReadPacket(s)
  PROVE  InOrder'
<1> USE DEF connVars, acceptVars, readVars, vars
<1>1. UNCHANGED <<recv, handed, hdr, rd, eof, copyTo>>
  BY DEF Watch, AcceptStream, ReadError, CloseCall, CloseConn, CloseStreams, NotifyClosed,
         Wrote, ReadPacket
<1>2. acc' = "notify" => acc = "notify" /\ pkt' = pkt
  BY DEF Watch, AcceptStream, ReadError, CloseCall, CloseConn, CloseStreams, NotifyClosed,
         Wrote, ReadPacket
<1>3. ASSUME NEW s \in SSRCs
      PROVE  upTo(s)' \in Int /\ upTo(s) <= upTo(s)'
  <2>1. arrived[s] \in Int
    BY StreamTypes DEF SessionInv
  <2>2. CASE \E t \in SSRCs : ReadPacket(t)
    <3>1. PICK t \in SSRCs : ReadPacket(t)
      BY <2>2
    <3>2. /\ acc = "read" /\ acc' = "write" /\ pkt'.ssrc = t
          /\ arrived' = [arrived EXCEPT ![t] = @ + 1]
      BY <3>1 DEF ReadPacket
    <3>3. ~inHand(s) /\ (inHand(s)' <=> s = t)
      BY <3>2 DEF inHand
    <3>4. arrived'[s] = IF s = t THEN arrived[s] + 1 ELSE arrived[s]
      BY <3>2 DEF SessionInv, SessionTypeOK
    <3>5. upTo(s) = arrived[s] /\ upTo(s)' = arrived[s]
      BY <2>1, <3>3, <3>4 DEF upTo
    <3> QED BY <2>1, <3>5
  <2>3. CASE ~\E t \in SSRCs : ReadPacket(t)
    <3>1. arrived' = arrived
      BY <2>3 DEF Watch, AcceptStream, ReadError, CloseCall, CloseConn, CloseStreams,
                  NotifyClosed, Wrote
    <3>2. inHand(s)' => inHand(s)
      BY <2>3 DEF Watch, AcceptStream, ReadError, CloseCall, CloseConn, CloseStreams,
                  NotifyClosed, Wrote, inHand
    <3> QED BY <2>1, <3>1, <3>2 DEF upTo
  <2> QED BY <2>2, <2>3
<1> QED BY <1>1, <1>2, <1>3, InOrderSame

\* A packet is queued behind the earlier ones, or dropped.
LEMMA InOrderEnqueue ==
  ASSUME SessionInv, InOrder, Enqueue
  PROVE  InOrder'
<1> USE DEF connVars, readVars
<1>1. PICK u \in SSRCs : u = pkt.ssrc /\ pkt.n \in 1..MaxPackets /\ pkt.n = arrived[u]
  BY PacketTypes DEF Enqueue
<1>2. /\ acc = "write" /\ acc' = "wrote" /\ hdr[u] = NoReader
      /\ UNCHANGED <<arrived, hdr, copyTo, rd, eof, handed>>
      /\ recv' = [recv EXCEPT ![u] = Append(@, pkt.n)] \/ recv' = recv
  BY <1>1 DEF Enqueue
<1>3. \A s \in SSRCs : recv[s] \in Seq(Int) /\ handed[s] \in Seq(Int) /\ upTo(s) \in Int
  BY StreamTypes DEF SessionInv
<1>4. arrived[u] \in Int /\ 0 < arrived[u]
  BY <1>1, StreamTypes, SessionAssumption DEF SessionInv
<1>5. upTo(u) = arrived[u] - 1 /\ upTo(u)' = arrived[u]
  BY <1>1, <1>2 DEF upTo, inHand
<1>6. \A s \in SSRCs : s # u => upTo(s)' = upTo(s)
  BY <1>1, <1>2 DEF upTo, inHand
<1>7. CASE recv' = recv
  <2>1. \A s \in SSRCs : upTo(s)' \in Int /\ upTo(s) <= upTo(s)'
    BY <1>3, <1>4, <1>5, <1>6
  <2> QED BY <1>2, <1>7, <2>1, InOrderSame
<1>8. CASE recv' = [recv EXCEPT ![u] = Append(@, pkt.n)]
  <2>1. recv'[u] = Append(recv[u], arrived[u]) /\ \A s \in SSRCs : s # u => recv'[s] = recv[s]
    BY <1>1, <1>8 DEF SessionInv, SessionTypeOK
  <2>2. upTo(u) \in Int /\ upTo(u) < arrived[u] /\ recv[u] \in Seq(Int)
    BY <1>3, <1>4, <1>5
  <2>3. Ascending(recv[u]) /\ Within(recv[u], upTo(u))
    BY DEF InOrder, QueueInv
  <2>4. Ascending(recv'[u]) /\ Within(recv'[u], arrived[u])
    BY <1>4, <2>1, <2>2, <2>3, OrderAppend
  <2>5. QueueInv'
    BY <1>5, <1>6, <2>1, <2>4 DEF InOrder, QueueInv
  <2>6. EofInv'
    BY <1>2 DEF InOrder, EofInv
  <2>7. DirectInv'
    <3> SUFFICES ASSUME NEW s \in SSRCs, NEW r \in Readers, onlyReader(r, s), hdr'[s] = r
                 PROVE  recv'[s] = <<>> /\ (rd'[r] = "wait" \/ r \in eof')
      BY <1>2 DEF DirectInv, onlyReader
    <3>1. s # u
      BY <1>2, SessionAssumption
    <3> QED BY <1>2, <2>1, <3>1 DEF InOrder, DirectInv
  <2>8. OrderInv'
    <3> SUFFICES ASSUME NEW s \in SSRCs, NEW r \in Readers, onlyReader(r, s)
                 PROVE  /\ Ascending(handed[s]) /\ Within(handed[s], upTo(s)')
                        /\ Before(handed[s], recv'[s])
      BY <1>2 DEF OrderInv, onlyReader
    <3>1. Ascending(handed[s]) /\ Within(handed[s], upTo(s)) /\ Before(handed[s], recv[s])
      BY DEF InOrder, OrderInv
    <3>2. CASE s # u
      BY <1>6, <2>1, <3>1, <3>2
    <3>3. CASE s = u
      <4>1. handed[u] \in Seq(Int)
        BY <1>3
      <4>2. Before(handed[u], Append(recv[u], arrived[u]))
        BY <1>4, <2>2, <3>1, <3>3, <4>1, BeforeAppend
      <4>3. upTo(u) <= arrived[u]
        BY <1>4, <2>2
      <4>4. Within(handed[u], arrived[u])
        BY <1>4, <2>2, <3>1, <3>3, <4>1, <4>3, OrderRaise
      <4> QED BY <1>5, <2>1, <3>1, <3>3, <4>2, <4>4
    <3> QED BY <3>2, <3>3
  <2> QED BY <2>5, <2>6, <2>7, <2>8 DEF InOrder
<1> QED BY <1>2, <1>7, <1>8

\* A packet is copied to the buffers of a reader.
LEMMA InOrderCopies ==
  ASSUME SessionInv, InOrder, CopyToReader
  PROVE  InOrder'
<1> USE DEF connVars, readVars
<1>1. PICK u \in SSRCs : u = pkt.ssrc
  BY PacketTypes DEF CopyToReader
<1>2. /\ acc = "write" /\ acc' = "notify" /\ hdr[u] # NoReader
      /\ copyTo' = [copyTo EXCEPT ![hdr[u]] = pkt.n]
      /\ hdr' = [hdr EXCEPT ![u] = NoReader]
      /\ UNCHANGED <<pkt, arrived, recv, rd, eof, handed>>
  BY <1>1 DEF CopyToReader
<1>3. \A s \in SSRCs : upTo(s)' = upTo(s)
  BY <1>2 DEF upTo, inHand
<1>4. QueueInv' /\ EofInv' /\ OrderInv'
  BY <1>2, <1>3 DEF InOrder, QueueInv, EofInv, OrderInv, onlyReader
<1>5. /\ hdr \in [SSRCs -> Readers \cup {NoReader}] /\ copyTo \in [Readers -> 0..MaxPackets]
      /\ NoReader \notin Readers
  BY SessionAssumption DEF SessionInv, SessionTypeOK
<1>6. hdr[u] \in Readers /\ StreamOf[hdr[u]] = u
  BY <1>1, <1>2, <1>5 DEF SessionInv, OfferInv
<1>7. DirectInv'
  <2> SUFFICES ASSUME NEW s \in SSRCs, NEW r \in Readers, onlyReader(r, s)
               PROVE  /\ hdr'[s] = r => recv[s] = <<>> /\ (rd[r] = "wait" \/ r \in eof)
                      /\ pkt.ssrc = s =>
                           /\ recv[s] = <<>> /\ hdr'[s] # r
                           /\ (rd[r] = "wait" /\ copyTo'[r] = pkt.n) \/ r \in eof
    BY <1>2 DEF DirectInv, onlyReader
  <2>1. CASE s # u
    BY <1>1, <1>2, <1>5, <2>1 DEF InOrder, DirectInv
  <2>2. CASE s = u
    <3>1. hdr[s] = r
      BY <1>6, <2>2 DEF onlyReader
    <3>2. recv[s] = <<>> /\ (rd[r] = "wait" \/ r \in eof)
      BY <3>1 DEF InOrder, DirectInv
    <3>3. copyTo'[r] = pkt.n /\ hdr'[s] = NoReader
      BY <1>2, <1>5, <2>2, <3>1
    <3> QED BY <1>5, <3>2, <3>3
  <2> QED BY <2>1, <2>2
<1> QED BY <1>4, <1>7 DEF InOrder

\* The only reader of a stream is told of the packet in hand.
LEMMA InOrderNotifies ==
  ASSUME SessionInv, InOrder, NEW q \in Readers, Notify(q)
  PROVE  InOrder'
<1> USE DEF connVars, readVars
<1>1. PICK u \in SSRCs : u = pkt.ssrc /\ pkt.n \in 1..MaxPackets /\ pkt.n = arrived[u]
  BY PacketTypes DEF Notify
<1>2. /\ acc = "notify" /\ acc' = "wrote" /\ StreamOf[q] = u /\ rd[q] = "wait"
      /\ rd' = [rd EXCEPT ![q] = "return"]
      /\ handed' = [handed EXCEPT ![u] = Append(@, copyTo[q])]
      /\ UNCHANGED <<pkt, arrived, recv, hdr, copyTo, eof>>
  BY <1>1 DEF Notify
<1>3. \A s \in SSRCs : recv[s] \in Seq(Int) /\ handed[s] \in Seq(Int) /\ upTo(s) \in Int
  BY StreamTypes DEF SessionInv
<1>4. arrived[u] \in Int /\ 0 < arrived[u]
  BY <1>1, StreamTypes, SessionAssumption DEF SessionInv
<1>5. upTo(u) = arrived[u] - 1 /\ upTo(u)' = arrived[u]
  BY <1>1, <1>2 DEF upTo, inHand
<1>6. \A s \in SSRCs : s # u => upTo(s)' = upTo(s)
  BY <1>1, <1>2 DEF upTo, inHand
<1>7. handed'[u] = Append(handed[u], copyTo[q])
      /\ \A s \in SSRCs : s # u => handed'[s] = handed[s]
  BY <1>2 DEF SessionInv, SessionTypeOK
<1>8. \A r \in Readers : rd'[r] = IF r = q THEN "return" ELSE rd[r]
  BY <1>2 DEF SessionInv, SessionTypeOK
<1>9. upTo(u) \in Int /\ upTo(u) < arrived[u] /\ upTo(u) <= arrived[u]
  BY <1>4, <1>5
<1>10. QueueInv'
  <2>1. Within(recv[u], arrived[u])
    BY <1>3, <1>4, <1>9, OrderRaise DEF InOrder, QueueInv
  <2> QED BY <1>2, <1>5, <1>6, <2>1 DEF InOrder, QueueInv
<1>11. EofInv'
  BY <1>2, <1>8 DEF InOrder, EofInv, SessionInv, SessionTypeOK
<1>12. DirectInv'
  <2> SUFFICES ASSUME NEW s \in SSRCs, NEW r \in Readers, onlyReader(r, s), hdr[s] = r
               PROVE  recv[s] = <<>> /\ (rd'[r] = "wait" \/ r \in eof)
    BY <1>2 DEF DirectInv, onlyReader
  <2>1. recv[s] = <<>> /\ (rd[r] = "wait" \/ r \in eof)
    BY DEF InOrder, DirectInv
  <2>2. r # q
    <3>1. CASE s = u
      BY <1>1, <1>2, <3>1 DEF InOrder, DirectInv
    <3>2. CASE s # u
      BY <1>2, <3>2 DEF onlyReader
    <3> QED BY <3>1, <3>2
  <2> QED BY <1>8, <2>1, <2>2
<1>13. OrderInv'
  <2> SUFFICES ASSUME NEW s \in SSRCs, NEW r \in Readers, onlyReader(r, s)
               PROVE  /\ Ascending(handed'[s]) /\ Within(handed'[s], upTo(s)')
                      /\ Before(handed'[s], recv[s])
    BY <1>2 DEF OrderInv, onlyReader
  <2>1. Ascending(handed[s]) /\ Within(handed[s], upTo(s)) /\ Before(handed[s], recv[s])
    BY DEF InOrder, OrderInv
  <2>2. CASE s # u
    BY <1>6, <1>7, <2>1, <2>2
  <2>3. CASE s = u
    <3>1. q = r
      BY <1>2, <2>3 DEF onlyReader
    <3>2. q \notin eof
      BY <1>2 DEF InOrder, EofInv
    <3>3. recv[u] = <<>> /\ copyTo[q] = arrived[u]
      BY <1>1, <1>2, <2>3, <3>1, <3>2 DEF InOrder, DirectInv
    <3>4. handed[u] \in Seq(Int)
      BY <1>3
    <3>5. Ascending(handed'[u]) /\ Within(handed'[u], arrived[u])
      BY <1>4, <1>7, <1>9, <2>1, <2>3, <3>3, <3>4, OrderAppend
    <3>6. Before(handed'[u], recv[u])
      BY <3>3, BeforeEmpty
    <3> QED BY <1>5, <2>3, <3>5, <3>6
  <2> QED BY <2>2, <2>3
<1> QED BY <1>10, <1>11, <1>12, <1>13 DEF InOrder

\* A reader takes the packet at the head of the queue.
LEMMA InOrderReads ==
  ASSUME SessionInv, InOrder, NEW q \in Readers, ReadQueued(q) \/ WaitQueued(q)
  PROVE  InOrder'
<1> USE DEF connVars, acceptVars
<1>1. PICK u \in SSRCs : u = StreamOf[q]
  BY SessionAssumption
<1>2. /\ recv[u] # <<>> /\ recv' = [recv EXCEPT ![u] = Tail(@)]
      /\ handed' = [handed EXCEPT ![u] = Append(@, Head(recv[u]))]
      /\ rd' = rd \/ rd' = [rd EXCEPT ![q] = "return"]
      /\ UNCHANGED <<acc, pkt, arrived, hdr, copyTo, eof>>
  BY <1>1 DEF ReadQueued, WaitQueued
<1>3. \A s \in SSRCs : recv[s] \in Seq(Int) /\ handed[s] \in Seq(Int) /\ upTo(s) \in Int
  BY StreamTypes DEF SessionInv
<1>4. \A s \in SSRCs : upTo(s)' = upTo(s)
  BY <1>2 DEF upTo, inHand
<1>5. /\ recv'[u] = Tail(recv[u]) /\ handed'[u] = Append(handed[u], Head(recv[u]))
      /\ \A s \in SSRCs : s # u => recv'[s] = recv[s] /\ handed'[s] = handed[s]
  BY <1>2 DEF SessionInv, SessionTypeOK
<1>6. /\ \A r \in Readers : r # q => rd'[r] = rd[r]
      /\ \A r \in Readers : rd'[r] = "wait" => rd[r] = "wait"
  BY <1>2 DEF SessionInv, SessionTypeOK
<1>7. Ascending(recv[u]) /\ Within(recv[u], upTo(u))
  BY DEF InOrder, QueueInv
<1>8. QueueInv'
  <2>1. Ascending(recv'[u]) /\ Within(recv'[u], upTo(u))
    BY <1>2, <1>3, <1>5, <1>7, OrderTail
  <2> QED BY <1>4, <1>5, <2>1 DEF InOrder, QueueInv
<1>9. EofInv'
  BY <1>2, <1>6 DEF InOrder, EofInv, SessionInv, SessionTypeOK
<1>10. DirectInv'
  <2> SUFFICES ASSUME NEW s \in SSRCs, NEW r \in Readers, onlyReader(r, s)
               PROVE  /\ hdr[s] = r => recv'[s] = <<>> /\ (rd'[r] = "wait" \/ r \in eof)
                      /\ acc = "notify" /\ pkt.ssrc = s =>
                           /\ recv'[s] = <<>> /\ hdr[s] # r
                           /\ (rd'[r] = "wait" /\ copyTo[r] = pkt.n) \/ r \in eof
    BY <1>2 DEF DirectInv, onlyReader
  <2>1. /\ hdr[s] = r => recv[s] = <<>> /\ (rd[r] = "wait" \/ r \in eof)
        /\ acc = "notify" /\ pkt.ssrc = s =>
             /\ recv[s] = <<>> /\ hdr[s] # r
             /\ (rd[r] = "wait" /\ copyTo[r] = pkt.n) \/ r \in eof
    BY DEF InOrder, DirectInv
  <2>2. CASE s = u
    BY <1>2, <2>1, <2>2
  <2>3. CASE s # u
    <3>1. r # q
      BY <1>1, <2>3 DEF onlyReader
    <3> QED BY <1>5, <1>6, <2>1, <2>3, <3>1
  <2> QED BY <2>2, <2>3
<1>11. OrderInv'
  <2> SUFFICES ASSUME NEW s \in SSRCs, NEW r \in Readers, onlyReader(r, s)
               PROVE  /\ Ascending(handed'[s]) /\ Within(handed'[s], upTo(s))
                      /\ Before(handed'[s], recv'[s])
    BY <1>4 DEF OrderInv, onlyReader
  <2>1. Ascending(handed[s]) /\ Within(handed[s], upTo(s)) /\ Before(handed[s], recv[s])
    BY DEF InOrder, OrderInv
  <2>2. CASE s # u
    BY <1>5, <2>1, <2>2
  <2>3. CASE s = u
    <3>1. /\ handed[u] \in Seq(Int) /\ recv[u] \in Seq(Int) /\ recv[u] # <<>>
          /\ upTo(u) \in Int
      BY <1>2, <1>3
    <3>2. Ascending(handed[u]) /\ Within(handed[u], upTo(u)) /\ Before(handed[u], recv[u])
      BY <2>1, <2>3
    <3>3. /\ Ascending(Append(handed[u], Head(recv[u])))
          /\ Within(Append(handed[u], Head(recv[u])), upTo(u))
          /\ Before(Append(handed[u], Head(recv[u])), Tail(recv[u]))
      BY <1>7, <3>1, <3>2, OrderMove
    <3> QED BY <1>5, <2>3, <3>3
  <2> QED BY <2>2, <2>3
<1> QED BY <1>8, <1>9, <1>10, <1>11 DEF InOrder

\* A reader offers its buffers, is told of the end, or returns.
LEMMA InOrderOffers ==
  ASSUME SessionInv, InOrder, NEW q \in Readers, ReadRTP(q) \/ WaitClosed(q) \/ Return(q)
  PROVE  InOrder'
<1> USE DEF connVars, acceptVars
<1>1. PICK u \in SSRCs : u = StreamOf[q]
  BY SessionAssumption
<1>2. UNCHANGED <<acc, pkt, arrived, recv, handed>>
  BY DEF ReadRTP, WaitClosed, Return
<1>3. \A s \in SSRCs : upTo(s)' = upTo(s)
  BY <1>2 DEF upTo, inHand
<1>4. QueueInv' /\ OrderInv'
  BY <1>2, <1>3 DEF InOrder, QueueInv, OrderInv, onlyReader
<1>5. /\ hdr \in [SSRCs -> Readers \cup {NoReader}] /\ copyTo \in [Readers -> 0..MaxPackets]
      /\ rd \in [Readers -> {"idle", "wait", "return"}] /\ eof \subseteq Readers
      /\ NoReader \notin Readers
  BY SessionAssumption DEF SessionInv, SessionTypeOK
<1>6. /\ \A r \in Readers : r # q => rd'[r] = rd[r] /\ copyTo'[r] = copyTo[r]
      /\ \A s \in SSRCs : s # u => hdr'[s] = hdr[s]
      /\ \A r \in Readers : r # q => (r \in eof' <=> r \in eof)
      /\ eof \subseteq eof'
  <2>1. CASE ReadRTP(q)
    BY <1>1, <1>5, <2>1 DEF ReadRTP
  <2>2. CASE WaitClosed(q)
    BY <1>5, <2>2 DEF WaitClosed, readVars
  <2>3. CASE Return(q)
    BY <1>1, <1>5, <2>3 DEF Return
  <2> QED BY <2>1, <2>2, <2>3
<1>7. EofInv
  BY DEF InOrder
<1>8. EofInv'
  <2> SUFFICES ASSUME NEW r \in eof'
               PROVE  rd'[r] # "wait"
    BY DEF EofInv
  <2>1. CASE ReadRTP(q)
    <3>1. r \in eof /\ r # q
      BY <2>1 DEF ReadRTP
    <3> QED BY <1>5, <1>6, <1>7, <3>1 DEF EofInv
  <2>2. CASE WaitClosed(q) \/ Return(q)
    <3>1. rd'[q] # "wait" /\ r \in Readers
      BY <1>5, <2>2 DEF WaitClosed, Return
    <3> QED BY <1>5, <1>6, <1>7, <3>1 DEF EofInv
  <2> QED BY <2>1, <2>2
<1>9. DirectInv'
  <2> SUFFICES ASSUME NEW s \in SSRCs, NEW r \in Readers, onlyReader(r, s)
               PROVE  /\ hdr'[s] = r => recv[s] = <<>> /\ (rd'[r] = "wait" \/ r \in eof')
                      /\ acc = "notify" /\ pkt.ssrc = s =>
                           /\ recv[s] = <<>> /\ hdr'[s] # r
                           /\ (rd'[r] = "wait" /\ copyTo'[r] = pkt.n) \/ r \in eof'
    BY <1>2 DEF DirectInv, onlyReader
  <2>1. /\ hdr[s] = r => recv[s] = <<>> /\ (rd[r] = "wait" \/ r \in eof)
        /\ acc = "notify" /\ pkt.ssrc = s =>
             /\ recv[s] = <<>> /\ hdr[s] # r
             /\ (rd[r] = "wait" /\ copyTo[r] = pkt.n) \/ r \in eof
    BY DEF InOrder, DirectInv
  <2>2. CASE s # u
    <3>1. r # q
      BY <1>1, <2>2 DEF onlyReader
    <3> QED BY <1>6, <2>1, <2>2, <3>1
  <2>3. CASE s = u
    <3>1. r = q
      BY <1>1, <2>3 DEF onlyReader
    <3>2. CASE ReadRTP(q)
      <4>1. /\ rd[q] = "idle" /\ q \notin eof /\ recv[s] = <<>> /\ rd'[q] = "wait"
        BY <1>1, <1>5, <2>3, <3>2 DEF ReadRTP, mayOffer
      <4> QED BY <2>1, <3>1, <4>1
    <3>3. CASE WaitClosed(q)
      <4>1. q \in eof' /\ hdr' = hdr
        BY <3>3 DEF WaitClosed
      <4> QED BY <2>1, <3>1, <4>1
    <3>4. CASE Return(q)
      <4>1. rd[q] = "return" /\ hdr'[s] = IF offered[q] /\ hdr[s] = q THEN NoReader ELSE hdr[s]
        BY <1>1, <1>5, <2>3, <3>4 DEF Return
      <4>2. hdr[s] = q => offered[q]
        BY <1>5 DEF SessionInv, OfferInv
      <4>3. hdr'[s] # q
        BY <1>5, <4>1, <4>2
      <4> QED BY <1>6, <2>1, <3>1, <4>1, <4>3
    <3> QED BY <3>2, <3>3, <3>4
  <2> QED BY <2>2, <2>3
<1> QED BY <1>4, <1>8, <1>9 DEF InOrder

LEMMA InOrderInit == Init => InOrder
<1> SUFFICES ASSUME Init PROVE InOrder
  OBVIOUS
<1>1. \A s \in SSRCs : recv[s] = <<>> /\ handed[s] = <<>>
  BY DEF Init
<1>2. Ascending(<<>>) /\ \A m : Within(<<>>, m)
  BY EmptySeq DEF Ascending, Within
<1>3. Before(<<>>, <<>>)
  BY BeforeEmpty
<1>4. QueueInv /\ OrderInv
  BY <1>1, <1>2, <1>3 DEF QueueInv, OrderInv
<1>5. EofInv /\ DirectInv
  BY SessionAssumption DEF Init, EofInv, DirectInv
<1> QED BY <1>4, <1>5 DEF InOrder

LEMMA InOrderInvariant == Spec => []InOrder
<1>1. SessionInv /\ InOrder /\ [Next]_vars => InOrder'
  <2> SUFFICES ASSUME SessionInv, InOrder, [Next]_vars
               PROVE  InOrder'
    OBVIOUS
  <2>1. CASE Accept
    BY <2>1, InOrderQuiet, InOrderEnqueue, InOrderCopies DEF Accept
  <2>2. CASE Closing \/ CloseCall \/ UNCHANGED vars \/ \E s \in SSRCs : ReadPacket(s)
    BY <2>2, InOrderQuiet DEF Closing
  <2>3. ASSUME NEW r \in Readers, Notify(r) \/ ReadQueued(r) \/ ReadRTP(r) \/ Wake(r)
        PROVE  InOrder'
    BY <2>3, InOrderNotifies, InOrderReads, InOrderOffers DEF Wake
  <2> QED BY <2>1, <2>2, <2>3 DEF Next
<1> QED BY <1>1, InOrderInit, SessionInvariant, PTL DEF Spec

\* rtp/session.go, readStream.write and ReadRTP: the two ways to a reader, the queue and
\* the direct copy, never swap two packets of a stream with a single reader, hand one
\* out twice or hand out buffers that hold none; for any queue size and any number of
\* streams, readers and packets.
THEOREM ReadsInOrderHolds == Spec => []ReadsInOrder
<1>1. SessionInv /\ InOrder => ReadsInOrder
  <2> SUFFICES ASSUME SessionInv, InOrder, NEW s \in alone
               PROVE  /\ \A i \in DOMAIN handed[s] : handed[s][i] # Stale
                      /\ \A i, j \in DOMAIN handed[s] :
                           i < j => handed[s][i] < handed[s][j]
    BY DEF ReadsInOrder
  <2> DEFINE R == {r \in Readers : StreamOf[r] = s}
  <2>1. s \in SSRCs /\ Cardinality(R) = 1 /\ IsFiniteSet(R)
    BY SessionAssumption, FS_Subset DEF alone
  <2>2. PICK r : R = {r}
    BY <2>1, FS_Singleton
  <2>3. r \in Readers /\ onlyReader(r, s)
    BY <2>2 DEF onlyReader
  <2>4. Ascending(handed[s]) /\ Within(handed[s], upTo(s))
    BY <2>1, <2>3 DEF InOrder, OrderInv
  <2>5. handed[s] \in Seq(Int)
    BY <2>1, StreamTypes DEF SessionInv
  <2>6. DOMAIN handed[s] = 1..Len(handed[s]) /\ \A i \in 1..Len(handed[s]) : handed[s][i] \in Int
    BY <2>5, LenProperties, ElementOfSeq
  <2> QED BY <2>4, <2>6 DEF Ascending, Within, Stale
<1> QED BY <1>1, SessionInvariant, InOrderInvariant, PTL

----------------------------------------------------------------------------
(* No packet is lost.                                                      *)

Members(q) == {q[i] : i \in DOMAIN q}

\* No reader of s was handed buffers that hold no packet.
NoStale(s) == Stale \notin Members(handed[s])

\* A reader that waits has a packet in its buffers.
holds(r, s) == StreamOf[r] = s /\ rd[r] = "wait" /\ copyTo[r] # Stale

\* Then every packet of s is in a place, and at most one reader that waits has one in
\* its buffers, namely the one that AcceptStream is about to tell of.
Kept(s) ==
  /\ 1..arrived[s] \subseteq accounted(s)
  /\ \A r \in Readers : holds(r, s) =>
       acc = "notify" /\ pkt.ssrc = s /\ copyTo[r] = pkt.n
  /\ \A q, r \in Readers : holds(q, s) /\ holds(r, s) => q = r

KeptInv ==
  /\ \A r \in Readers : rd[r] = "idle" => copyTo[r] = Stale
  /\ fuse # "broken" => \A s \in SSRCs : NoStale(s) => Kept(s)

places(s) == Members(handed[s]) \cup Members(recv[s]) \cup dropped[s]

LEMMA AccountedIs ==
  \A s : /\ accounted(s) = places(s) \cup IF inHand(s) THEN {pkt.n} ELSE {}
         /\ accounted(s)' = places(s)' \cup IF inHand(s)' THEN {pkt'.n} ELSE {}
BY DEF accounted, places, Members, inHand

LEMMA MembersAppend ==
  ASSUME NEW q \in Seq(Int), NEW v \in Int
  PROVE  Members(Append(q, v)) = Members(q) \cup {v}
<1> DEFINE p == Append(q, v)
<1>1. Len(q) \in Nat /\ DOMAIN q = 1..Len(q)
  BY LenProperties
<1>2. DOMAIN p = 1..Len(q) + 1 /\ (\A i \in 1..Len(q) : p[i] = q[i]) /\ p[Len(q) + 1] = v
  BY AppendProperties, LenProperties
<1> HIDE DEF p
<1>3. \A i \in DOMAIN p : i \in 1..Len(q) \/ i = Len(q) + 1
  BY <1>1, <1>2
<1>4. \A i \in 1..Len(q) : i \in DOMAIN p
  BY <1>1, <1>2
<1>5. Len(q) + 1 \in DOMAIN p
  BY <1>1, <1>2
<1>6. Members(p) \subseteq Members(q) \cup {v}
  BY <1>1, <1>2, <1>3 DEF Members
<1>7. Members(q) \cup {v} \subseteq Members(p)
  BY <1>1, <1>2, <1>4, <1>5 DEF Members
<1> QED BY <1>6, <1>7 DEF p

LEMMA MembersTail ==
  ASSUME NEW q \in Seq(Int), q # <<>>
  PROVE  Head(q) \in Int /\ Members(q) \subseteq Members(Tail(q)) \cup {Head(q)}
<1> DEFINE b == Tail(q)
<1>1. /\ Len(q) \in Nat \ {0} /\ DOMAIN q = 1..Len(q) /\ Head(q) = q[1] /\ q[1] \in Int
  BY EmptySeq, ElementOfSeq, LenProperties
<1>2. /\ b \in Seq(Int) /\ Len(b) = Len(q) - 1 /\ \A i \in 1..Len(b) : b[i] = q[i + 1]
  BY HeadTailProperties
<1>3. DOMAIN b = 1..Len(b)
  BY <1>2, LenProperties
<1> HIDE DEF b
<1>4. \A i \in DOMAIN q : i = 1 \/ (i - 1 \in DOMAIN b /\ b[i - 1] = q[i])
  BY <1>1, <1>2, <1>3
<1>5. Members(q) \subseteq Members(b) \cup {q[1]}
  BY <1>4 DEF Members
<1> QED BY <1>1, <1>5 DEF b

\* A step that hands nothing out and moves no packet but the one in hand.
LEMMA KeptSame ==
  ASSUME KeptInv, fuse' # "broken" => fuse # "broken",
         UNCHANGED <<handed, arrived, recv, dropped, copyTo, rd>>,
         \A s : inHand(s)' <=> inHand(s),
         acc = "notify" <=> acc' = "notify",
         acc \in {"write", "notify"} => pkt' = pkt
  PROVE  KeptInv'
<1>1. \A s \in SSRCs : NoStale(s)' <=> NoStale(s)
  BY DEF NoStale
<1>2. \A s \in SSRCs : accounted(s)' = accounted(s)
  <2> TAKE s \in SSRCs
  <2>1. places(s)' = places(s)
    BY DEF places
  <2>2. CASE inHand(s)
    BY <2>1, <2>2, AccountedIs DEF inHand
  <2>3. CASE ~inHand(s)
    BY <2>1, <2>3, AccountedIs
  <2> QED BY <2>2, <2>3
<1>3. \A s \in SSRCs, r \in Readers : holds(r, s)' <=> holds(r, s)
  BY DEF holds
<1>4. \A s \in SSRCs : Kept(s) => Kept(s)'
  BY <1>2, <1>3 DEF Kept
<1> QED BY <1>1, <1>4 DEF KeptInv

\* The steps of AcceptStream without a packet, and those of Close.
LEMMA KeptQuiet ==
  ASSUME SessionInv, KeptInv,
         \/ Watch \/ AcceptStream \/ ReadError \/ CloseCall \/ CloseConn \/ CloseStreams
         \/ NotifyClosed \/ Wrote \/ UNCHANGED vars
  PROVE  KeptInv'
<1> USE DEF connVars, acceptVars, readVars, vars
<1>1. /\ UNCHANGED <<handed, arrived, recv, dropped, copyTo, rd>>
      /\ fuse' # "broken" => fuse # "broken"
  BY DEF Watch, AcceptStream, ReadError, CloseCall, CloseConn, CloseStreams, NotifyClosed,
         Wrote, SessionInv, FuseInv
<1>2. CASE NotifyClosed \/ CloseStreams
  <2>1. fuse' = "broken"
    BY <1>2 DEF NotifyClosed, CloseStreams
  <2> QED BY <1>1, <2>1 DEF KeptInv
<1>3. CASE ~(NotifyClosed \/ CloseStreams)
  <2>1. /\ acc' \in {"write", "notify"} <=> acc \in {"write", "notify"}
        /\ acc = "notify" <=> acc' = "notify"
        /\ acc \in {"write", "notify"} => pkt' = pkt
    BY <1>3 DEF Watch, AcceptStream, ReadError, CloseCall, CloseConn, Wrote
  <2>2. \A s : inHand(s)' <=> inHand(s)
    BY <2>1 DEF inHand
  <2> QED BY <1>1, <2>1, <2>2, KeptSame
<1> QED BY <1>2, <1>3

\* No packet is about to be told of: no reader that waits has one.
LEMMA NoneHeld ==
  ASSUME NEW s \in SSRCs, Kept(s), acc # "notify"
  PROVE  \A r \in Readers : ~holds(r, s)
BY DEF Kept

LEMMA KeptArrives ==
  ASSUME SessionInv, KeptInv, NEW u \in SSRCs, ReadPacket(u)
  PROVE  KeptInv'
<1> USE DEF connVars, readVars
<1>1. /\ acc = "read" /\ acc' = "write" /\ pkt'.ssrc = u /\ pkt'.n = arrived[u] + 1
      /\ arrived' = [arrived EXCEPT ![u] = @ + 1]
      /\ UNCHANGED <<fuse, handed, recv, dropped, copyTo, rd>>
  BY DEF ReadPacket
<1>2. arrived \in [SSRCs -> 0..MaxPackets] /\ MaxPackets \in Nat
  BY SessionAssumption DEF SessionInv, SessionTypeOK
<1>3. ASSUME NEW s \in SSRCs, Kept(s)
      PROVE  Kept(s)'
  <2>1. \A r \in Readers : ~holds(r, s)'
    BY <1>1, <1>3, NoneHeld DEF holds
  <2>2. 1..arrived[s] \subseteq places(s)
    BY <1>1, <1>3, AccountedIs DEF Kept, inHand
  <2>3. places(s)' = places(s)
    BY <1>1 DEF places
  <2>4. 1..arrived'[s] \subseteq accounted(s)'
    <3>1. CASE s # u
      BY <1>1, <1>2, <2>2, <2>3, <3>1, AccountedIs
    <3>2. CASE s = u
      <4>1. accounted(s)' = places(s) \cup {arrived[s] + 1}
        BY <1>1, <2>3, <3>2, AccountedIs DEF inHand
      <4>2. 1..arrived'[s] = (1..arrived[s]) \cup {arrived[s] + 1}
        BY <1>1, <1>2, <3>2
      <4> QED BY <2>2, <4>1, <4>2
    <3> QED BY <3>1, <3>2
  <2> QED BY <2>1, <2>4 DEF Kept
<1> QED BY <1>1, <1>3 DEF KeptInv, NoStale

\* The packet is queued, or dropped.
LEMMA KeptEnqueue ==
  ASSUME SessionInv, KeptInv, Enqueue
  PROVE  KeptInv'
<1> USE DEF connVars, readVars
<1>1. PICK u \in SSRCs : u = pkt.ssrc /\ pkt.n \in 1..MaxPackets /\ pkt.n = arrived[u]
  BY PacketTypes DEF Enqueue
<1>2. /\ acc = "write" /\ acc' = "wrote"
      /\ UNCHANGED <<fuse, pkt, arrived, copyTo, rd, handed>>
      /\ \/ recv' = [recv EXCEPT ![u] = Append(@, pkt.n)] /\ dropped' = dropped
         \/ dropped' = [dropped EXCEPT ![u] = @ \cup {pkt.n}] /\ recv' = recv
  BY <1>1 DEF Enqueue
<1>3. recv[u] \in Seq(Int) /\ pkt.n \in Int
  BY <1>1, StreamTypes, SessionAssumption DEF SessionInv
<1>4. recv \in [SSRCs -> Seq(1..MaxPackets)] /\ dropped \in [SSRCs -> SUBSET (1..MaxPackets)]
  BY DEF SessionInv, SessionTypeOK
<1>5. places(u)' = places(u) \cup {pkt.n}
  <2>1. CASE recv' = [recv EXCEPT ![u] = Append(@, pkt.n)] /\ dropped' = dropped
    <3>1. recv'[u] = Append(recv[u], pkt.n)
      BY <1>4, <2>1
    <3>2. Members(recv'[u]) = Members(recv[u]) \cup {pkt.n}
      BY <1>3, <3>1, MembersAppend
    <3>3. handed'[u] = handed[u] /\ dropped'[u] = dropped[u]
      BY <1>2, <2>1
    <3> QED BY <3>2, <3>3 DEF places
  <2>2. CASE dropped' = [dropped EXCEPT ![u] = @ \cup {pkt.n}] /\ recv' = recv
    <3>1. dropped'[u] = dropped[u] \cup {pkt.n} /\ recv'[u] = recv[u] /\ handed'[u] = handed[u]
      BY <1>2, <1>4, <2>2
    <3> QED BY <3>1 DEF places
  <2> QED BY <1>2, <2>1, <2>2
<1>6. \A s \in SSRCs : s # u => places(s)' = places(s)
  BY <1>2, <1>4 DEF places
<1>7. ASSUME NEW s \in SSRCs, Kept(s)
      PROVE  Kept(s)'
  <2>1. \A r \in Readers : ~holds(r, s)'
    BY <1>2, <1>7, NoneHeld DEF holds
  <2>2. accounted(s)' = places(s)'
    BY <1>2, AccountedIs DEF inHand
  <2>3. accounted(s) = IF s = u THEN places(s) \cup {pkt.n} ELSE places(s)
    BY <1>1, <1>2, AccountedIs DEF inHand
  <2>4. accounted(s)' = accounted(s)
    BY <1>5, <1>6, <2>2, <2>3
  <2> QED BY <1>2, <1>7, <2>1, <2>4 DEF Kept
<1> QED BY <1>2, <1>7 DEF KeptInv, NoStale

\* The packet is copied to the buffers of a reader.
LEMMA KeptCopies ==
  ASSUME SessionInv, KeptInv, CopyToReader
  PROVE  KeptInv'
<1> USE DEF connVars, readVars
<1>1. PICK u \in SSRCs : u = pkt.ssrc
  BY PacketTypes DEF CopyToReader
<1> DEFINE h == hdr[u]
<1>2. /\ acc = "write" /\ acc' = "notify" /\ h # NoReader
      /\ copyTo' = [copyTo EXCEPT ![h] = pkt.n]
      /\ UNCHANGED <<fuse, pkt, arrived, recv, rd, handed, dropped>>
  BY <1>1 DEF CopyToReader
<1>3. h \in Readers /\ StreamOf[h] = u /\ rd[h] # "idle" /\ copyTo \in [Readers -> 0..MaxPackets]
  BY <1>1, <1>2 DEF SessionInv, OfferInv, SessionTypeOK
<1>4. copyTo'[h] = pkt.n /\ \A r \in Readers : r # h => copyTo'[r] = copyTo[r]
  BY <1>2, <1>3
<1> HIDE DEF h
<1>5. ASSUME NEW s \in SSRCs, Kept(s)
      PROVE  Kept(s)'
  <2>1. \A r \in Readers : holds(r, s)' => r = h
    BY <1>2, <1>4, <1>5, NoneHeld DEF holds
  <2>2. \A r \in Readers : holds(r, s)' =>
          acc' = "notify" /\ pkt'.ssrc = s /\ copyTo'[r] = pkt'.n
    BY <1>1, <1>2, <1>3, <1>4, <2>1 DEF holds
  <2>3. accounted(s)' = accounted(s)
    <3>1. places(s)' = places(s)
      BY <1>2 DEF places
    <3>2. inHand(s)' <=> inHand(s)
      BY <1>2 DEF inHand
    <3> QED BY <1>2, <3>1, <3>2, AccountedIs
  <2> QED BY <1>2, <1>5, <2>1, <2>2, <2>3 DEF Kept
<1>6. \A r \in Readers : rd'[r] = "idle" => copyTo'[r] = Stale
  BY <1>2, <1>3, <1>4 DEF KeptInv
<1> QED BY <1>2, <1>5, <1>6 DEF KeptInv, NoStale

\* A reader is told of the packet that was copied, and takes what its buffers hold.
LEMMA KeptNotifies ==
  ASSUME SessionInv, KeptInv, NEW q \in Readers, Notify(q)
  PROVE  KeptInv'
<1> USE DEF connVars, acceptVars
<1>1. PICK u \in SSRCs : u = pkt.ssrc /\ StreamOf[q] = u
  BY PacketTypes DEF Notify
<1>2. /\ acc = "notify" /\ acc' = "wrote" /\ rd[q] = "wait"
      /\ rd' = [rd EXCEPT ![q] = "return"]
      /\ handed' = [handed EXCEPT ![u] = Append(@, copyTo[q])]
      /\ UNCHANGED <<fuse, pkt, arrived, recv, dropped, copyTo>>
  BY <1>1 DEF Notify
<1>3. /\ rd \in [Readers -> {"idle", "wait", "return"}] /\ copyTo \in [Readers -> 0..MaxPackets]
      /\ handed \in [SSRCs -> Seq(0..MaxPackets)]
  BY DEF SessionInv, SessionTypeOK
<1>4. handed[u] \in Seq(Int) /\ copyTo[q] \in Int
  BY <1>3, StreamTypes, SessionAssumption DEF SessionInv
<1>5. Members(handed'[u]) = Members(handed[u]) \cup {copyTo[q]}
  <2>1. handed'[u] = Append(handed[u], copyTo[q])
    BY <1>2, <1>3
  <2> QED BY <1>4, <2>1, MembersAppend
<1>6. \A s \in SSRCs : s # u => handed'[s] = handed[s]
  BY <1>2, <1>3
<1>7. \A r \in Readers : rd'[r] # "return" => rd'[r] = rd[r] /\ r # q
  BY <1>2, <1>3
<1>8. \A s \in SSRCs : NoStale(s)' => NoStale(s) /\ (s = u => copyTo[q] # Stale)
  BY <1>5, <1>6 DEF NoStale
<1>9. ASSUME NEW s \in SSRCs, Kept(s), s = u => copyTo[q] # Stale
      PROVE  Kept(s)'
  <2>1. \A r \in Readers : holds(r, s)' => holds(r, s) /\ r # q
    BY <1>2, <1>7 DEF holds
  <2>2. holds(q, u) <=> copyTo[q] # Stale
    BY <1>1, <1>2 DEF holds
  <2>3. \A r \in Readers : ~holds(r, s)'
    BY <1>1, <1>9, <2>1, <2>2 DEF Kept
  <2>4. ~inHand(s)'
    BY <1>2 DEF inHand
  <2>5. accounted(s)' = accounted(s)
    <3>1. CASE s = u
      <4>1. copyTo[q] = pkt.n
        BY <1>9, <2>2, <3>1 DEF Kept
      <4>2. places(s)' = places(s) \cup {pkt.n}
        BY <1>2, <1>5, <3>1, <4>1 DEF places
      <4>3. inHand(s)
        BY <1>1, <1>2, <3>1 DEF inHand
      <4> QED BY <2>4, <4>2, <4>3, AccountedIs
    <3>2. CASE s # u
      <4>1. places(s)' = places(s)
        BY <1>2, <1>6, <3>2 DEF places
      <4>2. ~inHand(s)
        BY <1>1, <3>2 DEF inHand
      <4> QED BY <2>4, <4>1, <4>2, AccountedIs
    <3> QED BY <3>1, <3>2
  <2> QED BY <1>2, <1>9, <2>3, <2>5 DEF Kept
<1>10. \A r \in Readers : rd'[r] = "idle" => copyTo'[r] = Stale
  BY <1>2, <1>7 DEF KeptInv
<1> QED BY <1>2, <1>8, <1>9, <1>10 DEF KeptInv

\* A reader takes the first packet of the queue, at once or after it waited.
LEMMA KeptReads ==
  ASSUME SessionInv, KeptInv, NEW q \in Readers, ReadQueued(q) \/ WaitQueued(q)
  PROVE  KeptInv'
<1> USE DEF connVars, acceptVars
<1> DEFINE u == StreamOf[q]
<1>1. u \in SSRCs
  BY SessionAssumption
<1>2. /\ recv[u] # <<>> /\ recv' = [recv EXCEPT ![u] = Tail(@)]
      /\ handed' = [handed EXCEPT ![u] = Append(@, Head(recv[u]))]
      /\ rd' = rd \/ rd' = [rd EXCEPT ![q] = "return"]
      /\ UNCHANGED <<fuse, acc, pkt, arrived, dropped, copyTo>>
  BY DEF ReadQueued, WaitQueued
<1>3. /\ rd \in [Readers -> {"idle", "wait", "return"}]
      /\ recv \in [SSRCs -> Seq(1..MaxPackets)] /\ handed \in [SSRCs -> Seq(0..MaxPackets)]
  BY DEF SessionInv, SessionTypeOK
<1>4. recv[u] \in Seq(Int) /\ handed[u] \in Seq(Int)
  BY <1>1, StreamTypes DEF SessionInv
<1> HIDE DEF u
<1> DEFINE n == Head(recv[u])
<1>5. n \in Int /\ Members(recv[u]) \subseteq Members(recv'[u]) \cup {n}
  <2>1. recv'[u] = Tail(recv[u])
    BY <1>1, <1>2, <1>3
  <2> QED BY <1>2, <1>4, <2>1, MembersTail
<1>6. Members(handed'[u]) = Members(handed[u]) \cup {n}
  <2>1. handed'[u] = Append(handed[u], n)
    BY <1>1, <1>2, <1>3
  <2> QED BY <1>4, <1>5, <2>1, MembersAppend
<1> HIDE DEF n
<1>7. \A s \in SSRCs : s # u => handed'[s] = handed[s] /\ recv'[s] = recv[s]
  BY <1>2, <1>3
<1>8. \A r \in Readers : rd'[r] # "return" => rd'[r] = rd[r]
  BY <1>2, <1>3
<1>9. \A s \in SSRCs : NoStale(s)' => NoStale(s)
  BY <1>6, <1>7 DEF NoStale
<1>10. ASSUME NEW s \in SSRCs, Kept(s)
       PROVE  Kept(s)'
  <2>1. \A r \in Readers : holds(r, s)' => holds(r, s)
    BY <1>2, <1>8 DEF holds
  <2>2. places(s) \subseteq places(s)'
    <3>1. CASE s = u
      BY <1>2, <1>5, <1>6, <3>1 DEF places
    <3>2. CASE s # u
      BY <1>2, <1>7, <3>2 DEF places
    <3> QED BY <3>1, <3>2
  <2>3. inHand(s)' <=> inHand(s)
    BY <1>2 DEF inHand
  <2>4. accounted(s) \subseteq accounted(s)'
    BY <1>2, <2>2, <2>3, AccountedIs
  <2> QED BY <1>2, <1>10, <2>1, <2>4 DEF Kept
<1>11. \A r \in Readers : rd'[r] = "idle" => copyTo'[r] = Stale
  BY <1>2, <1>8 DEF KeptInv
<1> QED BY <1>2, <1>9, <1>10, <1>11 DEF KeptInv

\* A reader offers its buffers and waits, is told of the end, or returns.
LEMMA KeptOffers ==
  ASSUME SessionInv, KeptInv, NEW q \in Readers, ReadRTP(q) \/ WaitClosed(q) \/ Return(q)
  PROVE  KeptInv'
<1> USE DEF connVars, acceptVars
<1>1. /\ rd \in [Readers -> {"idle", "wait", "return"}]
      /\ copyTo \in [Readers -> 0..MaxPackets] /\ Stale \in 0..MaxPackets
  BY SessionAssumption DEF SessionInv, SessionTypeOK, Stale
<1>2. UNCHANGED <<fuse, acc, pkt, arrived, recv, dropped, handed>>
  BY DEF ReadRTP, WaitClosed, Return
<1>3. \A r \in Readers :
        /\ rd'[r] = "idle" => copyTo'[r] = Stale
        /\ rd'[r] = "wait" /\ copyTo'[r] # Stale => rd[r] = "wait" /\ copyTo'[r] = copyTo[r]
  <2>1. CASE ReadRTP(q)
    <3>1. copyTo[q] = Stale /\ copyTo' = copyTo /\ rd' = [rd EXCEPT ![q] = "wait"]
      BY <2>1 DEF ReadRTP, KeptInv
    <3> QED BY <1>1, <3>1 DEF KeptInv
  <2>2. CASE WaitClosed(q)
    <3>1. copyTo' = copyTo /\ rd' = [rd EXCEPT ![q] = "return"]
      BY <2>2 DEF WaitClosed
    <3> QED BY <1>1, <3>1 DEF KeptInv
  <2>3. CASE Return(q)
    <3>1. copyTo' = [copyTo EXCEPT ![q] = Stale] /\ rd' = [rd EXCEPT ![q] = "idle"]
      BY <2>3 DEF Return
    <3> QED BY <1>1, <3>1 DEF KeptInv
  <2> QED BY <2>1, <2>2, <2>3
<1>4. ASSUME NEW s \in SSRCs, Kept(s)
      PROVE  Kept(s)'
  <2>1. \A r \in Readers : holds(r, s)' => holds(r, s) /\ copyTo'[r] = copyTo[r]
    BY <1>3 DEF holds
  <2>2. places(s)' = places(s) /\ (inHand(s)' <=> inHand(s))
    BY <1>2 DEF places, inHand
  <2>3. accounted(s)' = accounted(s)
    BY <1>2, <2>2, AccountedIs
  <2> QED BY <1>2, <1>4, <2>1, <2>3 DEF Kept
<1> QED BY <1>2, <1>3, <1>4 DEF KeptInv, NoStale

LEMMA KeptInit == Init => KeptInv
<1> SUFFICES ASSUME Init
             PROVE  KeptInv
  OBVIOUS
<1>1. ASSUME NEW s \in SSRCs
      PROVE  Kept(s)
  <2>1. 1..arrived[s] = {}
    BY DEF Init
  <2>2. \A r \in Readers : ~holds(r, s)
    BY DEF Init, holds
  <2> QED BY <2>1, <2>2 DEF Kept
<1> QED BY <1>1 DEF Init, KeptInv

LEMMA KeptInvariant == Spec => []KeptInv
<1>1. SessionInv /\ KeptInv /\ [Next]_vars => KeptInv'
  <2> SUFFICES ASSUME SessionInv, KeptInv, [Next]_vars
               PROVE  KeptInv'
    OBVIOUS
  <2>1. CASE Accept
    BY <2>1, KeptQuiet, KeptEnqueue, KeptCopies DEF Accept
  <2>2. CASE Closing \/ CloseCall \/ UNCHANGED vars
    BY <2>2, KeptQuiet DEF Closing
  <2>3. ASSUME NEW s \in SSRCs, ReadPacket(s)
        PROVE  KeptInv'
    BY <2>3, KeptArrives
  <2>4. ASSUME NEW r \in Readers, Notify(r) \/ ReadQueued(r) \/ ReadRTP(r) \/ Wake(r)
        PROVE  KeptInv'
    BY <2>4, KeptNotifies, KeptReads, KeptOffers DEF Wake
  <2> QED BY <2>1, <2>2, <2>3, <2>4 DEF Next
<1> QED BY <1>1, KeptInit, SessionInvariant, PTL DEF Spec

\* rtp/session.go, readStream.write and ReadRTP: up to the close no packet that arrived
\* is lost between the queue, the direct copy and the notification, whatever the order
\* of write and of the readers: each one was handed out, is queued or on its way, or
\* found the queue full.  On a stream with one reader that is always so; on a shared
\* one as long as nobody was handed buffers that hold no packet, which is what the
\* race described in ReadRTP leads to.  For any queue size and any number of streams,
\* readers and packets.
THEOREM PacketsAccountedHolds == Spec => []PacketsAccounted
<1>1. ReadsInOrder /\ KeptInv => PacketsAccounted
  <2> SUFFICES ASSUME ReadsInOrder, KeptInv, fuse # "broken", NEW s \in SSRCs,
                      s \in alone \/ \A i \in DOMAIN handed[s] : handed[s][i] # Stale
               PROVE  1..arrived[s] \subseteq accounted(s)
    BY DEF PacketsAccounted
  <2>1. \A i \in DOMAIN handed[s] : handed[s][i] # Stale
    BY DEF ReadsInOrder
  <2>2. NoStale(s)
    BY <2>1 DEF NoStale, Members
  <2> QED BY <2>2 DEF KeptInv, Kept
<1> QED BY <1>1, ReadsInOrderHolds, KeptInvariant, PTL
=============================================================================
