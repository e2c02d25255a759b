---------------------------- MODULE JitterProofs ----------------------------
(***************************************************************************)
(* Proofs about the jitter buffer, for every choice of the constants: its  *)
(* types and its accounting, what it plays and when (one stream at a time, *)
(* whole samples, nothing left ready and a timer for whatever waits); its  *)
(* order, as long as the sequence numbers at hand are within one window;   *)
(* and about the handler it plays for: the handler runs the buffer as      *)
(* JitterBuffer specifies it, so that all that is proved of the buffer     *)
(* holds there, and keeps its contract with the handler h it feeds and     *)
(* with its caller.                                                        *)
(***************************************************************************)
EXTENDS JitterHandler, ListLemmas

----------------------------------------------------------------------------
(* The operators.                                                          *)

\* Sequence arithmetic stays in uint16.
LEMMA ArithType ==
  ASSUME NEW a \in SN, NEW b \in SN
  PROVE  /\ Sub(a, b) \in SN /\ NextSN(a) \in SN
         /\ missingBetween(a, b) \in Nat
<1>1. SNMod \in Nat /\ SNMod > 1
  BY DEF SNMod
<1>2. \A x \in Int : x % SNMod \in SN
  BY <1>1 DEF SN
<1>3. a - b \in Int /\ a + 1 \in Int
  BY <1>1 DEF SN
<1>4. Sub(a, b) \in SN /\ NextSN(a) \in SN
  BY <1>2, <1>3 DEF Sub, NextSN
<1>5. Sub(a, b) - 1 \in Int
  BY <1>1, <1>4 DEF SN
<1>6. Sub(Sub(a, b), 1) \in SN
  BY <1>2, <1>5 DEF Sub
<1> QED BY <1>1, <1>4, <1>6 DEF missingBetween, SN

\* What is left of the arrivals of a line is a sequence of times.
LEMMA SinceType ==
  ASSUME NEW at \in Seq(Nat), NEW t \in Nat, NEW window \in Nat
  PROVE  since(at, t, window) \in Seq(Nat)
<1> DEFINE recent == {i \in 1..Len(at) : t - at[i] <= window}
<1>1. CASE recent = {}
  BY <1>1 DEF since
<1>2. CASE recent # {}
  <2>1. recent \in SUBSET Nat
    OBVIOUS
  <2>2. Min(recent) \in 1..Len(at)
    <3>1. Min(recent) \in recent
      <4> HIDE DEF recent
      <4> QED BY <1>2, <2>1, MinIsLeast
    <3> QED BY <3>1
  <2> HIDE DEF recent
  <2>3. SubSeq(at, Min(recent), Len(at)) \in Seq(Nat)
    BY <2>2, SliceProperties
  <2> QED BY <1>2, <2>3 DEF since, recent
<1> QED BY <1>1, <1>2

\* No line is a line, and two of them are a vote.
LEMMA NoLinesType == NoLine \in SeqLine /\ NoLines \in LineVote
<1>1. <<>> \in Seq(Nat) /\ 0 \in SN
  BY DEF SN, SNMod
<1>2. NoLine \in SeqLine
  BY <1>1 DEF NoLine, SeqLine
<1> QED BY <1>2 DEF NoLines, LineVote

\* The operations on lines and votes keep their types.
LEMMA LineTypes ==
  ASSUME NEW v \in LineVote, NEW sn \in SN, NEW t \in Nat
  PROVE  /\ [v EXCEPT !.cur = add(@, sn, t)] \in LineVote
         /\ strayed(v, altWith(v, sn, t), t) \in LineVote
         /\ takenOver(v, altWith(v, sn, t), t) \in LineVote
<1>1. NoLine \in SeqLine
  BY NoLinesType
<1>2. \A l \in SeqLine : add(l, sn, t) \in SeqLine
  BY DEF add, SeqLine
<1>3. \A l \in SeqLine : forget(l, t) \in SeqLine
  BY SinceType, LineAssumption DEF forget, SeqLine
<1>4. altWith(v, sn, t) \in SeqLine
  BY <1>1, <1>2 DEF altWith, LineVote
<1>5. v.cur \in SeqLine /\ v.alt \in SeqLine
  BY DEF LineVote
<1>6. \A c, a \in SeqLine : [cur |-> c, alt |-> a] \in LineVote
  BY DEF LineVote
<1>7. [v EXCEPT !.cur = add(@, sn, t)] \in LineVote
  BY <1>2, <1>5 DEF LineVote
<1> QED BY <1>1, <1>3, <1>4, <1>5, <1>6, <1>7 DEF strayed, takenOver

\* Counting keeps the counters naturals.
LEMMA BumpType ==
  ASSUME NEW s \in Counters, NEW names
  PROVE  bump(s, names) \in Counters
  BY DEF bump, Counters

\* The counters after a drop, and after a sample.
LEMMA DropCounts ==
  ASSUME NEW s \in Counters, NEW gap \in Nat, NEW t,
         t = countDrop(s, gap)
  PROVE  /\ t \in Counters
         /\ t["lost"] = s["lost"] + gap /\ t["dropped"] = s["dropped"] + 1
         /\ t["pushed"] = s["pushed"] /\ t["padding"] = s["padding"]
         /\ t["popped"] = s["popped"] /\ t["samples"] = s["samples"]
         /\ t["duplicate"] = s["duplicate"]
         /\ events(t) = events(s)
<1>1. "lost" \in StatNames /\ "dropped" \in StatNames
  BY DEF StatNames
<1>2. s \in [StatNames -> Nat]
  BY DEF Counters
<1>3. \A n \in StatNames \ {"lost", "dropped"} : t[n] = s[n]
  BY <1>2 DEF countDrop
<1>4. t \in Counters
  BY <1>1, <1>2 DEF Counters, countDrop
<1>5. events(t) = events(s)
  BY <1>3 DEF events, EventNames, StatNames
<1> QED BY <1>1, <1>2, <1>3, <1>4, <1>5 DEF StatNames, countDrop

\* After a sample of k packets behind a gap, lost, popped and samples have grown
\* by gap, k and 1, and the other counters are as they were.
LEMMA PopCounts ==
  ASSUME NEW s \in Counters, NEW gap \in Nat, NEW k \in Nat
  PROVE  LET t == countSample(s, gap, k)
         IN /\ t \in Counters
            /\ t["lost"] = s["lost"] + gap /\ t["popped"] = s["popped"] + k
            /\ t["samples"] = s["samples"] + 1
            /\ t["pushed"] = s["pushed"] /\ t["padding"] = s["padding"]
            /\ t["dropped"] = s["dropped"] /\ t["duplicate"] = s["duplicate"]
            /\ events(t) = events(s)
<1> DEFINE t == countSample(s, gap, k)
<1>1. "lost" \in StatNames /\ "popped" \in StatNames /\ "samples" \in StatNames
  BY DEF StatNames
<1>2. s \in [StatNames -> Nat]
  BY DEF Counters
<1>3. \A n \in StatNames \ {"lost", "popped", "samples"} : t[n] = s[n]
  BY <1>2 DEF countSample
<1>4. t \in Counters
  BY <1>1, <1>2 DEF Counters, countSample
<1>5. events(t) = events(s)
  BY <1>3 DEF events, EventNames, StatNames
<1> QED BY <1>1, <1>2, <1>3, <1>4, <1>5 DEF StatNames, countSample

\* What the callbacks are given.
LEMMA EventsType ==
  ASSUME NEW s \in Counters
  PROVE  events(s) \in [EventNames -> Nat]
  BY DEF events, EventNames, Counters, StatNames

\* onPacketLoss is called with two naturals.
LEMMA ReportType ==
  ASSUME NEW s \in Counters
  PROVE  <<s["lost"], s["dropped"]>> \in Nat \X Nat
  BY DEF Counters, StatNames

\* A complete sample at the head: popSample finds its end, and up to there the
\* packets are consecutive.
LEMMA SampleBounds ==
  ASSUME NEW b \in Seq(Node), isComplete(b)
  PROVE  /\ sampleLen(b) \in 1..Len(b) /\ b[sampleLen(b)].end
         /\ \A j \in 1..sampleLen(b) - 1 :
              ~b[j].end /\ b[j+1].sn = NextSN(b[j].sn)
<1> DEFINE E == {k \in 1..Len(b) : b[k].end}
<1>1. PICK k \in 1..Len(b) : closes(b, k)
  BY DEF isComplete
<1>2. k \in E
  BY <1>1 DEF closes
<1>3. E \in SUBSET Nat /\ E # {}
  BY <1>2
<1>4. Min(E) \in E /\ \A y \in E : Min(E) <= y
  BY <1>3, MinIsLeast
<1>5. sampleLen(b) = Min(E)
  BY DEF sampleLen
<1>6. sampleLen(b) \in 1..Len(b) /\ b[sampleLen(b)].end /\ sampleLen(b) <= k
  BY <1>2, <1>4, <1>5
<1>7. ASSUME NEW j \in 1..sampleLen(b) - 1
      PROVE  ~b[j].end /\ b[j+1].sn = NextSN(b[j].sn)
  <2>1. j \in 1..Len(b) /\ j < sampleLen(b) /\ j \in 1..k - 1
    BY <1>6
  <2>2. j \notin E
    BY <1>4, <1>5, <1>6, <2>1
  <2> QED BY <1>1, <2>1, <2>2 DEF closes
<1> QED BY <1>6, <1>7

----------------------------------------------------------------------------
(* Types, and the packet in hand.                                          *)

\* push has a packet in hand, also while it waits for a flush to end.
InHand == pc \in {"ssrc", "switch", "line", "restart", "insert"} \/ cont # "unlock"

HandOK ==
  /\ cont # "unlock" => pc = "flush"
  /\ IF InHand THEN pkt \in Node ELSE pkt = NoPacket
  /\ pc \in {"switch", "restart", "unlock"} => buf = <<>>

TypeInv == TypeOK /\ HandOK /\ SizeMatches

\* The steps of push that do not touch the list.
LEMMA TypePush ==
  ASSUME TypeInv,
         \/ PushAt \/ FirstSSRC \/ SameSSRC \/ OtherSSRC \/ switchStream
         \/ AnyLine \/ PlayingLine \/ StrayLine \/ TakeOverAhead \/ TakeOverAnew
         \/ Restart \/ Expired \/ AtAnEnd
  PROVE  TypeInv'
<1> USE DEF TypeInv, HandOK, SizeMatches, InHand, inputs, stream, queue, calls, locals, others
<1>1. CASE PushAt
  <2>1. PICK sn \in SNs, st \in SSRCs, h \in Shapes, age \in Ages :
          LET counted == IF h.padding THEN {"pushed", "padding"} ELSE {"pushed"}
              ignored == h.padding /\ ~initialized
          IN /\ age <= now
             /\ stats' = bump(stats, counted)
             /\ \/ ignored /\ pushed(buf)
                \/ /\ ~ignored /\ pc' = "ssrc"
                   /\ pkt' = [sn |-> sn, ssrc |-> st, at |-> now - age,
                              start |-> h.start, end |-> h.end,
                              padding |-> h.padding, discont |-> FALSE]
    BY <1>1 DEF PushAt
  <2>2. stats' \in Counters
    BY <2>1, BumpType DEF TypeOK
  <2>3. now - age \in Nat /\ sn \in SN /\ h \in Shape
    BY <2>1, BufferAssumption DEF TypeOK
  <2>4. pc' = "ssrc" => pkt' \in Node
    <3>1. [sn |-> sn, ssrc |-> st, at |-> now - age, start |-> h.start,
           end |-> h.end, padding |-> h.padding, discont |-> FALSE] \in Node
      BY <2>3 DEF Node, Shape
    <3>2. ~pushed(buf) \/ pc' # "ssrc"
      BY DEF pushed
    <3> QED BY <2>1, <3>1, <3>2
  <2>5. pc' # "ssrc" => pkt' = NoPacket /\ pc' \in {"idle", "ready"}
    BY <2>1 DEF pushed
  <2>6. pc' \in PCs /\ cont' = "unlock"
    BY <1>1, <2>1, <2>5 DEF PCs, PushAt, TypeOK
  <2>7. UNCHANGED <<cont, stream, queue, calls, locals, others>>
    BY <1>1 DEF PushAt
  <2> QED BY <2>2, <2>4, <2>5, <2>6, <2>7 DEF TypeOK
<1>2. CASE FirstSSRC
  BY <1>2 DEF FirstSSRC, TypeOK, PCs, Node
<1>3. CASE SameSSRC
  BY <1>3 DEF SameSSRC, TypeOK, PCs, Node
<1>4. CASE OtherSSRC
  BY <1>4 DEF OtherSSRC, flushThen, TypeOK, PCs, Node
<1>5. CASE switchStream
  <2>1. stats' \in Counters /\ notified' \in [EventNames -> Nat]
    BY <1>5, BumpType, EventsType DEF switchStream, notifyStats, TypeOK
  <2>2. prevSN' \in SN /\ lines' \in LineVote
    BY <1>5, NoLinesType DEF switchStream, SN, SNMod
  <2> QED BY <1>5, <2>1, <2>2 DEF switchStream, TypeOK, PCs, Node
<1>6. CASE AnyLine
  BY <1>6 DEF AnyLine, TypeOK, PCs, Node
<1>7. pc = "line" => lines \in LineVote /\ pkt \in Node /\ pkt.sn \in SN /\ pkt.at \in Nat
  BY DEF TypeOK, Node
<1>8. CASE PlayingLine
  <2>1. lines' \in LineVote
    BY <1>7, <1>8, LineTypes DEF PlayingLine
  <2> QED BY <1>8, <2>1 DEF PlayingLine, TypeOK, PCs, Node
<1>9. CASE StrayLine
  <2>1. lines' \in LineVote
    BY <1>7, <1>9, LineTypes DEF StrayLine, alt
  <2>2. /\ stats' \in Counters /\ notified' \in [EventNames -> Nat]
        /\ reported' \in Nat \X Nat
    BY <1>9, BumpType, EventsType, ReportType DEF StrayLine, notifyStats, reportLoss, TypeOK
  <2> QED BY <1>9, <2>1, <2>2 DEF StrayLine, pushed, TypeOK, PCs
<1>10. CASE TakeOverAhead
  <2>1. lines' \in LineVote
    BY <1>7, <1>10, LineTypes DEF TakeOverAhead, alt
  <2>2. stats' \in Counters /\ notified' \in [EventNames -> Nat]
    BY <1>10, BumpType, EventsType DEF TakeOverAhead, notifyStats, TypeOK
  <2> QED BY <1>10, <2>1, <2>2 DEF TakeOverAhead, TypeOK, PCs, Node
<1>11. CASE TakeOverAnew
  <2>1. lines' \in LineVote
    BY <1>7, <1>11, LineTypes DEF TakeOverAnew, alt
  <2> QED BY <1>11, <2>1 DEF TakeOverAnew, flushThen, TypeOK, PCs, Node
<1>12. CASE Restart
  <2>1. stats' \in Counters /\ notified' \in [EventNames -> Nat]
    BY <1>12, BumpType, EventsType DEF Restart, notifyStats, TypeOK
  <2>2. prevSN' \in SN
    BY <1>12 DEF Restart, SN, SNMod
  <2> QED BY <1>12, <2>1, <2>2 DEF Restart, TypeOK, PCs, Node
<1>13. CASE Expired
  <2>1. stats' \in Counters /\ reported' \in Nat \X Nat
    BY <1>13, BumpType, ReportType DEF Expired, reportLoss, TypeOK
  <2> QED BY <1>13, <2>1 DEF Expired, pushed, TypeOK, PCs
<1>14. CASE AtAnEnd
  <2>1. stats' \in Counters /\ notified' \in [EventNames -> Nat]
    BY <1>14, BumpType, EventsType DEF AtAnEnd, duplicate, notifyStats, TypeOK
  <2> QED BY <1>14, <2>1 DEF AtAnEnd, pushed, TypeOK, PCs
<1> QED BY <1>1, <1>2, <1>3, <1>4, <1>5, <1>6, <1>8, <1>9, <1>10, <1>11, <1>12,
           <1>13, <1>14

\* In a list of two or more nodes the searches have the head and the tail to
\* stop at.
LEMMA TwoIndices ==
  ASSUME NEW n \in Nat, n >= 1, n # 1
  PROVE  1 \in 1..n - 1 /\ n \in 2..n
  OBVIOUS

\* The loop from the tail finds its place: if no earlier node stopped it, the
\* head would have taken the packet before it.
LEMMA TailSearchStops ==
  ASSUME buf \in Seq(Node), buf # <<>>, ~beforeHead, ~afterTail,
         withinRange(pkt.sn, tail.sn)
  PROVE  tailStops # {} /\ Max(tailStops) \in 1..Len(buf) - 1
<1>1. Len(buf) \in Nat /\ Len(buf) >= 1
  OBVIOUS
<1>2. Len(buf) # 1
  BY <1>1 DEF beforeHead, afterTail, head, tail
<1>3. 1 \in tailStops
  <2>1. 1 \in 1..Len(buf) - 1
    BY <1>1, <1>2, TwoIndices
  <2>2. ~before(pkt.sn, buf[1].sn) \/ ~withinRange(pkt.sn, buf[1].sn)
    BY DEF beforeHead, head
  <2> QED BY <2>1, <2>2 DEF tailStops
<1>4. tailStops \in SUBSET (0..Len(buf) - 1) /\ Len(buf) - 1 \in Nat
  BY <1>1 DEF tailStops
<1>5. Max(tailStops) \in tailStops
  BY <1>3, <1>4, MaxIsGreatest
<1> QED BY <1>3, <1>5 DEF tailStops

\* Likewise the loop from the head.
LEMMA HeadSearchStops ==
  ASSUME buf \in Seq(Node), buf # <<>>, ~beforeHead, ~afterTail,
         withinRange(pkt.sn, head.sn)
  PROVE  headStops # {} /\ Min(headStops) \in 2..Len(buf)
<1>1. Len(buf) \in Nat /\ Len(buf) >= 1
  OBVIOUS
<1>2. Len(buf) # 1
  BY <1>1 DEF beforeHead, afterTail, head, tail
<1>3. Len(buf) \in headStops
  <2>1. Len(buf) \in 2..Len(buf)
    BY <1>1, <1>2, TwoIndices
  <2>2. before(pkt.sn, buf[Len(buf)].sn) \/ ~withinRange(pkt.sn, buf[Len(buf)].sn)
    BY DEF afterTail, tail
  <2> QED BY <2>1, <2>2 DEF headStops
<1>4. headStops \in SUBSET Nat
  BY <1>1 DEF headStops
<1>5. Min(headStops) \in headStops
  BY <1>3, <1>4, MinIsLeast
<1> QED BY <1>3, <1>5 DEF headStops

\* The steps of push that link the packet into the list.
LEMMA TypeInsert ==
  ASSUME TypeInv,
         \/ InsertFirst \/ Prepend \/ AppendTail
         \/ SearchTail \/ SearchHead \/ AppendDiscont
  PROVE  TypeInv'
<1>1. pc = "insert" /\ cont = "unlock" /\ pkt \in Node /\ buf \in Seq(Node)
  BY DEF TypeInv, HandOK, InHand, TypeOK, InsertFirst, Prepend, AppendTail, SearchTail, SearchHead,
         AppendDiscont, Accepted, PCs
<1>2. \A d : node(d) \in Node
  BY <1>1 DEF node, Node
<1>a. node(FALSE) \in Node /\ node(TRUE) \in Node
  BY <1>1 DEF node, Node
<1>3. ASSUME NEW b \in Seq(Node), Len(b) = Len(buf) + 1, link(b),
             stats' \in Counters, notified' \in [EventNames -> Nat],
             UNCHANGED <<cont, stream, reported, locals, others>>
      PROVE  TypeInv'
  <2>1. size' \in Int /\ size' = Len(buf') /\ buf' \in Seq(Node)
    BY <1>3 DEF link, TypeInv, SizeMatches, TypeOK
  <2>2. pc' \in {"idle", "ready"} /\ pkt' = NoPacket
    BY <1>3 DEF link, pushed
  <2> QED BY <1>1, <1>3, <2>1, <2>2
          DEF TypeInv, HandOK, InHand, SizeMatches, TypeOK, PCs, stream, locals, others
<1>4. /\ reordered => stats' \in Counters /\ notified' \in [EventNames -> Nat]
      /\ duplicate => stats' \in Counters /\ notified' \in [EventNames -> Nat]
  BY BumpType, EventsType DEF reordered, duplicate, notifyStats, TypeInv, TypeOK
<1>b. stats \in Counters /\ notified \in [EventNames -> Nat]
  BY DEF TypeInv, TypeOK
<1>5. CASE InsertFirst
  <2> DEFINE b == <<node(jumps)>>
  <2>1. b \in Seq(Node) /\ Len(b) = 1
    BY <1>2
  <2>2. Len(buf) = 0 /\ link(b) /\ UNCHANGED <<cont, stream, stats, calls, locals, others>>
    BY <1>5 DEF InsertFirst
  <2> HIDE DEF b
  <2>3. Len(b) = Len(buf) + 1
    BY <2>1, <2>2
  <2> QED BY <1>b, <1>3, <2>1, <2>2, <2>3 DEF calls
<1>6. CASE Prepend
  <2>1. <<node(jumps)>> \in Seq(Node) /\ Len(<<node(jumps)>>) = 1
    BY <1>2
  <2>2. <<node(jumps)>> \o buf \in Seq(Node) /\ Len(<<node(jumps)>> \o buf) = Len(buf) + 1
    BY <1>1, <2>1, ConcatProperties
  <2> QED BY <1>3, <1>4, <1>6, <2>2 DEF Prepend
<1>7. CASE AppendTail
  <2>1. /\ Append(buf, node(FALSE)) \in Seq(Node)
        /\ Len(Append(buf, node(FALSE))) = Len(buf) + 1
    BY <1>1, <1>a, AppendProperties
  <2> QED BY <1>b, <1>3, <1>7, <2>1 DEF AppendTail, calls
<1>8. CASE AppendDiscont
  <2>1. /\ Append(buf, node(TRUE)) \in Seq(Node)
        /\ Len(Append(buf, node(TRUE))) = Len(buf) + 1
    BY <1>1, <1>a, AppendProperties
  <2> QED BY <1>b, <1>3, <1>8, <2>1 DEF AppendDiscont, calls
<1>9. ASSUME duplicate, pushed(buf), UNCHANGED queue,
             UNCHANGED <<cont, stream, reported, locals, others>>
      PROVE  TypeInv'
  BY <1>1, <1>4, <1>9 DEF pushed, TypeInv, HandOK, InHand, SizeMatches, TypeOK, PCs,
                          stream, queue, locals, others
<1>10. CASE SearchTail
  <2> DEFINE i == Max(tailStops)
             p == node(~withinRange(pkt.sn, buf[i].sn))
  <2>1. tailStops # {} /\ i \in 1..Len(buf) - 1
    BY <1>1, <1>10, TailSearchStops DEF SearchTail
  <2>2. /\ InsertAt(buf, i + 1, p) \in Seq(Node)
        /\ Len(InsertAt(buf, i + 1, p)) = Len(buf) + 1
    <3>1. i + 1 \in 1..Len(buf) + 1 /\ p \in Node
      BY <1>1, <1>2, <2>1
    <3> HIDE DEF i, p
    <3> QED BY <1>1, <3>1, InsertAtProperties
  <2>3. \/ duplicate /\ pushed(buf) /\ UNCHANGED queue
        \/ reordered /\ link(InsertAt(buf, i + 1, p))
    BY <1>10, <2>1 DEF SearchTail
  <2>4. UNCHANGED <<cont, stream, reported, locals, others>>
    BY <1>10 DEF SearchTail
  <2> HIDE DEF i, p
  <2> QED BY <1>3, <1>4, <1>9, <2>2, <2>3, <2>4
<1>11. CASE SearchHead
  <2> DEFINE i == Min(headStops)
             p == node(FALSE)
  <2>1. headStops # {} /\ i \in 2..Len(buf)
    BY <1>1, <1>11, HeadSearchStops DEF SearchHead
  <2>2. /\ InsertAt(buf, i, p) \in Seq(Node)
        /\ Len(InsertAt(buf, i, p)) = Len(buf) + 1
    <3>1. Len(buf) \in Nat
      BY <1>1
    <3>p. p \in Node
      BY <1>a
    <3> HIDE DEF i, p
    <3>2. i \in 1..Len(buf) + 1
      <4> DEFINE n == Len(buf)
      <4>1. n \in Nat /\ i \in 2..n
        BY <2>1, <3>1
      <4> HIDE DEF n
      <4>2. i \in 1..n + 1
        BY <4>1
      <4> QED BY <4>2 DEF n
    <3> QED BY <1>1, <3>2, <3>p, InsertAtProperties
  <2>3. \/ duplicate /\ pushed(buf) /\ UNCHANGED queue
        \/ reordered /\ link(InsertAt(buf, i, p))
    BY <1>11, <2>1 DEF SearchHead
  <2>4. UNCHANGED <<cont, stream, reported, locals, others>>
    BY <1>11 DEF SearchHead
  <2> HIDE DEF i, p
  <2> QED BY <1>3, <1>4, <1>9, <2>2, <2>3, <2>4
<1> QED BY <1>5, <1>6, <1>7, <1>8, <1>10, <1>11

\* Giving up the head, and taking a sample, keep the list and its size.
LEMMA DropHeadType ==
  ASSUME TypeInv, buf # <<>>, dropHead
  PROVE  /\ stats' \in Counters /\ prevSN' \in SN /\ dropped' = TRUE
         /\ buf' \in Seq(Node) /\ size' \in Int /\ size' = Len(buf')
<1>1. buf \in Seq(Node) /\ size = Len(buf) /\ stats \in Counters /\ prevSN \in SN
  BY DEF TypeInv, TypeOK, SizeMatches
<1>2. Len(buf) \in Nat /\ Len(buf) >= 1 /\ head \in Node
  BY <1>1 DEF head
<1>3. head.sn \in SN
  BY <1>2 DEF Node
<1>4. Tail(buf) \in Seq(Node) /\ Len(Tail(buf)) = Len(buf) - 1
  BY <1>1
<1>5. buf' \in Seq(Node) /\ size' \in Int /\ size' = Len(buf')
  BY <1>1, <1>2, <1>4 DEF dropHead
<1>6. missingBetween(head.sn, prevSN) \in Nat
  BY <1>1, <1>3, ArithType
<1>7. stats' \in Counters
  <2> DEFINE gap == IF initialized /\ ~head.discont
                    THEN missingBetween(head.sn, prevSN) ELSE 0
  <2>1. gap \in Nat /\ stats' = countDrop(stats, gap)
    BY <1>6 DEF dropHead
  <2> HIDE DEF gap
  <2> QED BY <1>1, <2>1, DropCounts
<1> QED BY <1>3, <1>5, <1>7 DEF dropHead

\* Likewise popSample: it leaves a well-typed list, k nodes shorter.
LEMMA PopSampleType ==
  ASSUME TypeInv, completeHead, NEW gap \in Nat, popSample(gap)
  PROVE  /\ stats' \in Counters /\ prevSN' \in SN /\ initialized' = TRUE
         /\ buf' \in Seq(Node) /\ size' \in Int /\ size' = Len(buf')
<1> DEFINE k == sampleLen(buf)
<1>1. buf \in Seq(Node) /\ size = Len(buf) /\ stats \in Counters
  BY DEF TypeInv, TypeOK, SizeMatches
<1>2. k \in 1..Len(buf)
  BY <1>1, SampleBounds DEF completeHead
<1>3. /\ stats' = countSample(stats, gap, k)
      /\ prevSN' = buf[k].sn /\ initialized' = TRUE
      /\ buf' = rest(buf, k) /\ size' = size - k
  BY DEF popSample
<1> HIDE DEF k
<1>4. Len(buf) \in Nat
  BY <1>1
<1>5. k \in Nat /\ k >= 1 /\ k <= Len(buf)
  BY <1>2, <1>4
<1>6. buf[k] \in Node
  BY <1>1, <1>2
<1>7. prevSN' \in SN
  BY <1>3, <1>6 DEF Node
<1>8. rest(buf, k) \in Seq(Node) /\ Len(rest(buf, k)) = Len(buf) - k
  <2>1. k + 1 \in 1..Len(buf) + 1 /\ Len(buf) \in 0..Len(buf) /\ k + 1 - 1 <= Len(buf)
    BY <1>4, <1>5
  <2>2. /\ SubSeq(buf, k + 1, Len(buf)) \in Seq(Node)
        /\ Len(SubSeq(buf, k + 1, Len(buf))) = Len(buf) - (k + 1) + 1
    BY <1>1, <2>1, SliceProperties
  <2> QED BY <1>4, <1>5, <2>2 DEF rest
<1>9. size' \in Int /\ size' = Len(buf')
  BY <1>1, <1>3, <1>4, <1>5, <1>8
<1>10. stats' \in Counters
  BY <1>1, <1>3, <1>5, PopCounts
<1> QED BY <1>3, <1>7, <1>8, <1>9, <1>10

\* The gap before the head is a natural number.
LEMMA GapType ==
  ASSUME TypeInv, buf # <<>>
  PROVE  missingBetween(head.sn, prevSN) \in Nat
<1>1. head \in Node /\ prevSN \in SN
  BY DEF TypeInv, TypeOK, head
<1>2. head.sn \in SN
  BY <1>1 DEF Node
<1> QED BY <1>1, <1>2, ArithType

\* The steps of popReady and flushLocked.
LEMMA TypePop ==
  ASSUME TypeInv, Pop
  PROVE  TypeInv'
<1> USE DEF inputs, stream, queue, calls, locals, others
<1>1. CASE PopReady
  <2>1. expiry' \in Int
    BY <1>1, BufferAssumption DEF PopReady, TypeInv, TypeOK
  <2> QED BY <1>1, <2>1 DEF PopReady, TypeInv, TypeOK, HandOK, InHand, SizeMatches, PCs
<1>2. CASE DropExpired
  BY <1>2, DropHeadType
  DEF DropExpired, staleHead, TypeInv, TypeOK, HandOK, InHand, SizeMatches
<1>3. CASE DropDone
  <2>1. reported' \in Nat \X Nat
    BY <1>3, ReportType DEF DropDone, reportLoss, TypeInv, TypeOK
  <2> QED BY <1>3, <2>1 DEF DropDone, TypeInv, TypeOK, HandOK, InHand, SizeMatches, PCs
<1>4. CASE PopInSequence
  BY <1>4, PopSampleType
  DEF PopInSequence, TypeInv, TypeOK, HandOK, InHand, SizeMatches
<1>5. CASE PopLate
  BY <1>5, PopSampleType, GapType
  DEF PopLate, completeHead, TypeInv, TypeOK, HandOK, InHand, SizeMatches
<1>6. CASE PopDone
  <2>1. reported' \in Nat \X Nat
    BY <1>6, ReportType DEF PopDone, reportLoss, TypeInv, TypeOK
  <2>2. timer' \in Nat \cup {Off}
    <3>1. buf # <<>> => head \in Node
      BY DEF TypeInv, TypeOK, head
    <3>2. buf # <<>> => head.at \in Nat
      BY <3>1 DEF Node
    <3>3. latency \in Nat /\ timer \in Nat \cup {Off}
      BY BufferAssumption DEF TypeInv, TypeOK
    <3> QED BY <1>6, <3>2, <3>3 DEF PopDone
  <2>3. loop' \in {"wait", "fired", "popping", "done"}
    BY <1>6 DEF PopDone, TypeInv, TypeOK
  <2>4. pc' = "idle" /\ noLocals
        /\ UNCHANGED <<inputs, stream, queue, stats, notified, latency, now, closer>>
    BY <1>6 DEF PopDone
  <2>5. pc = "pop"
    BY <1>6 DEF PopDone
  <2>6. TypeOK'
    <3>0. pc' = "idle" /\ expiry' = 0 /\ loss' = FALSE /\ dropped' = FALSE
      BY <2>4 DEF noLocals
    <3>1. expiry' \in Int /\ pc' \in PCs
      BY <3>0 DEF PCs
    <3>3. loss' \in BOOLEAN /\ dropped' \in BOOLEAN
      BY <3>0
    <3>2. UNCHANGED <<cont, pkt, initialized, prevSN, lines, ssrc, buf, size, stats,
                      notified, latency, now, closer>>
      BY <2>4
    <3> QED BY <2>1, <2>2, <2>3, <3>1, <3>2, <3>3 DEF TypeInv, TypeOK
  <2>7. HandOK' /\ SizeMatches'
    BY <2>4, <2>5 DEF TypeInv, HandOK, InHand, SizeMatches
  <2> QED BY <2>6, <2>7 DEF TypeInv
<1>7. CASE FlushPop
  <2> DEFINE gap == IF inSequence THEN 0 ELSE missingBetween(head.sn, prevSN)
  <2>1. gap \in Nat
    BY <1>7, GapType DEF FlushPop, completeHead
  <2>2. completeHead /\ popSample(gap)
    BY <1>7 DEF FlushPop
  <2> HIDE DEF gap
  <2>3. /\ stats' \in Counters /\ prevSN' \in SN /\ initialized' = TRUE
        /\ buf' \in Seq(Node) /\ size' \in Int /\ size' = Len(buf')
    BY <2>1, <2>2, PopSampleType
  <2>4. loss' \in BOOLEAN
    BY <1>7 DEF FlushPop
  <2>5. pc = "flush"
        /\ UNCHANGED <<pc, inputs, ssrc, lines, calls, expiry, dropped, others>>
    BY <1>7 DEF FlushPop
  <2>6. TypeOK'
    BY <2>3, <2>4, <2>5 DEF TypeInv, TypeOK
  <2>7. HandOK' /\ SizeMatches'
    BY <2>3, <2>5 DEF TypeInv, HandOK, InHand, SizeMatches
  <2> QED BY <2>6, <2>7 DEF TypeInv
<1>8. CASE FlushDrop
  <2>1. /\ stats' \in Counters /\ prevSN' \in SN /\ dropped' = TRUE
        /\ buf' \in Seq(Node) /\ size' \in Int /\ size' = Len(buf')
    BY <1>8, DropHeadType DEF FlushDrop
  <2>2. pc = "flush"
        /\ UNCHANGED <<pc, inputs, initialized, ssrc, lines, calls, expiry, loss, others>>
    BY <1>8 DEF FlushDrop
  <2>3. TypeOK'
    BY <2>1, <2>2 DEF TypeInv, TypeOK
  <2>4. HandOK' /\ SizeMatches'
    BY <2>1, <2>2 DEF TypeInv, HandOK, InHand, SizeMatches
  <2> QED BY <2>3, <2>4 DEF TypeInv
<1>9. CASE FlushDone
  <2>1. reported' \in Nat \X Nat
    BY <1>9, ReportType DEF FlushDone, reportLoss, TypeInv, TypeOK
  <2> QED BY <1>9, <2>1
          DEF FlushDone, noLocals, TypeInv, TypeOK, HandOK, InHand, SizeMatches, PCs
<1>10. CASE Unlock
  BY <1>10 DEF Unlock, TypeInv, TypeOK, HandOK, InHand, SizeMatches, PCs
<1> QED BY <1>1, <1>2, <1>3, <1>4, <1>5, <1>6, <1>7, <1>8, <1>9, <1>10 DEF Pop

\* The other calls, the goroutine and the clock.
LEMMA TypeOthers ==
  ASSUME TypeInv, \/ Loop \/ Close \/ UpdateLatency \/ Flush \/ Tick
  PROVE  TypeInv'
<1> USE DEF inputs, stream, queue, calls, locals, others
<1>1. CASE Flush
  BY <1>1 DEF Flush, flushThen, TypeInv, TypeOK, HandOK, InHand, SizeMatches, PCs
<1>2. CASE CloseFlush
  BY <1>2 DEF CloseFlush, flushThen, TypeInv, TypeOK, HandOK, InHand, SizeMatches, PCs
<1>3. CASE CloseStop
  BY <1>3 DEF CloseStop, TypeInv, TypeOK, HandOK, InHand, SizeMatches
<1>4. CASE CloseBreak
  BY <1>4 DEF CloseBreak, TypeInv, TypeOK, HandOK, InHand, SizeMatches
<1>5. CASE TimerFire
  BY <1>5 DEF TimerFire, TypeInv, TypeOK, HandOK, InHand, SizeMatches
<1>6. CASE TimerLock
  BY <1>6 DEF TimerLock, TypeInv, TypeOK, HandOK, InHand, SizeMatches, PCs
<1>7. CASE LoopExit
  BY <1>7 DEF LoopExit, TypeInv, TypeOK, HandOK, InHand, SizeMatches
<1>8. CASE Tick
  BY <1>8 DEF Tick, TypeInv, TypeOK, HandOK, InHand, SizeMatches
<1>9. CASE UpdateLatency
  <2>1. buf # <<>> => head \in Node
    BY DEF TypeInv, TypeOK, head
  <2>2. buf # <<>> => head.at \in Nat
    BY <2>1 DEF Node
  <2>3. latency' \in Latencies /\ timer' \in Nat \cup {Off}
    BY <1>9, <2>2, BufferAssumption DEF UpdateLatency, TypeInv, TypeOK
  <2> QED BY <1>9, <2>3 DEF UpdateLatency, TypeInv, TypeOK, HandOK, InHand, SizeMatches
<1> QED BY <1>1, <1>2, <1>3, <1>4, <1>5, <1>6, <1>7, <1>8, <1>9 DEF Loop, Close

\* The buffer that NewBuffer returns satisfies the type invariant.
LEMMA TypeInit == Init => TypeInv
<1> SUFFICES ASSUME Init PROVE TypeInv
  OBVIOUS
<1>1. stats \in Counters /\ notified \in [EventNames -> Nat] /\ reported \in Nat \X Nat
  BY DEF Init, NoStats, Counters, events, EventNames, StatNames
<1>2. lines \in LineVote /\ prevSN \in SN
  BY NoLinesType DEF Init, SN, SNMod
<1>3. latency \in Latencies /\ timer \in Nat
  BY BufferAssumption DEF Init
<1>4. buf = <<>> /\ buf \in Seq(Node) /\ size = Len(buf) /\ size \in Int
  BY DEF Init
<1>5. TypeOK
  BY <1>1, <1>2, <1>3, <1>4 DEF Init, TypeOK, PCs
<1>6. HandOK
  BY DEF Init, HandOK, InHand
<1> QED BY <1>4, <1>5, <1>6 DEF TypeInv, SizeMatches

\* A step that changes nothing preserves the type invariant.
LEMMA TypeStutter == TypeInv /\ UNCHANGED vars => TypeInv'
  BY DEF TypeInv, TypeOK, HandOK, InHand, SizeMatches, vars, inputs, stream, queue,
         calls, locals, others, beforeHead

\* TypeInv is an invariant: types, b.size, and the packet in push's hands.
LEMMA TypeInvariant == Spec => []TypeInv
<1>1. TypeInv /\ [Next]_vars => TypeInv'
  BY TypePush, TypeInsert, TypePop, TypeOthers, TypeStutter DEF Next, Holder, Push
<1> QED BY <1>1, TypeInit, PTL DEF Spec

\* The fields of the buffer keep their types, whatever is pushed and called.
THEOREM TypeCorrect == Spec => []TypeOK
<1>1. TypeInv => TypeOK
  BY DEF TypeInv
<1> QED BY <1>1, TypeInvariant, PTL

\* b.size is the length of the list: neither insertion loop of push can run off
\* the list and leak the node it counted.
THEOREM SizeCorrect == Spec => []SizeMatches
<1>1. TypeInv => SizeMatches
  BY DEF TypeInv
<1> QED BY <1>1, TypeInvariant, PTL

----------------------------------------------------------------------------
(* Conservation of packets.                                                *)

\* Accounting with the packet in hand, which is pushed and not yet settled.
Conserved ==
  LET hand == IF InHand THEN 1 ELSE 0
      pad  == IF pkt.padding THEN 1 ELSE 0
  IN /\ settled + hand <= stats["pushed"]
     /\ stats["pushed"] + pad <= settled + hand + stats["padding"]

\* The counters of the accounting are naturals.
LEMMA CounterTypes ==
  ASSUME NEW s \in Counters
  PROVE  /\ s["pushed"] \in Nat /\ s["padding"] \in Nat /\ s["popped"] \in Nat
         /\ s["dropped"] \in Nat /\ s["duplicate"] \in Nat /\ s["lost"] \in Nat
         /\ s["samples"] \in Nat
  BY DEF Counters, StatNames

\* What bump does to the counters of the accounting.
LEMMA BumpAccounts ==
  ASSUME NEW s \in Counters, NEW names, NEW t, t = bump(s, names)
  PROVE  /\ t["pushed"] = IF "pushed" \in names THEN s["pushed"] + 1 ELSE s["pushed"]
         /\ t["padding"] = IF "padding" \in names THEN s["padding"] + 1 ELSE s["padding"]
         /\ t["popped"] = IF "popped" \in names THEN s["popped"] + 1 ELSE s["popped"]
         /\ t["dropped"] = IF "dropped" \in names THEN s["dropped"] + 1 ELSE s["dropped"]
         /\ t["duplicate"] = IF "duplicate" \in names THEN s["duplicate"] + 1
                             ELSE s["duplicate"]
         /\ t["lost"] = IF "lost" \in names THEN s["lost"] + 1 ELSE s["lost"]
  BY DEF bump, StatNames

\* A step that settles nothing and leaves the packet in hand alone.
LEMMA ConservedStays ==
  ASSUME Conserved, settled' = settled, pkt' = pkt, InHand' = InHand,
         stats'["pushed"] = stats["pushed"], stats'["padding"] = stats["padding"]
  PROVE  Conserved'
  BY DEF Conserved

\* PushAt takes a packet in hand, or discards padding.
LEMMA ConservedPushAt ==
  ASSUME TypeInv, TypeInv', Conserved, PushAt
  PROVE  Conserved'
<1>1. stats \in Counters /\ stats' \in Counters /\ size \in Int
  BY DEF TypeInv, TypeOK
<1>2. PICK h \in Shapes :
        /\ stats' = bump(stats, IF h.padding THEN {"pushed", "padding"} ELSE {"pushed"})
        /\ \/ h.padding /\ pc' # "ssrc" /\ pkt' = NoPacket
           \/ pc' = "ssrc" /\ pkt'.padding = h.padding
  BY DEF PushAt, pushed
<1>3. /\ stats'["pushed"] = stats["pushed"] + 1
      /\ stats'["padding"] = stats["padding"] + (IF h.padding THEN 1 ELSE 0)
      /\ stats'["popped"] = stats["popped"] /\ stats'["dropped"] = stats["dropped"]
      /\ stats'["duplicate"] = stats["duplicate"]
  <2>1. CASE h.padding
    <3>1. stats' = bump(stats, {"pushed", "padding"})
      BY <1>2, <2>1
    <3> QED BY <1>1, <2>1, <3>1, BumpAccounts, CounterTypes
  <2>2. CASE ~h.padding
    <3>1. stats' = bump(stats, {"pushed"})
      BY <1>2, <2>2
    <3> QED BY <1>1, <2>2, <3>1, BumpAccounts, CounterTypes
  <2> QED BY <2>1, <2>2
<1>4. /\ ~InHand /\ pkt.padding = FALSE /\ NoPacket.padding = FALSE /\ size' = size
      /\ pc' = "ssrc" => InHand'
      /\ pc' # "ssrc" => ~InHand'
  BY DEF PushAt, TypeInv, HandOK, InHand, pushed, queue, NoPacket
<1>5. settled' = settled
  BY <1>3, <1>4 DEF settled
<1>6. settled \in Int
  BY <1>1, CounterTypes DEF settled
<1>7. settled <= stats["pushed"] /\ stats["pushed"] <= settled + stats["padding"]
  BY <1>1, <1>4, <1>6, CounterTypes DEF Conserved
<1> QED BY <1>1, <1>2, <1>3, <1>4, <1>5, <1>6, <1>7, CounterTypes DEF Conserved

\* The steps of push up to the list keep the packet in hand.
LEMMA ConservedInHand ==
  ASSUME TypeInv, Conserved,
         \/ FirstSSRC \/ SameSSRC \/ OtherSSRC \/ switchStream
         \/ AnyLine \/ PlayingLine \/ TakeOverAhead \/ TakeOverAnew \/ Restart
  PROVE  Conserved'
<1>1. stats \in Counters
  BY DEF TypeInv, TypeOK
<1>2. InHand /\ InHand' /\ pkt' = pkt /\ size' = size
  BY DEF TypeInv, HandOK, InHand, FirstSSRC, SameSSRC, OtherSSRC, switchStream, AnyLine,
         PlayingLine, TakeOverAhead, TakeOverAnew, Restart, flushThen, inputs, queue
<1>3. \/ stats' = stats
      \/ stats' = bump(stats, {"switches"})
      \/ stats' = bump(stats, {"restarts"})
  BY DEF FirstSSRC, SameSSRC, OtherSSRC, switchStream, AnyLine, PlayingLine,
         TakeOverAhead, TakeOverAnew, Restart
<1>4. /\ stats'["pushed"] = stats["pushed"] /\ stats'["padding"] = stats["padding"]
      /\ stats'["popped"] = stats["popped"] /\ stats'["dropped"] = stats["dropped"]
      /\ stats'["duplicate"] = stats["duplicate"]
  BY <1>1, <1>3, BumpAccounts
<1>5. settled' = settled
  BY <1>2, <1>4 DEF settled
<1> QED BY <1>2, <1>4, <1>5, ConservedStays

\* The steps with which push is done with the packet: it is counted once, or
\* it is padding.
LEMMA ConservedSettles ==
  ASSUME TypeInv, TypeInv', Conserved,
         \/ StrayLine \/ Expired \/ AtAnEnd \/ InsertFirst \/ Prepend \/ AppendTail
         \/ SearchTail \/ SearchHead \/ AppendDiscont
  PROVE  Conserved'
<1>1. stats \in Counters /\ stats' \in Counters /\ size \in Int
  BY DEF TypeInv, TypeOK
<1>2. pc \in {"line", "insert"} /\ cont' = cont /\ pushed(buf')
  BY DEF StrayLine, Expired, AtAnEnd, InsertFirst, Prepend, AppendTail, SearchTail,
         SearchHead, AppendDiscont, Accepted, link, leak, queue
<1>3. InHand /\ ~InHand' /\ pkt' = NoPacket
  BY <1>2 DEF TypeInv, HandOK, InHand, pushed
<1>4. \/ pkt.padding /\ stats' = stats /\ size' = size
      \/ stats' = bump(stats, {"stray", "dropped"}) /\ size' = size
      \/ stats' = bump(stats, {"dropped"}) /\ size' = size
      \/ stats' = bump(stats, {"duplicate"}) /\ size' = size
      \/ stats' = bump(stats, {"reordered"}) /\ size' = size + 1
      \/ stats' = stats /\ size' = size + 1
  BY DEF StrayLine, Expired, AtAnEnd, InsertFirst, Prepend, AppendTail, SearchTail,
         SearchHead, AppendDiscont, duplicate, reordered, link, leak, queue, Padding
<1>5. /\ stats'["pushed"] = stats["pushed"] /\ stats'["padding"] = stats["padding"]
      /\ stats'["popped"] = stats["popped"]
  BY <1>1, <1>4, BumpAccounts
<1>6. \/ pkt.padding /\ settled' = settled
      \/ settled' = settled + 1
  <2>1. ASSUME stats' = bump(stats, {"stray", "dropped"}), size' = size
        PROVE  settled' = settled + 1
    BY <1>1, <2>1, BumpAccounts, CounterTypes DEF settled
  <2>2. ASSUME stats' = bump(stats, {"dropped"}), size' = size
        PROVE  settled' = settled + 1
    BY <1>1, <2>2, BumpAccounts, CounterTypes DEF settled
  <2>3. ASSUME stats' = bump(stats, {"duplicate"}), size' = size
        PROVE  settled' = settled + 1
    BY <1>1, <2>3, BumpAccounts, CounterTypes DEF settled
  <2>4. ASSUME stats' = bump(stats, {"reordered"}), size' = size + 1
        PROVE  settled' = settled + 1
    BY <1>1, <2>4, BumpAccounts, CounterTypes DEF settled
  <2>5. ASSUME stats' = stats, size' = size + 1
        PROVE  settled' = settled + 1
    BY <1>1, <2>5, CounterTypes DEF settled
  <2>6. ASSUME stats' = stats, size' = size
        PROVE  settled' = settled
    BY <2>6 DEF settled
  <2> QED BY <1>4, <2>1, <2>2, <2>3, <2>4, <2>5, <2>6
<1>7. settled \in Int
  BY <1>1, CounterTypes DEF settled
<1>8. pkt'.padding = FALSE
  BY <1>3 DEF NoPacket
<1> QED BY <1>1, <1>3, <1>5, <1>6, <1>7, <1>8, CounterTypes DEF Conserved

\* Popping and dropping move packets from the list to the counters.
LEMMA ConservedPop ==
  ASSUME TypeInv, TypeInv', Conserved, Pop
  PROVE  Conserved'
<1>1. stats \in Counters /\ size \in Int /\ buf \in Seq(Node)
  BY DEF TypeInv, TypeOK
<1>2. ASSUME buf # <<>>, dropHead
      PROVE  /\ settled' = settled /\ stats'["pushed"] = stats["pushed"]
             /\ stats'["padding"] = stats["padding"]
  <2> DEFINE gap == IF initialized /\ ~head.discont
                    THEN missingBetween(head.sn, prevSN) ELSE 0
  <2>1. gap \in Nat /\ size' = size - 1
        /\ stats' = countDrop(stats, gap)
    BY <1>2, GapType DEF dropHead
  <2> HIDE DEF gap
  <2>2. /\ stats'["dropped"] = stats["dropped"] + 1
        /\ stats'["popped"] = stats["popped"] /\ stats'["pushed"] = stats["pushed"]
        /\ stats'["padding"] = stats["padding"]
        /\ stats'["duplicate"] = stats["duplicate"]
    BY <1>1, <2>1, DropCounts
  <2>3. stats["popped"] \in Nat /\ stats["dropped"] \in Nat /\ stats["duplicate"] \in Nat
    BY <1>1, CounterTypes
  <2>4. settled' = stats["popped"] + (stats["dropped"] + 1) + stats["duplicate"] + (size - 1)
    BY <2>1, <2>2 DEF settled
  <2>5. size \in Int
    BY <1>1
  <2>6. settled' = settled
    BY <2>3, <2>4, <2>5 DEF settled
  <2> QED BY <2>2, <2>6
<1>3. ASSUME completeHead, NEW gap \in Nat, popSample(gap)
      PROVE  /\ settled' = settled /\ stats'["pushed"] = stats["pushed"]
             /\ stats'["padding"] = stats["padding"]
  <2> DEFINE k == sampleLen(buf)
  <2>1. k \in 1..Len(buf)
    BY <1>1, <1>3, SampleBounds DEF completeHead
  <2>2. k \in Nat
    BY <2>1
  <2>3. /\ size' = size - k
        /\ stats' = countSample(stats, gap, k)
    BY <1>3 DEF popSample
  <2> HIDE DEF k
  <2>4. /\ stats'["popped"] = stats["popped"] + k
        /\ stats'["dropped"] = stats["dropped"] /\ stats'["pushed"] = stats["pushed"]
        /\ stats'["padding"] = stats["padding"]
        /\ stats'["duplicate"] = stats["duplicate"]
    BY <1>1, <1>3, <2>2, <2>3, PopCounts
  <2>5. stats["popped"] \in Nat /\ stats["dropped"] \in Nat /\ stats["duplicate"] \in Nat
    BY <1>1, CounterTypes
  <2>6. settled' = (stats["popped"] + k) + stats["dropped"] + stats["duplicate"] + (size - k)
    BY <2>3, <2>4 DEF settled
  <2>7. size \in Int
    BY <1>1
  <2>8. settled' = settled
    BY <2>2, <2>5, <2>6, <2>7 DEF settled
  <2> QED BY <2>4, <2>8
<1>4. settled' = settled /\ stats'["pushed"] = stats["pushed"]
      /\ stats'["padding"] = stats["padding"]
  <2>1. CASE DropExpired \/ FlushDrop
    BY <1>2, <2>1 DEF DropExpired, FlushDrop, staleHead
  <2>2. CASE PopInSequence
    BY <1>3, <2>2 DEF PopInSequence
  <2>3. CASE PopLate
    BY <1>3, <2>3, GapType DEF PopLate, completeHead
  <2>4. CASE FlushPop
    <3> DEFINE gap == IF inSequence THEN 0 ELSE missingBetween(head.sn, prevSN)
    <3>1. gap \in Nat /\ completeHead /\ popSample(gap)
      BY <2>4, GapType DEF FlushPop, completeHead
    <3> HIDE DEF gap
    <3> QED BY <1>3, <3>1
  <2>5. CASE PopReady \/ DropDone \/ PopDone \/ FlushDone \/ Unlock
    BY <2>5 DEF PopReady, DropDone, PopDone, FlushDone, Unlock, settled, queue
  <2> QED BY <2>1, <2>2, <2>3, <2>4, <2>5 DEF Pop
<1>5. InHand' = InHand /\ pkt' = pkt
  BY DEF TypeInv, TypeOK, HandOK, InHand, Pop, PopReady, DropExpired, DropDone,
         PopInSequence, PopLate, PopDone, FlushPop, FlushDrop, FlushDone, Unlock, inputs
<1> QED BY <1>4, <1>5, ConservedStays

\* Conservation: every packet pushed is popped, dropped, a duplicate or still
\* buffered, whenever the mutex is free; only padding goes uncounted.
THEOREM AccountingHolds == Spec => []Accounting
<1>1. Init => Conserved
  BY DEF Init, Conserved, InHand, settled, NoStats, StatNames, NoPacket
<1>2. ASSUME TypeInv, TypeInv', Conserved, [Next]_vars
      PROVE  Conserved'
  <2>1. CASE PushAt \/ Holder
    BY <1>2, <2>1, ConservedPushAt, ConservedInHand, ConservedSettles, ConservedPop
    DEF Holder, Push
  <2>2. CASE Loop \/ Close \/ UpdateLatency \/ Flush \/ Tick \/ UNCHANGED vars
    <3>1. stats' = stats /\ settled' = settled /\ pkt' = pkt
      BY <2>2 DEF Loop, TimerFire, TimerLock, LoopExit, Close, CloseFlush, CloseStop,
                  CloseBreak, UpdateLatency, Flush, Tick, vars, inputs, queue, settled
    <3>2. InHand' = InHand
      BY <1>2, <2>2
      DEF TypeInv, HandOK, InHand, Loop, TimerFire, TimerLock, LoopExit, Close, CloseFlush,
          CloseStop, CloseBreak, UpdateLatency, Flush, Tick, vars, inputs, flushThen
    <3> QED BY <1>2, <3>1, <3>2, ConservedStays
  <2> QED BY <1>2, <2>1, <2>2 DEF Next
<1>3. TypeInv /\ Conserved => Accounting
  <2> SUFFICES ASSUME TypeInv, Conserved, pc = "idle"
               PROVE  /\ settled <= stats["pushed"]
                      /\ stats["pushed"] <= settled + stats["padding"]
    BY DEF Accounting, TypeInv
  <2>1. ~InHand /\ pkt.padding = FALSE
    BY DEF TypeInv, HandOK, InHand, NoPacket
  <2>2. stats \in Counters /\ size \in Int
    BY DEF TypeInv, TypeOK
  <2>3. settled \in Int
    BY <2>2, CounterTypes DEF settled
  <2> QED BY <2>1, <2>2, <2>3, CounterTypes DEF Conserved
<1> QED BY <1>1, <1>2, <1>3, TypeInvariant, PTL DEF Spec

----------------------------------------------------------------------------
(* The callbacks.                                                          *)

\* A loss that has not been reported yet is remembered by the locals of the
\* method that holds the mutex.
CallsInv ==
  /\ notified = events(stats)
  /\ \/ reported = <<stats["lost"], stats["dropped"]>>
     \/ pc = "drop" /\ dropped
     \/ pc = "pop" /\ loss
     \/ pc = "flush" /\ (loss \/ dropped)

\* Bumping other counters is no notable event.
LEMMA BumpEvents ==
  ASSUME NEW s \in Counters, NEW names, names \cap EventNames = {}
  PROVE  events(bump(s, names)) = events(s)
  BY DEF events, bump, EventNames, StatNames

\* Every step of push that counts an event or a drop makes the callback at once.
LEMMA CallsPush ==
  ASSUME TypeInv, CallsInv, PushAt \/ Push
  PROVE  CallsInv'
<1>1. stats \in Counters
  BY DEF TypeInv, TypeOK
<1>2. pc \notin {"drop", "pop", "flush"}
  BY DEF PushAt, Push, FirstSSRC, SameSSRC, OtherSSRC, switchStream, AnyLine, PlayingLine,
         StrayLine, TakeOverAhead, TakeOverAnew, Restart, Expired, AtAnEnd, InsertFirst,
         Prepend, AppendTail, SearchTail, SearchHead, AppendDiscont, Accepted
<1>3. reported = <<stats["lost"], stats["dropped"]>> /\ notified = events(stats)
  BY <1>2 DEF CallsInv
<1>4. /\ events(bump(stats, {"pushed"})) = events(stats)
      /\ events(bump(stats, {"pushed", "padding"})) = events(stats)
      /\ events(bump(stats, {"dropped"})) = events(stats)
  BY <1>1, BumpEvents DEF EventNames
<1>5. \A names : "lost" \notin names /\ "dropped" \notin names =>
         /\ bump(stats, names)["lost"] = stats["lost"]
         /\ bump(stats, names)["dropped"] = stats["dropped"]
  BY <1>1, BumpAccounts
<1>6. CASE PushAt
  <2>1. /\ \/ stats' = bump(stats, {"pushed"})
           \/ stats' = bump(stats, {"pushed", "padding"})
        /\ UNCHANGED calls
    BY <1>6 DEF PushAt
  <2>2. stats'["lost"] = stats["lost"] /\ stats'["dropped"] = stats["dropped"]
    BY <1>5, <2>1
  <2> QED BY <1>3, <1>4, <2>1, <2>2 DEF CallsInv, calls
<1>7. ASSUME UNCHANGED <<stats, calls>>
      PROVE  CallsInv'
  BY <1>3, <1>7 DEF CallsInv, calls
<1>8. ASSUME NEW n \in EventNames, stats' = bump(stats, {n}), notified' = events(stats'),
             UNCHANGED reported
      PROVE  CallsInv'
  <2>1. n # "lost" /\ n # "dropped"
    BY DEF EventNames
  <2>2. stats'["lost"] = stats["lost"] /\ stats'["dropped"] = stats["dropped"]
    BY <1>5, <1>8, <2>1
  <2> QED BY <1>3, <1>8, <2>2 DEF CallsInv
<1>9. CASE FirstSSRC \/ SameSSRC \/ OtherSSRC \/ AnyLine \/ PlayingLine \/ TakeOverAnew
           \/ InsertFirst \/ AppendTail \/ AppendDiscont
  BY <1>7, <1>9 DEF FirstSSRC, SameSSRC, OtherSSRC, AnyLine, PlayingLine, TakeOverAnew,
                    InsertFirst, AppendTail, AppendDiscont
<1>10. CASE switchStream \/ Restart \/ TakeOverAhead \/ AtAnEnd \/ Prepend \/ SearchTail
            \/ SearchHead
  <2>1. "switches" \in EventNames /\ "restarts" \in EventNames /\ "reordered" \in EventNames
        /\ "duplicate" \in EventNames
    BY DEF EventNames
  <2>2. UNCHANGED reported
    BY <1>10 DEF switchStream, Restart, TakeOverAhead, AtAnEnd, Prepend, SearchTail, SearchHead
  <2>3. \/ UNCHANGED <<stats, notified>>
        \/ \E n \in {"switches", "restarts", "reordered", "duplicate"} :
             stats' = bump(stats, {n}) /\ notified' = events(stats')
    BY <1>10 DEF switchStream, Restart, TakeOverAhead, AtAnEnd, Prepend, SearchTail,
                 SearchHead, duplicate, reordered, leak, notifyStats
  <2> QED BY <1>7, <1>8, <2>1, <2>2, <2>3 DEF calls
<1>11. CASE StrayLine \/ Expired
  <2>1. \/ UNCHANGED <<stats, calls>>
        \/ stats' = bump(stats, {"stray", "dropped"})
           /\ reported' = <<stats'["lost"], stats'["dropped"]>> /\ notified' = events(stats')
        \/ stats' = bump(stats, {"dropped"})
           /\ reported' = <<stats'["lost"], stats'["dropped"]>> /\ UNCHANGED notified
    BY <1>11 DEF StrayLine, Expired, reportLoss, notifyStats, calls
  <2> QED BY <1>3, <1>4, <1>7, <2>1 DEF CallsInv
<1> QED BY <1>6, <1>9, <1>10, <1>11 DEF Push

\* popReady and flushLocked owe an onPacketLoss exactly while their locals say
\* so, and make the call before they return.
LEMMA CallsPop ==
  ASSUME TypeInv, CallsInv, Pop
  PROVE  CallsInv'
<1>1. stats \in Counters /\ buf \in Seq(Node)
  BY DEF TypeInv, TypeOK
<1>2. CASE PopReady
  BY <1>2 DEF PopReady, CallsInv, calls
<1>3. CASE DropExpired \/ FlushDrop
  <2> DEFINE gap == IF initialized /\ ~head.discont
                    THEN missingBetween(head.sn, prevSN) ELSE 0
  <2>1. /\ gap \in Nat /\ dropped' = TRUE /\ stats' = countDrop(stats, gap)
        /\ pc \in {"drop", "flush"} /\ pc' = pc /\ UNCHANGED calls
    BY <1>3, GapType DEF DropExpired, FlushDrop, staleHead, dropHead
  <2> HIDE DEF gap
  <2>2. events(stats') = events(stats)
    BY <1>1, <2>1, DropCounts
  <2> QED BY <2>1, <2>2 DEF CallsInv, calls
<1>4. CASE DropDone
  <2>1. /\ pc = "drop" /\ UNCHANGED <<stats, notified>>
        /\ IF dropped THEN reported' = <<stats["lost"], stats["dropped"]>>
           ELSE reported' = reported
    BY <1>4 DEF DropDone, reportLoss
  <2>2. reported' = <<stats["lost"], stats["dropped"]>>
    BY <2>1 DEF CallsInv
  <2> QED BY <2>1, <2>2 DEF CallsInv
<1>5. ASSUME completeHead, NEW gap \in Nat, popSample(gap)
      PROVE  /\ events(stats') = events(stats) /\ stats'["dropped"] = stats["dropped"]
             /\ gap = 0 => stats'["lost"] = stats["lost"]
  <2> DEFINE k == sampleLen(buf)
  <2>1. k \in 1..Len(buf)
    BY <1>1, <1>5, SampleBounds DEF completeHead
  <2>2. k \in Nat
    BY <2>1
  <2>3. stats' = countSample(stats, gap, k)
    BY <1>5 DEF popSample
  <2> HIDE DEF k
  <2>4. /\ events(stats') = events(stats) /\ stats'["dropped"] = stats["dropped"]
        /\ stats'["lost"] = stats["lost"] + gap
    BY <1>1, <1>5, <2>2, <2>3, PopCounts
  <2>5. stats["lost"] \in Nat
    BY <1>1, CounterTypes
  <2> QED BY <2>4, <2>5
<1>6. CASE PopInSequence
  <2>1. /\ events(stats') = events(stats) /\ stats'["dropped"] = stats["dropped"]
        /\ stats'["lost"] = stats["lost"]
    BY <1>5, <1>6 DEF PopInSequence
  <2> QED BY <1>6, <2>1 DEF PopInSequence, CallsInv, calls, locals
<1>7. CASE PopLate
  <2>1. events(stats') = events(stats)
    BY <1>5, <1>7, GapType DEF PopLate, completeHead
  <2> QED BY <1>7, <2>1 DEF PopLate, CallsInv, calls
<1>8. CASE PopDone
  <2>1. /\ pc = "pop" /\ UNCHANGED <<stats, notified>>
        /\ IF loss THEN reported' = <<stats["lost"], stats["dropped"]>>
           ELSE reported' = reported
    BY <1>8 DEF PopDone, reportLoss
  <2>2. reported' = <<stats["lost"], stats["dropped"]>>
    BY <2>1 DEF CallsInv
  <2> QED BY <2>1, <2>2 DEF CallsInv
<1>9. CASE FlushPop
  <2> DEFINE gap == IF inSequence THEN 0 ELSE missingBetween(head.sn, prevSN)
  <2>1. /\ gap \in Nat /\ (inSequence => gap = 0) /\ completeHead /\ popSample(gap)
        /\ pc = "flush" /\ pc' = pc /\ loss' = (loss \/ ~inSequence) /\ dropped' = dropped
        /\ UNCHANGED calls
    BY <1>9, GapType DEF FlushPop, completeHead
  <2> HIDE DEF gap
  <2>2. /\ events(stats') = events(stats) /\ stats'["dropped"] = stats["dropped"]
        /\ gap = 0 => stats'["lost"] = stats["lost"]
    BY <1>5, <2>1
  <2> QED BY <2>1, <2>2 DEF CallsInv, calls
<1>10. CASE FlushDone
  <2>1. /\ pc = "flush" /\ UNCHANGED <<stats, notified>>
        /\ IF loss \/ dropped THEN reported' = <<stats["lost"], stats["dropped"]>>
           ELSE reported' = reported
    BY <1>10 DEF FlushDone, reportLoss
  <2>2. reported' = <<stats["lost"], stats["dropped"]>>
    BY <2>1 DEF CallsInv
  <2> QED BY <2>1, <2>2 DEF CallsInv
<1>11. CASE Unlock
  BY <1>11 DEF Unlock, CallsInv, calls
<1> QED BY <1>2, <1>3, <1>4, <1>6, <1>7, <1>8, <1>9, <1>10, <1>11 DEF Pop

\* CallsInv is an invariant.
LEMMA CallsInvariant == Spec => []CallsInv
<1>1. Init => CallsInv
  BY DEF Init, CallsInv, NoStats, StatNames
<1>2. ASSUME TypeInv, CallsInv, [Next]_vars
      PROVE  CallsInv'
  <2>1. CASE PushAt \/ Holder
    BY <1>2, <2>1, CallsPush, CallsPop DEF Holder
  <2>2. CASE Loop \/ Close \/ UpdateLatency \/ Flush \/ Tick
    BY <1>2, <2>2
    DEF CallsInv, Loop, TimerFire, TimerLock, LoopExit, Close, CloseFlush, CloseStop,
        CloseBreak, UpdateLatency, Flush, Tick, calls, locals, flushThen
  <2>3. CASE UNCHANGED vars
    BY <1>2, <2>3 DEF CallsInv, vars, calls, locals
  <2> QED BY <1>2, <2>1, <2>2, <2>3 DEF Next
<1> QED BY <1>1, <1>2, TypeInvariant, PTL DEF Spec

\* No packet is lost or dropped in silence: when the mutex is free, the last
\* onPacketLoss carried the present counters.
THEOREM LossReportedHolds == Spec => []LossReported
<1>1. CallsInv => LossReported
  BY DEF CallsInv, LossReported
<1> QED BY <1>1, CallsInvariant, PTL

\* Nor does a switch, a reordering, a restart, a stray or a duplicate escape
\* onStats.
THEOREM EventsNotifiedHolds == Spec => []EventsNotified
<1>1. CallsInv => EventsNotified
  BY DEF CallsInv, EventsNotified
<1> QED BY <1>1, CallsInvariant, PTL

\* Both callbacks are up to date whenever the mutex is free.
THEOREM CallbacksHold == Spec => []CallbacksCurrent
<1>1. LossReported /\ EventsNotified => CallbacksCurrent
  BY DEF CallbacksCurrent
<1> QED BY <1>1, LossReportedHolds, EventsNotifiedHolds, PTL

----------------------------------------------------------------------------
(* How the steps change the list.                                          *)

\* Every node of b is one of the list or the node made of the packet in hand.
grownTo(b) ==
  \A i \in 1..Len(b) : \/ \E j \in 1..Len(buf) : b[i] = buf[j]
                       \/ \E d : b[i] = node(d)

\* The steps of push that may link the packet in hand into the list.
Linking == InsertFirst \/ Prepend \/ AppendTail \/ SearchTail \/ SearchHead \/ AppendDiscont

\* push links only the packet in hand, whichever of its branches it takes.
LEMMA LinkGrows ==
  ASSUME TypeInv, Linking
  PROVE  grownTo(buf')
<1>1. pc = "insert" /\ cont = "unlock" /\ pkt \in Node /\ buf \in Seq(Node)
  BY DEF TypeInv, HandOK, InHand, TypeOK, Linking, InsertFirst, Prepend, AppendTail,
         SearchTail, SearchHead, AppendDiscont, Accepted, PCs
<1>2. \A d : node(d) \in Node
  BY <1>1 DEF node, Node
<1>3. Len(buf) \in Nat
  BY <1>1
<1>4. CASE InsertFirst
  BY <1>4 DEF InsertFirst, link, grownTo
<1>5. CASE Prepend
  <2> DEFINE p == <<node(jumps)>>
  <2>1. buf' = p \o buf /\ p \in Seq(Node) /\ Len(p) = 1 /\ p[1] = node(jumps)
    BY <1>2, <1>5 DEF Prepend, link
  <2> HIDE DEF p
  <2>2. /\ Len(p \o buf) = Len(p) + Len(buf)
        /\ \A i \in 1..Len(p) + Len(buf) :
             (p \o buf)[i] = IF i <= Len(p) THEN p[i] ELSE buf[i - Len(p)]
    BY <1>1, <2>1, ConcatProperties
  <2>3. ASSUME NEW i \in 1..Len(buf')
        PROVE  \/ \E j \in 1..Len(buf) : buf'[i] = buf[j]
               \/ \E d : buf'[i] = node(d)
    <3>1. CASE i = 1
      BY <2>1, <2>2, <3>1
    <3>2. CASE i # 1
      <4>1. i - 1 \in 1..Len(buf) /\ buf'[i] = buf[i - 1]
        BY <1>3, <2>1, <2>2, <3>2
      <4> QED BY <4>1
    <3> QED BY <3>1, <3>2
  <2> QED BY <2>3 DEF grownTo
<1>6. ASSUME NEW p \in Node, \E d : p = node(d), buf' = Append(buf, p)
      PROVE  grownTo(buf')
  <2>1. /\ Len(buf') = Len(buf) + 1
        /\ \A i \in 1..Len(buf) : buf'[i] = buf[i]
        /\ buf'[Len(buf) + 1] = p
    BY <1>1, <1>6, AppendProperties
  <2> QED BY <1>3, <1>6, <2>1 DEF grownTo
<1>7. CASE AppendTail \/ AppendDiscont
  BY <1>2, <1>6, <1>7 DEF AppendTail, AppendDiscont, link
<1>8. ASSUME NEW p \in Node, \E d : p = node(d), NEW i \in 1..Len(buf) + 1,
             buf' = InsertAt(buf, i, p)
      PROVE  grownTo(buf')
  <2>1. /\ Len(buf') = Len(buf) + 1
        /\ \A j \in 1..Len(buf) + 1 :
             buf'[j] = IF j < i THEN buf[j] ELSE IF j = i THEN p ELSE buf[j - 1]
    <3>1. /\ Len(InsertAt(buf, i, p)) = Len(buf) + 1
          /\ \A j \in 1..Len(buf) + 1 :
               InsertAt(buf, i, p)[j] =
                 IF j < i THEN buf[j] ELSE IF j = i THEN p ELSE buf[j - 1]
      <4>1. buf \in Seq(Node) /\ i \in 1..Len(buf) + 1 /\ p \in Node
        BY <1>1
      <4> QED BY <4>1, InsertAtProperties
    <3> QED BY <1>8, <3>1, Zenon
  <2>2. ASSUME NEW j \in 1..Len(buf')
        PROVE  \/ \E l \in 1..Len(buf) : buf'[j] = buf[l]
               \/ \E d : buf'[j] = node(d)
    <3>1. CASE j < i
      <4>1. j \in 1..Len(buf) /\ buf'[j] = buf[j]
        BY <1>3, <2>1, <3>1
      <4> QED BY <4>1
    <3>2. CASE j = i
      BY <1>8, <2>1, <3>2
    <3>3. CASE j > i
      <4>1. j - 1 \in 1..Len(buf) /\ buf'[j] = buf[j - 1]
        BY <1>3, <2>1, <3>3
      <4> QED BY <4>1
    <3> QED BY <1>3, <2>1, <3>1, <3>2, <3>3
  <2> QED BY <2>2 DEF grownTo
<1>9. ASSUME buf' = buf
      PROVE  grownTo(buf')
  BY <1>9 DEF grownTo
<1>10. CASE SearchTail
  <2> DEFINE i == Max(tailStops)
             p == node(~withinRange(pkt.sn, buf[i].sn))
  <2>1. tailStops # {} /\ i \in 1..Len(buf) - 1
    BY <1>1, <1>10, TailSearchStops DEF SearchTail
  <2>2. \/ buf' = buf
        \/ buf' = InsertAt(buf, i + 1, p)
    BY <1>10, <2>1 DEF SearchTail, link, queue
  <2>3. i + 1 \in 1..Len(buf) + 1 /\ p \in Node /\ \E d : p = node(d)
    BY <1>2, <1>3, <2>1
  <2> HIDE DEF i, p
  <2> QED BY <1>8, <1>9, <2>2, <2>3
<1>11. CASE SearchHead
  <2> DEFINE i == Min(headStops)
             p == node(FALSE)
  <2>1. headStops # {} /\ i \in 2..Len(buf)
    BY <1>1, <1>11, HeadSearchStops DEF SearchHead
  <2>2. \/ buf' = buf
        \/ buf' = InsertAt(buf, i, p)
    BY <1>11, <2>1 DEF SearchHead, link, queue
  <2>3. p \in Node /\ \E d : p = node(d)
    BY <1>2
  <2> HIDE DEF i, p
  <2>4. i \in 1..Len(buf) + 1
    BY <1>3, <2>1
  <2> QED BY <1>8, <1>9, <2>2, <2>3, <2>4
<1> QED BY <1>4, <1>5, <1>7, <1>10, <1>11 DEF Linking

\* Giving up the head leaves nodes that were in the list.
LEMMA DropShrinks ==
  ASSUME TypeInv, buf # <<>>, dropHead
  PROVE  \A i \in 1..Len(buf') : \E j \in 1..Len(buf) : buf'[i] = buf[j]
<1>1. buf \in Seq(Node) /\ buf' = Tail(buf)
  BY DEF TypeInv, TypeOK, dropHead
<1>2. Len(buf) \in Nat /\ Len(buf') = Len(buf) - 1
      /\ \A i \in 1..Len(buf) - 1 : buf'[i] = buf[i + 1]
  BY <1>1
<1>3. \A i \in 1..Len(buf') : i + 1 \in 1..Len(buf)
  BY <1>2
<1> QED BY <1>2, <1>3

\* So does taking a sample, and the list is shorter by the length of the sample.
LEMMA PopShrinks ==
  ASSUME TypeInv, completeHead, NEW gap \in Nat, popSample(gap)
  PROVE  /\ Len(buf') = Len(buf) - sampleLen(buf)
         /\ \A i \in 1..Len(buf') : \E j \in 1..Len(buf) : buf'[i] = buf[j]
<1> DEFINE k == sampleLen(buf)
<1>1. buf \in Seq(Node) /\ buf' = rest(buf, k) /\ Len(buf) \in Nat
  BY DEF TypeInv, TypeOK, popSample
<1>2. k \in 1..Len(buf)
  BY <1>1, SampleBounds DEF completeHead
<1> HIDE DEF k
<1>3. k + 1 \in 1..Len(buf) + 1 /\ Len(buf) \in 0..Len(buf) /\ k + 1 - 1 <= Len(buf)
  BY <1>1, <1>2
<1>4. /\ Len(rest(buf, k)) = Len(buf) - (k + 1) + 1
      /\ \A j \in 1..Len(buf) - (k + 1) + 1 : rest(buf, k)[j] = buf[k + 1 + j - 1]
  BY <1>1, <1>3, SliceProperties DEF rest
<1>5. Len(buf') = Len(buf) - k
  BY <1>1, <1>2, <1>4
<1>6. \A j \in 1..Len(buf') : k + 1 + j - 1 \in 1..Len(buf)
  BY <1>1, <1>2, <1>5
<1> QED BY <1>1, <1>2, <1>4, <1>5, <1>6 DEF k

----------------------------------------------------------------------------
(* One stream at a time.                                                   *)

\* From the switch on the SSRC to the insertion, also while a restart waits for
\* its flush, the packet in hand is of the stream being played.
StreamInv ==
  /\ SingleStream
  /\ pc \in {"line", "restart", "insert"} \/ cont = "restart" => pkt.ssrc = ssrc

\* With nothing buffered, any stream may follow.
LEMMA NoneBuffered ==
  ASSUME buf' = <<>>
  PROVE  SingleStream'
  BY DEF SingleStream

\* Nodes that were in the list and nodes made of a packet of the stream are of
\* the stream.
LEMMA StreamKept ==
  ASSUME SingleStream, ssrc' = ssrc, pkt \in Node,
         grownTo(buf'), pkt.ssrc = ssrc
  PROVE  SingleStream'
<1>1. \A d : node(d).ssrc = ssrc
  BY DEF node, Node
<1> QED BY <1>1 DEF SingleStream, grownTo

\* The steps of push keep the streams apart: what is buffered when the SSRC
\* changes has been flushed.
LEMMA StreamPush ==
  ASSUME TypeInv, TypeInv', StreamInv, PushAt \/ Push
  PROVE  StreamInv'
<1> USE DEF inputs, stream, queue
<1>1. CASE PushAt
  <2>1. pc' \in {"idle", "ready", "ssrc"} /\ cont' = "unlock" /\ buf' = buf /\ ssrc' = ssrc
    BY <1>1 DEF PushAt, pushed, TypeInv, HandOK
  <2> QED BY <2>1 DEF StreamInv, SingleStream
<1>2. CASE FirstSSRC
  <2>1. ssrc = NoSSRC /\ buf \in Seq(Node) /\ NoSSRC \notin SSRCs
    BY <1>2, BufferAssumption DEF FirstSSRC, TypeInv, TypeOK
  <2>2. \A i \in 1..Len(buf) : buf[i] \in Node
    BY <2>1
  <2>3. \A n \in Node : n.ssrc \in SSRCs
    BY DEF Node
  <2>4. \A i \in 1..Len(buf) : FALSE
    BY <2>1, <2>2, <2>3 DEF StreamInv, SingleStream
  <2> QED BY <1>2, <2>4 DEF FirstSSRC, StreamInv, SingleStream
<1>3. CASE SameSSRC \/ AnyLine \/ PlayingLine \/ TakeOverAhead
  BY <1>3 DEF SameSSRC, AnyLine, PlayingLine, TakeOverAhead, StreamInv, SingleStream
<1>4. CASE OtherSSRC \/ TakeOverAnew
  BY <1>4 DEF OtherSSRC, TakeOverAnew, flushThen, StreamInv, SingleStream
<1>5. CASE switchStream \/ Restart
  <2>1. buf = <<>> /\ buf' = buf
    BY <1>5 DEF switchStream, Restart, TypeInv, HandOK
  <2>2. pkt'.ssrc = ssrc'
    BY <1>5 DEF switchStream, Restart, StreamInv
  <2> QED BY <2>1, <2>2, NoneBuffered DEF StreamInv
<1>6. CASE StrayLine \/ Expired \/ AtAnEnd
  <2>1. pc' \in {"idle", "ready"} /\ cont' = cont /\ cont = "unlock"
        /\ buf' = buf /\ ssrc' = ssrc
    BY <1>6 DEF StrayLine, Expired, AtAnEnd, pushed, TypeInv, HandOK
  <2> QED BY <2>1 DEF StreamInv, SingleStream
<1>7. CASE Linking
  <2>1. pc = "insert" /\ pkt \in Node /\ cont = "unlock"
    BY <1>7 DEF TypeInv, HandOK, InHand, TypeOK, Linking, InsertFirst, Prepend, AppendTail,
                SearchTail, SearchHead, AppendDiscont, Accepted
  <2>2. ssrc' = ssrc /\ cont' = "unlock"
    BY <1>7, <2>1 DEF Linking, InsertFirst, Prepend, AppendTail, SearchTail, SearchHead,
                      AppendDiscont
  <2>3. pc' \in {"idle", "ready"}
    BY <1>7 DEF Linking, InsertFirst, Prepend, AppendTail, SearchTail, SearchHead,
                AppendDiscont, link, leak, pushed
  <2>4. SingleStream'
    BY <1>7, <2>1, <2>2, LinkGrows, StreamKept DEF StreamInv
  <2> QED BY <2>2, <2>3, <2>4 DEF StreamInv
<1> QED BY <1>1, <1>2, <1>3, <1>4, <1>5, <1>6, <1>7 DEF Push, Linking

\* Playing and giving up leave nodes that were in the list.
LEMMA StreamPop ==
  ASSUME TypeInv, StreamInv, Pop
  PROVE  StreamInv'
<1> USE DEF inputs, stream, queue
<1>1. ASSUME \A i \in 1..Len(buf') : \E j \in 1..Len(buf) : buf'[i] = buf[j],
             UNCHANGED <<pc, inputs, ssrc>>
      PROVE  StreamInv'
  BY <1>1 DEF StreamInv, SingleStream
<1>2. CASE DropExpired \/ FlushDrop
  BY <1>1, <1>2, DropShrinks DEF DropExpired, FlushDrop, staleHead
<1>3. CASE PopInSequence
  BY <1>1, <1>3, PopShrinks DEF PopInSequence
<1>4. CASE PopLate
  BY <1>1, <1>4, PopShrinks, GapType DEF PopLate, completeHead
<1>5. CASE FlushPop
  <2> DEFINE gap == IF inSequence THEN 0 ELSE missingBetween(head.sn, prevSN)
  <2>1. gap \in Nat /\ completeHead /\ popSample(gap)
    BY <1>5, GapType DEF FlushPop, completeHead
  <2> HIDE DEF gap
  <2> QED BY <1>1, <1>5, <2>1, PopShrinks DEF FlushPop
<1>6. CASE PopReady \/ DropDone \/ PopDone \/ FlushDone \/ Unlock
  <2>1. buf' = buf /\ ssrc' = ssrc /\ pkt' = pkt
    BY <1>6 DEF PopReady, DropDone, PopDone, FlushDone, Unlock
  <2>2. pc' \in {"line", "restart", "insert"} \/ cont' = "restart" => cont = "restart"
    BY <1>6 DEF PopReady, DropDone, PopDone, FlushDone, Unlock, TypeInv, TypeOK
  <2> QED BY <2>1, <2>2 DEF StreamInv, SingleStream
<1> QED BY <1>2, <1>3, <1>4, <1>5, <1>6 DEF Pop

\* StreamInv is an invariant.
LEMMA StreamInvariant == Spec => []StreamInv
<1>1. Init => StreamInv
  BY DEF Init, StreamInv, SingleStream
<1>2. ASSUME TypeInv, TypeInv', StreamInv, [Next]_vars
      PROVE  StreamInv'
  <2>1. CASE PushAt \/ Holder
    BY <1>2, <2>1, StreamPush, StreamPop DEF Holder
  <2>2. CASE Loop \/ Close \/ UpdateLatency \/ Flush \/ Tick
    BY <1>2, <2>2
    DEF StreamInv, SingleStream, Loop, TimerFire, TimerLock, LoopExit, Close, CloseFlush,
        CloseStop, CloseBreak, UpdateLatency, Flush, Tick, inputs, stream, queue, flushThen
  <2>3. CASE UNCHANGED vars
    BY <1>2, <2>3 DEF StreamInv, SingleStream, vars, inputs, stream, queue
  <2> QED BY <1>2, <2>1, <2>2, <2>3 DEF Next
<1> QED BY <1>1, <1>2, TypeInvariant, PTL DEF Spec

\* All that is buffered is of the stream being played, however the streams
\* alternate: switchStream flushes the old one before it takes the new SSRC.
THEOREM SingleStreamHolds == Spec => []SingleStream
<1>1. StreamInv => SingleStream
  BY DEF StreamInv
<1> QED BY <1>1, StreamInvariant, PTL

----------------------------------------------------------------------------
(* Nothing is left that could be played, and what waits has a timer.       *)

\* While packets are buffered, only popReady releases the mutex: push goes on to
\* it, and a flush ends with nothing buffered.
LEMMA ReleasedByPopReady ==
  ASSUME TypeInv, TypeInv', Next, pc # "idle", pc' = "idle", buf' # <<>>
  PROVE  PopDone \/ CloseStop \/ CloseBreak \/ TimerFire \/ LoopExit
<1>1. ASSUME NEW b, pushed(b), b # <<>>
      PROVE  FALSE
  BY <1>1 DEF pushed
<1>2. CASE PushAt \/ Tick \/ UpdateLatency \/ Flush \/ CloseFlush \/ TimerLock
  BY <1>2 DEF PushAt, Tick, UpdateLatency, Flush, CloseFlush, TimerLock
<1>3. CASE FirstSSRC \/ SameSSRC \/ OtherSSRC \/ switchStream \/ AnyLine \/ PlayingLine
           \/ TakeOverAhead \/ TakeOverAnew \/ Restart
  BY <1>3 DEF FirstSSRC, SameSSRC, OtherSSRC, switchStream, AnyLine, PlayingLine,
              TakeOverAhead, TakeOverAnew, Restart, flushThen
<1>4. CASE StrayLine \/ Expired \/ AtAnEnd
  BY <1>1, <1>4 DEF StrayLine, Expired, AtAnEnd, queue
<1>5. CASE InsertFirst \/ Prepend \/ AppendTail \/ AppendDiscont
  BY <1>1, <1>5 DEF InsertFirst, Prepend, AppendTail, AppendDiscont, link
<1>6. CASE SearchTail \/ SearchHead
  BY <1>1, <1>6 DEF SearchTail, SearchHead, link, leak, queue
<1>7. CASE PopReady \/ DropExpired \/ DropDone \/ PopInSequence \/ PopLate
           \/ FlushPop \/ FlushDrop
  BY <1>7 DEF PopReady, DropExpired, DropDone, PopInSequence, PopLate, FlushPop, FlushDrop
<1>8. CASE FlushDone \/ Unlock
  BY <1>8 DEF FlushDone, Unlock, TypeInv, TypeOK, HandOK, queue
<1> QED BY <1>2, <1>3, <1>4, <1>5, <1>6, <1>7, <1>8
        DEF Next, Holder, Push, Pop, Loop, Close

\* The steps taken while the mutex is free, and free after them, leave the list
\* and what has been played alone.
LEMMA IdleKeeps ==
  ASSUME TypeInv, [Next]_vars, pc = "idle", pc' = "idle", buf' # <<>>
  PROVE  UNCHANGED <<buf, stream>>
<1> USE DEF stream, queue
<1>1. CASE PushAt
  BY <1>1 DEF PushAt
<1>2. CASE Push \/ Pop
  BY <1>2 DEF Push, Pop, FirstSSRC, SameSSRC, OtherSSRC, switchStream, AnyLine, PlayingLine,
         StrayLine, TakeOverAhead, TakeOverAnew, Restart, Expired, AtAnEnd, InsertFirst,
         Prepend, AppendTail, SearchTail, SearchHead, AppendDiscont, Accepted,
         PopReady, DropExpired, DropDone, PopInSequence, PopLate, PopDone, FlushPop,
         FlushDrop, FlushDone, Unlock
<1>3. CASE Loop \/ Close \/ UpdateLatency \/ Flush \/ Tick \/ UNCHANGED vars
  BY <1>3 DEF Loop, TimerFire, TimerLock, LoopExit, Close, CloseFlush, CloseStop,
              CloseBreak, UpdateLatency, Flush, Tick, vars, flushThen
<1> QED BY <1>1, <1>2, <1>3 DEF Next, Holder

\* When the mutex is free no complete sample is left at the head that is next in
\* sequence: popReady runs after every push and plays all it can.
THEOREM NothingReadyWaitsHolds == Spec => []NothingReadyWaits
<1>1. Init => NothingReadyWaits
  BY DEF Init, NothingReadyWaits
<1>2. ASSUME TypeInv, TypeInv', NothingReadyWaits, [Next]_vars
      PROVE  NothingReadyWaits'
  <2> SUFFICES ASSUME pc' = "idle", buf' # <<>>
               PROVE  ~(isComplete(buf') /\ inSequence')
    BY DEF NothingReadyWaits
  <2> USE DEF stream, queue
  <2>1. CASE pc = "idle"
    <3>1. UNCHANGED <<buf, stream>>
      BY <1>2, <2>1, IdleKeeps
    <3>2. inSequence' = inSequence
      BY <3>1 DEF inSequence, head
    <3> QED BY <1>2, <2>1, <3>1, <3>2 DEF NothingReadyWaits
  <2>2. CASE pc # "idle"
    <3>1. Next
      BY <1>2, <2>2 DEF vars
    <3>2. PopDone
      <4>1. CloseStop \/ CloseBreak \/ TimerFire \/ LoopExit => pc' = pc
        BY DEF CloseStop, CloseBreak, TimerFire, LoopExit
      <4> QED BY <1>2, <2>2, <3>1, <4>1, ReleasedByPopReady
    <3>3. UNCHANGED <<buf, stream>> /\ ~(completeHead /\ inSequence)
      BY <3>2 DEF PopDone
    <3>4. inSequence' = inSequence
      BY <3>3 DEF inSequence, head
    <3> QED BY <3>3, <3>4 DEF completeHead
  <2> QED BY <2>1, <2>2
<1> QED BY <1>1, <1>2, TypeInvariant, PTL DEF Spec

\* Whatever waits in an open buffer has a timer that is armed no later than the
\* head's deadline, or one that has just fired: through pushes before the head,
\* changes of the latency, and a Close that is under way.
THEOREM TimerArmedHolds == Spec => []TimerArmed
<1>1. Init => TimerArmed
  BY DEF Init, TimerArmed
<1>2. ASSUME TypeInv, TypeInv', TimerArmed, [Next]_vars
      PROVE  TimerArmed'
  <2> SUFFICES ASSUME pc' = "idle", buf' # <<>>, closer' \in {"open", "flushed"}
               PROVE  \/ timer' # Off /\ timer' <= head'.at + latency'
                      \/ loop' = "fired"
    BY DEF TimerArmed
  <2> USE DEF others, queue
  <2>0. /\ buf' \in Seq(Node) /\ latency' \in Nat
        /\ buf \in Seq(Node)
    BY <1>2, BufferAssumption DEF TypeInv, TypeOK
  <2>a. head'.at \in Nat
    <3>1. head' \in Node
      BY <2>0 DEF head
    <3> QED BY <3>1 DEF Node
  <2>1. CASE pc = "idle"
    <3>1. UNCHANGED <<buf, stream>>
      BY <1>2, <2>1, IdleKeeps
    <3>2. head' = head /\ buf # <<>>
      BY <3>1 DEF head
    <3>3. CASE closer' = closer /\ timer' = timer /\ latency' = latency /\ loop' = loop
      BY <1>2, <2>1, <3>2, <3>3 DEF TimerArmed
    <3>4. CASE UpdateLatency
      <4>1. timer' = head'.at + latency'
        BY <3>2, <3>4 DEF UpdateLatency
      <4> QED BY <2>0, <2>a, <4>1 DEF Off
    <3>5. CASE TimerFire
      BY <3>5 DEF TimerFire
    <3>6. CASE PushAt \/ Tick \/ UNCHANGED vars
      <4>1. closer' = closer /\ timer' = timer /\ latency' = latency /\ loop' = loop
        BY <3>6 DEF PushAt, Tick, vars
      <4> QED BY <3>3, <4>1
    <3>7. CASE Holder \/ TimerLock \/ CloseFlush \/ CloseStop \/ CloseBreak \/ Flush
               \/ LoopExit
      <4>1. ~Holder
        BY <2>1
        DEF Holder, Push, Pop, FirstSSRC, SameSSRC, OtherSSRC, switchStream, AnyLine,
            PlayingLine, StrayLine, TakeOverAhead, TakeOverAnew, Restart, Expired, AtAnEnd,
            InsertFirst, Prepend, AppendTail, SearchTail, SearchHead, AppendDiscont,
            Accepted, PopReady, DropExpired, DropDone, PopInSequence, PopLate, PopDone,
            FlushPop, FlushDrop, FlushDone, Unlock
      <4> QED BY <3>7, <4>1
              DEF TimerLock, CloseFlush, CloseStop, CloseBreak, Flush, LoopExit, flushThen
    <3> QED BY <1>2, <3>4, <3>5, <3>6, <3>7 DEF Next, Loop, Close
  <2>2. CASE pc # "idle"
    <3>1. Next
      BY <1>2, <2>2 DEF vars
    <3>2. PopDone
      <4>1. CloseStop \/ CloseBreak \/ TimerFire \/ LoopExit => pc' = pc
        BY DEF CloseStop, CloseBreak, TimerFire, LoopExit
      <4> QED BY <1>2, <2>2, <3>1, <4>1, ReleasedByPopReady
    <3>3. timer' = head'.at + latency'
      BY <3>2 DEF PopDone, head
    <3> QED BY <2>0, <2>a, <3>3 DEF Off
  <2> QED BY <2>1, <2>2
<1> QED BY <1>1, <1>2, TypeInvariant, PTL DEF Spec

----------------------------------------------------------------------------
(* Samples are whole.                                                      *)

\* Only popSample counts a sample: the other steps leave that counter alone.
LEMMA SamplesCounted ==
  ASSUME TypeInv, [Next]_vars, stats'["samples"] # stats["samples"]
  PROVE  /\ completeHead
         /\ \E gap \in Nat : popSample(gap)
<1>1. stats \in Counters
  BY DEF TypeInv, TypeOK
<1>2. \A names : "samples" \notin names => bump(stats, names)["samples"] = stats["samples"]
  BY <1>1 DEF bump, Counters, StatNames
<1>3. CASE PushAt
  <2>1. \/ stats' = bump(stats, {"pushed"})
        \/ stats' = bump(stats, {"pushed", "padding"})
    BY <1>3 DEF PushAt
  <2> QED BY <1>2, <2>1
<1>4. CASE Push
  <2>1. \/ stats' = stats
        \/ \E n \in EventNames : stats' = bump(stats, {n})
        \/ stats' = bump(stats, {"stray", "dropped"})
        \/ stats' = bump(stats, {"dropped"})
    BY <1>4
    DEF Push, FirstSSRC, SameSSRC, OtherSSRC, switchStream, AnyLine, PlayingLine, StrayLine,
        TakeOverAhead, TakeOverAnew, Restart, Expired, AtAnEnd, InsertFirst, Prepend,
        AppendTail, SearchTail, SearchHead, AppendDiscont, duplicate, reordered, leak,
        EventNames
  <2>2. /\ \A n \in EventNames : "samples" \notin {n}
        /\ "samples" \notin {"stray", "dropped"} /\ "samples" \notin {"dropped"}
    BY DEF EventNames
  <2>3. \A n \in EventNames : bump(stats, {n})["samples"] = stats["samples"]
    BY <1>2, <2>2
  <2>4. /\ bump(stats, {"stray", "dropped"})["samples"] = stats["samples"]
        /\ bump(stats, {"dropped"})["samples"] = stats["samples"]
    BY <1>2, <2>2
  <2> QED BY <2>1, <2>3, <2>4
<1>5. CASE DropExpired \/ FlushDrop
  <2> DEFINE gap == IF initialized /\ ~head.discont
                    THEN missingBetween(head.sn, prevSN) ELSE 0
  <2>1. gap \in Nat /\ stats' = countDrop(stats, gap)
    BY <1>5, GapType DEF DropExpired, FlushDrop, staleHead, dropHead
  <2> HIDE DEF gap
  <2> QED BY <1>1, <2>1, DropCounts
<1>6. CASE PopInSequence
  <2>1. 0 \in Nat /\ completeHead /\ popSample(0)
    BY <1>6 DEF PopInSequence
  <2> QED BY <2>1
<1>7. CASE PopLate
  BY <1>7, GapType DEF PopLate, completeHead
<1>8. CASE FlushPop
  <2>1. (IF inSequence THEN 0 ELSE missingBetween(head.sn, prevSN)) \in Nat
    BY <1>8, GapType DEF FlushPop, completeHead
  <2> QED BY <1>8, <2>1 DEF FlushPop
<1>9. CASE PopReady \/ DropDone \/ PopDone \/ FlushDone \/ Unlock \/ Loop \/ Close
           \/ UpdateLatency \/ Flush \/ Tick \/ UNCHANGED vars
  BY <1>9 DEF PopReady, DropDone, PopDone, FlushDone, Unlock, Loop, TimerFire, TimerLock,
              LoopExit, Close, CloseFlush, CloseStop, CloseBreak, UpdateLatency, Flush,
              Tick, vars
<1> QED BY <1>3, <1>4, <1>5, <1>6, <1>7, <1>8, <1>9 DEF Next, Holder, Pop

\* popSample hands out whole samples only: consecutive packets of one stream,
\* from one that starts a sample to the first that ends it, whether it is called
\* in sequence, after a loss or by a flush.
THEOREM SampleIntactHolds == Spec => SampleIntact
<1> DEFINE k == Len(buf) - Len(buf')
           whole == /\ k >= 1 /\ buf[1].start /\ buf[k].end
                    /\ \A j \in 1..k-1 :
                         /\ ~buf[j].end
                         /\ buf[j+1].sn = NextSN(buf[j].sn)
                         /\ buf[j+1].ssrc = buf[j].ssrc
<1>1. ASSUME TypeInv, StreamInv, [Next]_vars, stats'["samples"] > stats["samples"]
      PROVE  whole
  <2>1. completeHead /\ \E gap \in Nat : popSample(gap)
    <3>1. stats'["samples"] # stats["samples"]
      <4>1. stats["samples"] \in Nat
        BY <1>1 DEF TypeInv, TypeOK, Counters, StatNames
      <4> QED BY <1>1, <4>1
    <3> QED BY <1>1, <3>1, SamplesCounted
  <2>2. buf \in Seq(Node) /\ isComplete(buf)
    BY <1>1, <2>1 DEF TypeInv, TypeOK, completeHead
  <2>3. /\ sampleLen(buf) \in 1..Len(buf) /\ buf[sampleLen(buf)].end
        /\ \A j \in 1..sampleLen(buf) - 1 :
             ~buf[j].end /\ buf[j+1].sn = NextSN(buf[j].sn)
    BY <2>2, SampleBounds
  <2>4. Len(buf) \in Nat /\ Len(buf') = Len(buf) - sampleLen(buf)
    BY <1>1, <2>1, <2>2, PopShrinks
  <2>5. k = sampleLen(buf)
    BY <2>3, <2>4
  <2>6. \A j \in 1..sampleLen(buf) - 1 : buf[j+1].ssrc = buf[j].ssrc
    BY <1>1, <2>3, <2>4 DEF StreamInv, SingleStream
  <2>7. buf[1].start
    BY <2>2 DEF isComplete
  <2> QED BY <2>3, <2>4, <2>5, <2>6, <2>7
<1>2. TypeInv /\ StreamInv /\ [Next]_vars
        => [stats'["samples"] > stats["samples"] => whole]_vars
  BY <1>1
<1> QED BY <1>2, TypeInvariant, StreamInvariant, PTL DEF Spec, SampleIntact

----------------------------------------------------------------------------
(* Playout within one window: what is played never goes back, and no       *)
(* sequence number waits twice, as long as the numbers at hand whenever    *)
(* push links a packet are within withinRange's distance of each other.    *)

\* b is ahead of a, within the window.
follows(b, a) == Sub(b, a) \in 1..Window-1

\* The sequence numbers at hand: the buffered ones, the packet's, the last one
\* played, and the highest of the playing line.
current ==
  {buf[i].sn : i \in 1..Len(buf)} \cup {pkt.sn}
    \cup (IF initialized THEN {prevSN} ELSE {})
    \cup (IF lines.cur.ok THEN {lines.cur.high} ELSE {})

\* A packet that reaches the insertion is within one window with all of them.
InWindow == pc = "insert" => \E o \in SN : \A s \in current : Sub(s, o) < Window

\* The list is in sequence, and ahead of what was played last.
PlayInv ==
  /\ \A i, j \in 1..Len(buf) : i < j => follows(buf[j].sn, buf[i].sn)
  /\ initialized => \A i \in 1..Len(buf) : follows(buf[i].sn, prevSN)

\* The width of the numbers and of the window.
LEMMA Widths ==
  /\ SNMod \in Nat /\ Half \in Nat /\ Window \in Nat /\ Window > 200
  /\ SNMod = Half + Half /\ Half > Window + Window + Window
  /\ SN = 0..SNMod-1
  BY SMT DEF SNMod, Half, Window, SN

\* Distances are naturals, less than the width.
LEMMA SubRange ==
  ASSUME NEW a \in SN, NEW b \in SN
  PROVE  Sub(a, b) \in Nat /\ Sub(a, b) < SNMod
<1>1. Sub(a, b) \in 0..SNMod-1 /\ SNMod \in Nat
  BY ArithType, Widths
<1> QED BY <1>1

\* The distance of two numbers from their distances to a third.
LEMMA SubFrom ==
  ASSUME NEW o \in SN, NEW a \in SN, NEW b \in SN
  PROVE  Sub(a, b) = IF Sub(b, o) <= Sub(a, o) THEN Sub(a, o) - Sub(b, o)
                     ELSE SNMod - (Sub(b, o) - Sub(a, o))
<1>1. SNMod \in Nat \ {0} /\ o \in 0..SNMod-1 /\ a \in 0..SNMod-1 /\ b \in 0..SNMod-1
  BY Widths
<1>3. (a - b) % SNMod = IF (b - o) % SNMod <= (a - o) % SNMod
                        THEN ((a - o) % SNMod) - ((b - o) % SNMod)
                        ELSE SNMod - (((b - o) % SNMod) - ((a - o) % SNMod))
  BY <1>1, WrapBetween
<1> QED BY <1>3 DEF Sub

\* The distance of two numbers as they are written.
LEMMA SubIs ==
  ASSUME NEW a \in SN, NEW b \in SN
  PROVE  Sub(a, b) = IF b <= a THEN a - b ELSE (a - b) + SNMod
<1>1. ASSUME NEW N \in Nat \ {0}, NEW x \in 0..N-1, NEW y \in 0..N-1
      PROVE  (x - y) % N = IF y <= x THEN x - y ELSE (x - y) + N
  OBVIOUS
<1>2. SNMod \in Nat \ {0} /\ a \in 0..SNMod-1 /\ b \in 0..SNMod-1
  BY Widths
<1>3. (a - b) % SNMod = IF b <= a THEN a - b ELSE (a - b) + SNMod
  BY <1>1, <1>2
<1> QED BY <1>3 DEF Sub

\* Numbers are equal if their distance is none.
LEMMA SubZero ==
  ASSUME NEW a \in SN, NEW b \in SN
  PROVE  Sub(a, b) = 0 <=> a = b
<1>1. SNMod \in Nat \ {0} /\ a \in 0..SNMod-1 /\ b \in 0..SNMod-1
  BY Widths
<1> QED BY <1>1, SubIs

\* Within one window the comparisons of push are the order of the positions.
LEMMA WindowOrder ==
  ASSUME NEW o \in SN, NEW a \in SN, NEW b \in SN, Sub(a, o) < Window, Sub(b, o) < Window
  PROVE  /\ withinRange(a, b)
         /\ before(a, b) <=> Sub(a, o) <= Sub(b, o)
         /\ follows(b, a) <=> Sub(a, o) < Sub(b, o)
         /\ a = b <=> Sub(a, o) = Sub(b, o)
<1> DEFINE x == Sub(a, o)
           y == Sub(b, o)
           d == Sub(a, b)
           e == Sub(b, a)
<1>1. d = IF y <= x THEN x - y ELSE SNMod - (y - x)
  BY SubFrom
<1>2. e = IF x <= y THEN y - x ELSE SNMod - (x - y)
  BY SubFrom
<1>3. x \in Nat /\ y \in Nat /\ x < Window /\ y < Window
  BY SubRange
<1>4. a = b <=> d = 0
  BY SubZero
<1>5. /\ SNMod \in Nat /\ Half \in Nat /\ Window \in Nat
      /\ SNMod = Half + Half /\ Half > Window + Window + Window
  BY Widths
<1> HIDE DEF x, y, d, e
<1>6. d < Window \/ e < Window
  BY <1>1, <1>2, <1>3, <1>5
<1>7. e < Half <=> x <= y
  BY <1>2, <1>3, <1>5
<1>8. e \in 1..Window-1 <=> x < y
  BY <1>2, <1>3, <1>5
<1>9. d = 0 <=> x = y
  BY <1>1, <1>3, <1>5
<1>10. withinRange(a, b)
  BY <1>6 DEF d, e, withinRange
<1>11. before(a, b) <=> x <= y
  BY <1>7 DEF e, before
<1>12. follows(b, a) <=> x < y
  BY <1>8 DEF e, follows
<1> QED BY <1>4, <1>9, <1>10, <1>11, <1>12 DEF x, y

\* The numbers on a list, and what else is at hand, are uint16.
LEMMA NumbersType ==
  ASSUME TypeInv
  PROVE  /\ buf \in Seq(Node) /\ Len(buf) \in Nat /\ prevSN \in SN
         /\ \A i \in 1..Len(buf) : buf[i] \in Node /\ buf[i].sn \in SN
         /\ pc = "insert" => pkt \in Node /\ pkt.sn \in SN /\ cont = "unlock"
<1>1. buf \in Seq(Node) /\ prevSN \in SN
  BY DEF TypeInv, TypeOK
<1>2. \A i \in 1..Len(buf) : buf[i] \in Node
  BY <1>1
<1>3. \A n \in Node : n.sn \in SN
  BY DEF Node
<1>4. pc = "insert" => pkt \in Node /\ cont = "unlock"
  BY DEF TypeInv, HandOK, InHand
<1> QED BY <1>1, <1>2, <1>3, <1>4

\* A list in sequence stays so when the packet is linked where it belongs.
LEMMA LinkedInPlace ==
  ASSUME TypeInv, PlayInv, pc = "insert", ~isExpired,
         UNCHANGED <<initialized, prevSN>>,
         NEW i \in 1..Len(buf) + 1, NEW d,
         Len(buf') = Len(buf) + 1,
         \A j \in 1..Len(buf) + 1 :
           buf'[j] = IF j < i THEN buf[j] ELSE IF j = i THEN node(d) ELSE buf[j - 1],
         \A j \in 1..Len(buf) : j < i => follows(pkt.sn, buf[j].sn),
         \A j \in 1..Len(buf) : i <= j => follows(buf[j].sn, pkt.sn),
         initialized => follows(pkt.sn, prevSN)
  PROVE  PlayInv'
<1> DEFINE n == Len(buf)
           at(j) == IF j < i THEN buf[j].sn ELSE IF j = i THEN pkt.sn ELSE buf[j - 1].sn
<1>1. node(d).sn = pkt.sn
  BY NumbersType DEF node, Node
<1>2. n \in Nat /\ i \in 1..n + 1 /\ Len(buf') = n + 1
  BY NumbersType
<1>3. \A j \in 1..n + 1 : buf'[j].sn = at(j)
  BY <1>1
<1>4. \A j, k \in 1..n : j < k => follows(buf[k].sn, buf[j].sn)
  BY DEF PlayInv
<1>5. /\ \A j \in 1..n : j < i => follows(pkt.sn, buf[j].sn)
      /\ \A j \in 1..n : i <= j => follows(buf[j].sn, pkt.sn)
  OBVIOUS
<1>6. initialized => \A j \in 1..n : follows(buf[j].sn, prevSN)
  BY DEF PlayInv
<1> HIDE DEF n
<1>7. ASSUME NEW j \in 1..n + 1, NEW k \in 1..n + 1, j < k
      PROVE  follows(at(k), at(j))
  <2>1. CASE k < i
    BY <1>2, <1>4, <1>7, <2>1
  <2>2. CASE k = i
    BY <1>2, <1>5, <1>7, <2>2
  <2>3. CASE k > i
    <3>1. k - 1 \in 1..n /\ i <= k - 1 /\ at(k) = buf[k - 1].sn
      BY <1>2, <2>3
    <3>2. CASE j < i
      BY <1>2, <1>4, <3>1, <3>2
    <3>3. CASE j = i
      BY <1>5, <3>1, <3>3
    <3>4. CASE j > i
      <4>1. j - 1 \in 1..n /\ j - 1 < k - 1 /\ at(j) = buf[j - 1].sn
        BY <1>2, <1>7, <3>4
      <4> QED BY <1>4, <3>1, <4>1
    <3> QED BY <1>2, <3>2, <3>3, <3>4
  <2> QED BY <1>2, <2>1, <2>2, <2>3
<1>8. ASSUME initialized, NEW j \in 1..n + 1
      PROVE  follows(at(j), prevSN)
  <2>1. CASE j < i
    BY <1>2, <1>6, <1>8, <2>1
  <2>2. CASE j = i
    BY <1>8, <2>2
  <2>3. CASE j > i
    <3>1. j - 1 \in 1..n /\ at(j) = buf[j - 1].sn
      BY <1>2, <2>3
    <3> QED BY <1>6, <1>8, <3>1
  <2> QED BY <1>2, <2>1, <2>2, <2>3
<1> HIDE DEF at
<1>9. \A j, k \in 1..Len(buf') : j < k => follows(buf'[k].sn, buf'[j].sn)
  BY <1>2, <1>3, <1>7
<1>10. initialized' => \A j \in 1..Len(buf') : follows(buf'[j].sn, prevSN')
  BY <1>2, <1>3, <1>8
<1> QED BY <1>9, <1>10 DEF PlayInv

\* Where the nodes are when one is inserted.
LEMMA InsertsNode ==
  ASSUME NEW b \in Seq(Node), NEW i \in 1..Len(b) + 1, NEW p \in Node
  PROVE  /\ Len(InsertAt(b, i, p)) = Len(b) + 1
         /\ \A j \in 1..Len(b) + 1 :
              InsertAt(b, i, p)[j] =
                IF j < i THEN b[j] ELSE IF j = i THEN p ELSE b[j - 1]
  BY InsertAtProperties

\* Where they are when one is appended.
LEMMA AppendsNode ==
  ASSUME NEW b \in Seq(Node), NEW p \in Node
  PROVE  /\ Len(Append(b, p)) = Len(b) + 1
         /\ \A j \in 1..Len(b) : Append(b, p)[j] = b[j]
         /\ Append(b, p)[Len(b) + 1] = p
  BY AppendProperties

\* While a stream stays in sync, the nodes that are marked as a discontinuity
\* have been in the list before.
noNewDiscont ==
  initialized => \A i \in 1..Len(buf') :
    buf'[i].discont => \E j \in 1..Len(buf) : buf'[i] = buf[j]

\* Within one window push finds the place of the packet: neither a jump nor the
\* search from the head occurs, and the search from the tail stops behind the
\* last node that the packet is ahead of.  In sync it links no discontinuity.
LEMMA LinksInSequence ==
  ASSUME TypeInv, PlayInv, InWindow, Linking
  PROVE  PlayInv' /\ noNewDiscont
<1>1. pc = "insert" /\ Accepted
  BY DEF Linking, InsertFirst, Prepend, AppendTail, SearchTail, SearchHead, AppendDiscont, Accepted
<1>2. /\ buf \in Seq(Node) /\ Len(buf) \in Nat /\ prevSN \in SN
      /\ \A i \in 1..Len(buf) : buf[i] \in Node /\ buf[i].sn \in SN
      /\ pkt \in Node /\ pkt.sn \in SN
  BY <1>1, NumbersType
<1>3. UNCHANGED <<initialized, prevSN>>
  BY DEF Linking, InsertFirst, Prepend, AppendTail, SearchTail, SearchHead, AppendDiscont, stream
<1>4. PICK o \in SN : \A s \in current : Sub(s, o) < Window
  BY <1>1 DEF InWindow
<1> DEFINE P(s) == Sub(s, o)
           n == Len(buf)
<1>5. /\ P(pkt.sn) < Window
      /\ \A i \in 1..n : P(buf[i].sn) < Window
      /\ initialized => P(prevSN) < Window
  BY <1>4 DEF current
<1>6. ASSUME NEW a \in SN, NEW b \in SN, P(a) < Window, P(b) < Window
      PROVE  /\ withinRange(a, b)
             /\ before(a, b) <=> P(a) <= P(b)
             /\ follows(b, a) <=> P(a) < P(b)
             /\ a = b <=> P(a) = P(b)
  BY <1>6, WindowOrder
<1>7. P(pkt.sn) \in Nat /\ \A i \in 1..n : P(buf[i].sn) \in Nat
  BY <1>2, SubRange
<1>8. \A i, j \in 1..n : i < j => P(buf[i].sn) < P(buf[j].sn)
  BY <1>2, <1>5, <1>6 DEF PlayInv
<1>9. initialized => follows(pkt.sn, prevSN)
  <2>1. initialized => P(prevSN) \in Nat
    BY <1>2, SubRange
  <2>2. initialized => ~before(pkt.sn, prevSN)
    BY <1>1 DEF Accepted, isExpired
  <2> HIDE DEF P
  <2> QED BY <1>2, <1>5, <1>6, <1>7, <2>1, <2>2
<1>10. \A i \in 1..n : /\ withinRange(pkt.sn, buf[i].sn)
                       /\ before(pkt.sn, buf[i].sn) <=> P(pkt.sn) <= P(buf[i].sn)
                       /\ follows(pkt.sn, buf[i].sn) <=> P(buf[i].sn) < P(pkt.sn)
                       /\ follows(buf[i].sn, pkt.sn) <=> P(pkt.sn) < P(buf[i].sn)
                       /\ pkt.sn = buf[i].sn <=> P(pkt.sn) = P(buf[i].sn)
  BY <1>2, <1>5, <1>6
<1>11. ~isExpired
  BY <1>1 DEF Accepted
<1>j. initialized => ~jumps
  BY <1>2, <1>5, <1>6 DEF jumps
<1> HIDE DEF P, n
<1>14. n \in Nat
  BY <1>2 DEF n
<1>12. ASSUME NEW i \in 1..n + 1, NEW d, initialized => ~d,
              \A j \in 1..n : j < i => P(buf[j].sn) < P(pkt.sn),
              \A j \in 1..n : i <= j => P(pkt.sn) < P(buf[j].sn),
              Len(buf') = n + 1,
              \A j \in 1..n + 1 :
                buf'[j] = IF j < i THEN buf[j] ELSE IF j = i THEN node(d) ELSE buf[j - 1]
       PROVE  PlayInv' /\ noNewDiscont
  <2>1. /\ \A j \in 1..n : j < i => follows(pkt.sn, buf[j].sn)
        /\ \A j \in 1..n : i <= j => follows(buf[j].sn, pkt.sn)
    BY <1>10, <1>12
  <2>2. PlayInv'
    BY <1>1, <1>3, <1>9, <1>11, <1>12, <2>1, LinkedInPlace DEF n
  <2>3. initialized => ~node(d).discont
    BY <1>2, <1>12 DEF node, Node
  <2>4. ASSUME initialized, NEW j \in 1..n + 1, buf'[j].discont
        PROVE  \E k \in 1..n : buf'[j] = buf[k]
    <3>1. CASE j < i
      <4>1. j \in 1..n /\ buf'[j] = buf[j]
        BY <1>12, <1>14, <3>1
      <4> QED BY <4>1
    <3>2. CASE j = i
      BY <1>12, <2>3, <2>4, <3>2
    <3>3. CASE j > i
      <4>1. j - 1 \in 1..n /\ buf'[j] = buf[j - 1]
        BY <1>12, <1>14, <3>3
      <4> QED BY <4>1
    <3> QED BY <1>14, <3>1, <3>2, <3>3
  <2>5. noNewDiscont
    BY <1>12, <2>4 DEF noNewDiscont, n
  <2> QED BY <2>2, <2>5
<1>13. CASE InsertFirst
  <2>1. n = 0 /\ buf' = <<node(jumps)>>
    BY <1>13 DEF InsertFirst, link, n
  <2>2. Len(buf') = 1 /\ buf'[1] = node(jumps)
    BY <2>1
  <2>3. 1 \in 1..n + 1 /\ Len(buf') = n + 1
    BY <2>1, <2>2
  <2>4. /\ \A j \in 1..n : j < 1 => P(buf[j].sn) < P(pkt.sn)
        /\ \A j \in 1..n : 1 <= j => P(pkt.sn) < P(buf[j].sn)
        /\ \A j \in 1..n + 1 :
             buf'[j] = IF j < 1 THEN buf[j] ELSE IF j = 1 THEN node(jumps) ELSE buf[j - 1]
    BY <2>1, <2>2
  <2> QED BY <1>j, <1>12, <2>3, <2>4
<1>15. ~InsertFirst => n >= 1 /\ head = buf[1] /\ tail = buf[n]
  <2>1. ~InsertFirst => buf # <<>>
    BY DEF Linking, Prepend, AppendTail, SearchTail, SearchHead, AppendDiscont
  <2> QED BY <1>2, <2>1 DEF n, head, tail
<1>16. ~InsertFirst => pkt.sn # buf[1].sn /\ pkt.sn # buf[n].sn
  <2>1. ~InsertFirst => buf # <<>>
    BY DEF Linking, Prepend, AppendTail, SearchTail, SearchHead, AppendDiscont
  <2> QED BY <1>1, <1>15, <2>1 DEF Accepted, atAnEnd
<1>17. CASE Prepend
  <2> DEFINE p == <<node(jumps)>>
  <2>0. node(jumps) \in Node
    BY <1>2 DEF node, Node
  <2>1. buf' = p \o buf /\ p \in Seq(Node) /\ Len(p) = 1 /\ p[1] = node(jumps)
    BY <1>17, <2>0 DEF Prepend, link
  <2> HIDE DEF p
  <2>2. /\ Len(p \o buf) = Len(p) + Len(buf)
        /\ \A i \in 1..Len(p) + Len(buf) :
             (p \o buf)[i] = IF i <= Len(p) THEN p[i] ELSE buf[i - Len(p)]
    BY <1>2, <2>1, ConcatProperties
  <2>3. Len(buf') = n + 1
    BY <1>14, <2>1, <2>2 DEF n
  <2>4. \A j \in 1..n + 1 :
          buf'[j] = IF j < 1 THEN buf[j] ELSE IF j = 1 THEN node(jumps) ELSE buf[j - 1]
    BY <1>14, <2>1, <2>2 DEF n
  <2>5. ~InsertFirst
    BY <1>17 DEF Prepend, InsertFirst
  <2>6. P(pkt.sn) < P(buf[1].sn)
    <3>1. before(pkt.sn, buf[1].sn) /\ pkt.sn # buf[1].sn /\ 1 \in 1..n
      BY <1>14, <1>15, <1>16, <1>17, <2>5 DEF Prepend, beforeHead
    <3> QED BY <1>7, <1>10, <3>1
  <2>7. \A j \in 1..n : P(pkt.sn) < P(buf[j].sn)
    <3>1. \A j \in 1..n : j = 1 \/ P(buf[1].sn) < P(buf[j].sn)
      BY <1>8, <1>14
    <3>2. n # 0 => P(buf[1].sn) \in Nat
      BY <1>7, <1>14
    <3> QED BY <1>7, <1>14, <2>6, <3>1, <3>2
  <2>8. 1 \in 1..n + 1
    BY <1>14
  <2>9. /\ \A j \in 1..n : j < 1 => P(buf[j].sn) < P(pkt.sn)
        /\ \A j \in 1..n : 1 <= j => P(pkt.sn) < P(buf[j].sn)
    BY <1>14, <2>7
  <2> QED BY <1>j, <1>12, <2>3, <2>4, <2>8, <2>9
<1>18. CASE AppendTail
  <2>1. buf' = Append(buf, node(FALSE)) /\ node(FALSE) \in Node
    BY <1>2, <1>18 DEF AppendTail, link, node, Node
  <2>2. /\ Len(buf') = n + 1
        /\ \A j \in 1..n : buf'[j] = buf[j]
        /\ buf'[n + 1] = node(FALSE)
    <3> DEFINE p == node(FALSE)
    <3>1. buf' = Append(buf, p) /\ p \in Node
      BY <2>1
    <3> HIDE DEF p
    <3>2. /\ Len(Append(buf, p)) = Len(buf) + 1
          /\ \A j \in 1..Len(buf) : Append(buf, p)[j] = buf[j]
          /\ Append(buf, p)[Len(buf) + 1] = p
      BY <1>2, <3>1, AppendsNode
    <3>3. /\ Len(buf') = n + 1
          /\ \A j \in 1..n : buf'[j] = buf[j]
          /\ buf'[n + 1] = p
      BY <3>1, <3>2, Zenon DEF n
    <3> QED BY <3>3 DEF p
  <2>3. \A j \in 1..n + 1 :
          buf'[j] = IF j < n + 1 THEN buf[j] ELSE IF j = n + 1 THEN node(FALSE) ELSE buf[j - 1]
    <3>1. \A j \in 1..n + 1 : (j \in 1..n /\ j < n + 1) \/ (j = n + 1 /\ ~(j < n + 1))
      BY <1>14
    <3> QED BY <2>2, <3>1
  <2>4. ~InsertFirst
    BY <1>18 DEF AppendTail, InsertFirst
  <2>5. P(buf[n].sn) < P(pkt.sn)
    <3>1. ~before(pkt.sn, buf[n].sn) /\ n \in 1..n
      BY <1>14, <1>15, <1>18, <2>4 DEF AppendTail, afterTail
    <3> QED BY <1>7, <1>10, <3>1
  <2>6. \A j \in 1..n : P(buf[j].sn) < P(pkt.sn)
    <3>1. \A j \in 1..n : j = n \/ P(buf[j].sn) < P(buf[n].sn)
      BY <1>8, <1>14
    <3>2. n # 0 => P(buf[n].sn) \in Nat
      BY <1>7, <1>14
    <3> QED BY <1>7, <1>14, <2>5, <3>1, <3>2
  <2>7. n + 1 \in 1..n + 1 /\ \A j \in 1..n : ~(n + 1 <= j)
    BY <1>14
  <2> QED BY <1>12, <2>2, <2>3, <2>6, <2>7
<1>21. \A j \in 1..Len(buf) - 1 :
         j \notin tailStops => before(pkt.sn, buf[j].sn) /\ pkt.sn # buf[j].sn
  BY DEF tailStops
<1>19. CASE SearchTail
  <2> DEFINE i == Max(tailStops)
             p == node(~withinRange(pkt.sn, buf[i].sn))
  <2>1. buf # <<>> /\ ~beforeHead /\ ~afterTail /\ withinRange(pkt.sn, tail.sn) /\ ~InsertFirst
    BY <1>19 DEF SearchTail, InsertFirst
  <2>2. tailStops # {} /\ i \in 1..n - 1
    BY <1>2, <2>1, TailSearchStops DEF n
  <2>3. \/ buf' = buf
        \/ pkt.sn # buf[i].sn /\ buf' = InsertAt(buf, i + 1, p)
    BY <1>19, <2>2 DEF SearchTail, link, queue
  <2>4. CASE buf' = buf
    BY <1>3, <2>4 DEF PlayInv, noNewDiscont
  <2>5. CASE pkt.sn # buf[i].sn /\ buf' = InsertAt(buf, i + 1, p)
    <3>1. tailStops \in SUBSET (0..n - 1) /\ n - 1 \in Nat
      BY <1>14, <2>2 DEF tailStops, n
    <3>2. i \in tailStops /\ \A j \in tailStops : j <= i
      BY <2>2, <3>1, MaxIsGreatest
    <3>3. p \in Node
      BY <1>2 DEF node, Node
    <3>d. PICK d : p = node(d) /\ ~d
      <4>1. i \in 1..n
        BY <1>14, <2>2
      <4>2. withinRange(pkt.sn, buf[i].sn)
        BY <1>10, <4>1
      <4> QED BY <4>2
    <3> HIDE DEF i, p
    <3>4. i + 1 \in 1..n + 1 /\ i \in 1..n
      BY <1>14, <2>2
    <3>5. /\ Len(buf') = n + 1
          /\ \A j \in 1..n + 1 :
               buf'[j] = IF j < i + 1 THEN buf[j] ELSE IF j = i + 1 THEN p ELSE buf[j - 1]
      <4> DEFINE l == i + 1
      <4>1. buf \in Seq(Node) /\ l \in 1..Len(buf) + 1 /\ p \in Node
        BY <1>2, <3>3, <3>4 DEF n
      <4>2. buf' = InsertAt(buf, l, p)
        BY <2>5
      <4> HIDE DEF l
      <4>3. /\ Len(InsertAt(buf, l, p)) = Len(buf) + 1
            /\ \A j \in 1..Len(buf) + 1 :
                 InsertAt(buf, l, p)[j] =
                   IF j < l THEN buf[j] ELSE IF j = l THEN p ELSE buf[j - 1]
        BY <4>1, InsertsNode
      <4>4. /\ Len(buf') = n + 1
            /\ \A j \in 1..n + 1 :
                 buf'[j] = IF j < l THEN buf[j] ELSE IF j = l THEN p ELSE buf[j - 1]
        BY <4>2, <4>3, Zenon DEF n
      <4> QED BY <4>4 DEF l
    <3>6. P(buf[i].sn) < P(pkt.sn)
      <4>1. ~before(pkt.sn, buf[i].sn)
        BY <1>10, <2>5, <3>2, <3>4 DEF tailStops
      <4> QED BY <1>7, <1>10, <3>4, <4>1
    <3>7. \A j \in 1..n : j < i + 1 => P(buf[j].sn) < P(pkt.sn)
      <4>1. \A j \in 1..n : j < i => P(buf[j].sn) < P(buf[i].sn)
        BY <1>8, <3>4
      <4>2. P(buf[i].sn) \in Nat
        BY <1>7, <3>4
      <4>3. \A j \in 1..n : j < i + 1 => j < i \/ j = i
        BY <3>4
      <4> QED BY <1>7, <3>6, <4>1, <4>2, <4>3
    <3>8. ASSUME NEW j \in 1..n, i + 1 <= j
          PROVE  P(pkt.sn) < P(buf[j].sn)
      <4>1. before(pkt.sn, buf[j].sn) /\ pkt.sn # buf[j].sn
        <5>1. CASE j = n
          BY <1>15, <1>16, <2>1, <5>1 DEF afterTail
        <5>2. CASE j # n
          <6>1. j \in 1..Len(buf) - 1 /\ ~(j <= i)
            BY <1>14, <3>4, <3>8, <5>2 DEF n
          <6>2. j \notin tailStops
            BY <3>2, <6>1
          <6> QED BY <1>21, <6>1, <6>2
        <5> QED BY <5>1, <5>2
      <4> QED BY <1>7, <1>10, <4>1
    <3> DEFINE l == i + 1
    <3>9. l \in 1..n + 1 /\ (initialized => ~d)
      BY <3>d, <3>4
    <3>10. /\ Len(buf') = n + 1
           /\ \A j \in 1..n + 1 :
                buf'[j] = IF j < l THEN buf[j] ELSE IF j = l THEN node(d) ELSE buf[j - 1]
      BY <3>d, <3>5, Zenon
    <3>11. /\ \A j \in 1..n : j < l => P(buf[j].sn) < P(pkt.sn)
           /\ \A j \in 1..n : l <= j => P(pkt.sn) < P(buf[j].sn)
      BY <3>7, <3>8, Zenon
    <3> HIDE DEF l
    <3> QED BY <1>12, <3>9, <3>10, <3>11
  <2> QED BY <2>3, <2>4, <2>5
<1>20. CASE SearchHead \/ AppendDiscont
  <2>1. ~withinRange(pkt.sn, tail.sn) /\ ~InsertFirst
    BY <1>20 DEF SearchHead, AppendDiscont, InsertFirst
  <2>2. n \in 1..n
    BY <1>14, <1>15, <2>1
  <2> QED BY <1>10, <1>15, <2>1, <2>2
<1> QED BY <1>13, <1>17, <1>18, <1>19, <1>20 DEF Linking

\* Playing and giving up remove nodes from the head, and leave the number of the
\* last one in prevSN.
LEMMA RemovedUpTo ==
  ASSUME TypeInv, Pop
  PROVE  \/ buf' = buf /\ prevSN' = prevSN /\ initialized' = initialized
         \/ /\ prevSN' \in SN
            /\ \E k \in 1..Len(buf) :
                 /\ prevSN' = buf[k].sn
                 /\ Len(buf') = Len(buf) - k
                 /\ \A i \in 1..Len(buf) - k : buf'[i] = buf[i + k]
<1>1. /\ buf \in Seq(Node) /\ Len(buf) \in Nat
      /\ \A i \in 1..Len(buf) : buf[i].sn \in SN
  BY NumbersType
<1>2. ASSUME buf # <<>>, dropHead
      PROVE  /\ prevSN' \in SN
             /\ \E k \in 1..Len(buf) :
                  /\ prevSN' = buf[k].sn
                  /\ Len(buf') = Len(buf) - k
                  /\ \A i \in 1..Len(buf) - k : buf'[i] = buf[i + k]
  <2>1. buf' = Tail(buf) /\ prevSN' = buf[1].sn
    BY <1>2 DEF dropHead, head
  <2>2. Len(buf) >= 1 /\ 1 \in 1..Len(buf)
    BY <1>1, <1>2
  <2>3. Len(buf') = Len(buf) - 1 /\ \A i \in 1..Len(buf) - 1 : buf'[i] = buf[i + 1]
    BY <1>1, <1>2, <2>1
  <2> QED BY <1>1, <2>1, <2>2, <2>3
<1>3. ASSUME completeHead, NEW gap, popSample(gap)
      PROVE  /\ prevSN' \in SN
             /\ \E k \in 1..Len(buf) :
                  /\ prevSN' = buf[k].sn
                  /\ Len(buf') = Len(buf) - k
                  /\ \A i \in 1..Len(buf) - k : buf'[i] = buf[i + k]
  <2> DEFINE k == sampleLen(buf)
  <2>1. buf' = SubSeq(buf, k + 1, Len(buf)) /\ prevSN' = buf[k].sn
    BY <1>3 DEF popSample, rest
  <2>2. k \in 1..Len(buf)
    BY <1>1, <1>3, SampleBounds DEF completeHead
  <2> HIDE DEF k
  <2>3. k + 1 \in 1..Len(buf) + 1 /\ Len(buf) \in 0..Len(buf) /\ k + 1 - 1 <= Len(buf)
    BY <1>1, <2>2
  <2>4. /\ Len(buf') = Len(buf) - (k + 1) + 1
        /\ \A j \in 1..Len(buf) - (k + 1) + 1 : buf'[j] = buf[k + 1 + j - 1]
    BY <1>1, <2>1, <2>3, SliceProperties
  <2>5. /\ Len(buf) - (k + 1) + 1 = Len(buf) - k
        /\ \A j \in 1..Len(buf) - k : k + 1 + j - 1 = j + k
    BY <1>1, <2>2
  <2>6. Len(buf') = Len(buf) - k /\ \A j \in 1..Len(buf) - k : buf'[j] = buf[j + k]
    BY <2>4, <2>5
  <2> QED BY <1>1, <2>1, <2>2, <2>6
<1>4. CASE DropExpired \/ FlushDrop
  BY <1>2, <1>4 DEF DropExpired, FlushDrop, staleHead
<1>5. CASE PopInSequence \/ PopLate
  BY <1>3, <1>5 DEF PopInSequence, PopLate
<1>6. CASE FlushPop
  <2> DEFINE gap == IF inSequence THEN 0 ELSE missingBetween(head.sn, prevSN)
  <2>1. completeHead /\ popSample(gap)
    BY <1>6 DEF FlushPop
  <2> HIDE DEF gap
  <2> QED BY <1>3, <2>1
<1>7. CASE PopReady \/ DropDone \/ PopDone \/ FlushDone \/ Unlock
  BY <1>7 DEF PopReady, DropDone, PopDone, FlushDone, Unlock, stream, queue
<1> QED BY <1>4, <1>5, <1>6, <1>7 DEF Pop

\* What is left is ahead of what was removed.
LEMMA PopsInSequenceKept ==
  ASSUME TypeInv, PlayInv, Pop
  PROVE  PlayInv'
<1>1. CASE buf' = buf /\ prevSN' = prevSN /\ initialized' = initialized
  BY <1>1 DEF PlayInv
<1>2. ASSUME NEW k \in 1..Len(buf), prevSN' = buf[k].sn, Len(buf') = Len(buf) - k,
             \A i \in 1..Len(buf) - k : buf'[i] = buf[i + k]
      PROVE  PlayInv'
  <2> DEFINE n == Len(buf)
             m == Len(buf')
  <2>1. n \in Nat
    BY NumbersType
  <2>2. \A i, j \in 1..n : i < j => follows(buf[j].sn, buf[i].sn)
    BY DEF PlayInv
  <2>3. k \in 1..n /\ m = n - k /\ \A i \in 1..m : buf'[i] = buf[i + k]
    BY <1>2
  <2> HIDE DEF n, m
  <2>4. ASSUME NEW i \in 1..m, NEW j \in 1..m, i < j
        PROVE  follows(buf'[j].sn, buf'[i].sn)
    <3>1. i + k \in 1..n /\ j + k \in 1..n /\ i + k < j + k
      BY <2>1, <2>3, <2>4
    <3> QED BY <2>2, <2>3, <3>1
  <2>5. ASSUME NEW i \in 1..m
        PROVE  follows(buf'[i].sn, prevSN')
    <3>1. i + k \in 1..n /\ k < i + k
      BY <2>1, <2>3
    <3> QED BY <1>2, <2>2, <2>3, <3>1
  <2> QED BY <2>4, <2>5 DEF PlayInv, m
<1> QED BY <1>1, <1>2, RemovedUpTo

\* PlayInv is an invariant while the numbers at hand are in one window.
LEMMA PlayInvariant == Spec /\ []InWindow => []PlayInv
<1>1. Init => PlayInv
  BY DEF Init, PlayInv
<1>2. ASSUME TypeInv, InWindow, PlayInv, [Next]_vars
      PROVE  PlayInv'
  <2> USE DEF inputs, stream, queue
  <2>1. CASE Linking
    BY <1>2, <2>1, LinksInSequence
  <2>2. CASE Pop
    BY <1>2, <2>2, PopsInSequenceKept
  <2>3. CASE switchStream \/ Restart
    <3>1. buf = <<>> /\ buf' = buf /\ ~initialized'
      BY <1>2, <2>3 DEF switchStream, Restart, TypeInv, HandOK
    <3> QED BY <3>1 DEF PlayInv
  <2>4. CASE \/ PushAt \/ FirstSSRC \/ SameSSRC \/ OtherSSRC \/ AnyLine \/ PlayingLine
             \/ StrayLine \/ TakeOverAhead \/ TakeOverAnew \/ Expired \/ AtAnEnd
             \/ Loop \/ Close \/ UpdateLatency \/ Flush \/ Tick \/ UNCHANGED vars
    <3>1. UNCHANGED <<buf, prevSN, initialized>>
      BY <2>4 DEF PushAt, FirstSSRC, SameSSRC, OtherSSRC, AnyLine, PlayingLine, StrayLine,
                  TakeOverAhead, TakeOverAnew, Expired, AtAnEnd, Loop, TimerFire, TimerLock,
                  LoopExit, Close, CloseFlush, CloseStop, CloseBreak, UpdateLatency, Flush,
                  Tick, vars, flushThen
    <3> QED BY <1>2, <3>1 DEF PlayInv
  <2> QED BY <1>2, <2>1, <2>2, <2>3, <2>4 DEF Next, Holder, Push, Linking
<1> QED BY <1>1, <1>2, TypeInvariant, PTL DEF Spec

\* One number ahead of another is another, and is not before it.
LEMMA FollowsNotBefore ==
  ASSUME NEW a \in SN, NEW b \in SN, follows(b, a)
  PROVE  a # b /\ ~before(b, a)
<1> DEFINE d == Sub(b, a)
           e == Sub(a, b)
<1>1. e = IF Sub(b, a) <= Sub(a, a) THEN Sub(a, a) - Sub(b, a)
          ELSE SNMod - (Sub(b, a) - Sub(a, a))
  BY SubFrom
<1>2. Sub(a, a) = 0
  BY SubZero
<1>3. d \in 1..Window-1
  BY DEF follows
<1>4. a # b
  BY <1>2, <1>3
<1>5. e = IF d <= 0 THEN 0 - d ELSE SNMod - (d - 0)
  BY <1>1, <1>2
<1> HIDE DEF d, e
<1>6. ~(e < Half)
  BY <1>3, <1>5, Widths
<1> QED BY <1>4, <1>6 DEF e, before

\* No sequence number is buffered twice, however the packets are reordered,
\* repeated, played and given up, and across the wrap of the numbers, as long as
\* those at hand are within one window when a packet is linked.
THEOREM NoDuplicatesHolds == Spec /\ []InWindow => []NoDuplicates
<1>1. ASSUME TypeInv, PlayInv
      PROVE  NoDuplicates
  <2>1. Len(buf) \in Nat /\ \A i \in 1..Len(buf) : buf[i].sn \in SN
    BY <1>1, NumbersType
  <2>2. \A i, j \in 1..Len(buf) : i < j => buf[i].sn # buf[j].sn
    BY <1>1, <2>1, FollowsNotBefore DEF PlayInv
  <2>3. \A i, j \in 1..Len(buf) : i = j \/ i < j \/ j < i
    BY <2>1
  <2> QED BY <2>2, <2>3 DEF NoDuplicates
<1> QED BY <1>1, TypeInvariant, PlayInvariant, PTL

\* Under the same condition playout never goes back.
THEOREM PlayoutAdvancesHolds == Spec /\ []InWindow => PlayoutAdvances
<1> DEFINE goesOn == initialized /\ initialized' /\ prevSN' # prevSN
                       => ~before(prevSN', prevSN)
<1>1. ASSUME TypeInv, PlayInv, Next, initialized, initialized', prevSN' # prevSN
      PROVE  ~before(prevSN', prevSN)
  <2>1. Pop
    BY <1>1 DEF Next, Holder, Push, PushAt, FirstSSRC, SameSSRC, OtherSSRC, switchStream,
                AnyLine, PlayingLine, StrayLine, TakeOverAhead, TakeOverAnew, Restart,
                Expired, AtAnEnd, InsertFirst, Prepend, AppendTail, SearchTail, SearchHead,
                AppendDiscont, Loop, TimerFire, TimerLock, LoopExit, Close, CloseFlush,
                CloseStop, CloseBreak, UpdateLatency, Flush, Tick, flushThen, stream
  <2>2. \E k \in 1..Len(buf) : prevSN' = buf[k].sn
    BY <1>1, <2>1, RemovedUpTo
  <2>3. PICK k \in 1..Len(buf) : prevSN' = buf[k].sn
    BY <2>2
  <2>4. follows(buf[k].sn, prevSN) /\ buf[k].sn \in SN /\ prevSN \in SN
    BY <1>1, NumbersType DEF PlayInv
  <2> QED BY <2>3, <2>4, FollowsNotBefore
<1>2. TypeInv /\ PlayInv /\ [Next]_vars => [goesOn]_vars
  BY <1>1
<1> QED BY <1>2, TypeInvariant, PlayInvariant, PTL DEF Spec, PlayoutAdvances

----------------------------------------------------------------------------
(* What playout passes over is counted, when every packet is a sample.     *)

\* Audio: the depacketizer sees the start and the end of a sample in each packet.
PacketIsSample == \A h \in Shapes : h.start /\ h.end

\* Then no packet waits before the first is played: it is popped in the call of
\* popReady that follows its insertion, and what comes later is no discontinuity.
AudioInv ==
  /\ InHand => pkt.start /\ pkt.end
  /\ \A i \in 1..Len(buf) : buf[i].start /\ buf[i].end
  /\ initialized => \A i \in 1..Len(buf) : ~buf[i].discont
  /\ ~initialized /\ buf # <<>> => Len(buf) = 1 /\ pc \in {"ready", "drop", "pop"}

\* A packet that is a sample is complete, so that it is never given up, and it
\* is popped alone.
LEMMA SampleIsPacket ==
  ASSUME TypeInv, AudioInv, buf # <<>>
  PROVE  isComplete(buf) /\ sampleLen(buf) = 1
<1>1. Len(buf) \in Nat /\ Len(buf) >= 1
  <2>1. buf \in Seq(Node)
    BY NumbersType
  <2> QED BY <2>1
<1>2. 1 \in 1..Len(buf)
  BY <1>1
<1>3. buf[1].start /\ buf[1].end
  BY <1>2 DEF AudioInv
<1>4. isComplete(buf)
  <2>1. \A j \in 1..1-1 : FALSE
    OBVIOUS
  <2>2. closes(buf, 1)
    BY <1>3, <2>1 DEF closes
  <2> QED BY <1>2, <1>3, <2>2 DEF isComplete
<1>5. sampleLen(buf) = 1
  <2> DEFINE E == {k \in 1..Len(buf) : buf[k].end}
  <2>1. E \in SUBSET Nat /\ 1 \in E /\ \A y \in E : 1 <= y
    BY <1>1, <1>2, <1>3
  <2> HIDE DEF E
  <2>2. Min(E) \in E /\ \A y \in E : Min(E) <= y
    BY <2>1, MinIsLeast
  <2>3. Min(E) = 1
    <3>1. Min(E) \in Nat /\ 1 <= Min(E) /\ Min(E) <= 1
      BY <2>1, <2>2
    <3> QED BY <3>1
  <2> QED BY <2>3 DEF sampleLen, E
<1> QED BY <1>4, <1>5

\* AudioInv is an invariant.
LEMMA AudioInvariant ==
  ASSUME PacketIsSample
  PROVE  Spec /\ []InWindow => []AudioInv
<1>1. Init => AudioInv
  BY DEF Init, AudioInv, InHand
<1>2. ASSUME TypeInv, TypeInv', InWindow, PlayInv, AudioInv, [Next]_vars
      PROVE  AudioInv'
  <2> USE DEF inputs, stream, queue
  <2>1. /\ buf \in Seq(Node) /\ Len(buf) \in Nat
        /\ \A i \in 1..Len(buf) : buf[i] \in Node
    BY <1>2, NumbersType
  <2>2. CASE PushAt
    <3>1. \/ pc' = "ssrc" /\ pkt'.start /\ pkt'.end
          \/ pc' \in {"idle", "ready"}
      <4>1. PICK h \in Shapes :
              \/ pc' = "ssrc" /\ pkt'.start = h.start /\ pkt'.end = h.end
              \/ pc' \in {"idle", "ready"}
        BY <2>2 DEF PushAt, pushed
      <4> QED BY <4>1 DEF PacketIsSample
    <3>2. cont' = "unlock" /\ pc = "idle" /\ UNCHANGED <<buf, initialized>>
      BY <1>2, <2>2 DEF PushAt, TypeInv, HandOK
    <3>3. ~InHand' \/ (pkt'.start /\ pkt'.end)
      BY <3>1, <3>2 DEF InHand
    <3> QED BY <1>2, <3>2, <3>3 DEF AudioInv
  <2>3. CASE Linking
    <3>1. pc = "insert" /\ cont = "unlock" /\ pkt.start /\ pkt.end /\ pkt \in Node
      <4>1. pc = "insert"
        BY <2>3 DEF Linking, InsertFirst, Prepend, AppendTail, SearchTail, SearchHead,
                    AppendDiscont, Accepted
      <4> QED BY <1>2, <4>1, NumbersType DEF AudioInv, InHand
    <3>2. \A d : node(d).start /\ node(d).end
      BY <3>1 DEF node, Node
    <3>3. \A i \in 1..Len(buf') : buf'[i].start /\ buf'[i].end
      BY <1>2, <2>3, <3>2, LinkGrows DEF grownTo, AudioInv
    <3>4. initialized' = initialized /\ cont' = cont
      BY <2>3 DEF Linking, InsertFirst, Prepend, AppendTail, SearchTail, SearchHead,
                  AppendDiscont
    <3>5. initialized => \A i \in 1..Len(buf') : ~buf'[i].discont
      BY <1>2, <2>3, LinksInSequence DEF noNewDiscont, AudioInv
    <3>6. pc' \in {"idle", "ready"}
      BY <2>3 DEF Linking, InsertFirst, Prepend, AppendTail, SearchTail, SearchHead,
                  AppendDiscont, link, leak, pushed
    <3>7. ~initialized => Len(buf') = 1 /\ pc' = "ready"
      <4>1. ASSUME ~initialized
            PROVE  InsertFirst
        BY <1>2, <2>3, <3>1, <4>1
        DEF Linking, Prepend, AppendTail, SearchTail, SearchHead, AppendDiscont, AudioInv
      <4>2. ASSUME InsertFirst
            PROVE  Len(buf') = 1 /\ pc' = "ready"
        <5>1. buf' = <<node(jumps)>> /\ pushed(buf')
          BY <4>2 DEF InsertFirst, link
        <5>2. Len(buf') = 1 /\ buf' # <<>>
          BY <5>1
        <5> QED BY <5>1, <5>2 DEF pushed
      <4> QED BY <4>1, <4>2
    <3>8. ~InHand'
      BY <3>1, <3>4, <3>6 DEF InHand
    <3> QED BY <3>3, <3>4, <3>5, <3>7, <3>8 DEF AudioInv
  <2>4. CASE Pop
    <3>1. CASE buf' = buf /\ initialized' = initialized /\ ~InHand'
      <4>1. pc' \in {"ready", "drop", "pop"} \/ buf = <<>> \/ initialized
        <5>1. pc \in {"ready", "drop", "pop", "flush", "unlock"}
          BY <2>4 DEF Pop, PopReady, DropExpired, DropDone, PopInSequence, PopLate, PopDone,
                      FlushPop, FlushDrop, FlushDone, Unlock
        <5>2. CASE pc \notin {"ready", "drop", "pop"}
          BY <1>2, <5>2 DEF AudioInv
        <5>3. CASE pc \in {"ready", "drop"}
          BY <2>4, <5>3 DEF Pop, PopReady, DropExpired, DropDone, PopInSequence, PopLate,
                            PopDone, FlushPop, FlushDrop, FlushDone, Unlock
        <5>4. CASE pc = "pop"
          <6>1. ~initialized /\ buf # <<>> => completeHead /\ inSequence
            BY <1>2, SampleIsPacket DEF completeHead, inSequence
          <6> QED BY <2>4, <5>4, <6>1 DEF Pop, PopReady, DropExpired, DropDone,
                  PopInSequence, PopLate, PopDone, FlushPop, FlushDrop, FlushDone, Unlock
        <5> QED BY <5>1, <5>2, <5>3, <5>4
      <4> QED BY <1>2, <3>1, <4>1 DEF AudioInv
    <3>2. CASE PopReady \/ DropDone \/ PopDone \/ Unlock
      <4>1. ~InHand'
        BY <1>2, <3>2 DEF PopReady, DropDone, PopDone, Unlock, TypeInv, HandOK, InHand
      <4> QED BY <3>1, <3>2, <4>1 DEF PopReady, DropDone, PopDone, Unlock
    <3>3. CASE FlushDone
      <4>1. buf' = <<>> /\ initialized' = initialized /\ pkt' = pkt /\ cont' = "unlock" /\ pc' = cont
        BY <3>3 DEF FlushDone
      <4>2. InHand' => InHand
        BY <1>2, <4>1 DEF InHand, TypeInv, TypeOK
      <4>3. \A i \in 1..Len(buf') : FALSE
        BY <4>1
      <4> QED BY <1>2, <4>1, <4>2, <4>3 DEF AudioInv
    <3>4. CASE DropExpired \/ FlushDrop
      BY <1>2, <3>4, SampleIsPacket DEF DropExpired, FlushDrop, staleHead
    <3>5. CASE PopInSequence \/ PopLate \/ FlushPop
      <4>1. /\ completeHead /\ initialized' = TRUE /\ UNCHANGED <<pc, pkt, cont>>
            /\ \E gap \in Nat : popSample(gap)
        <5>1. CASE PopInSequence
          BY <5>1 DEF PopInSequence, popSample
        <5>2. CASE PopLate
          BY <1>2, <5>2, GapType DEF PopLate, completeHead, popSample
        <5>3. CASE FlushPop
          <6> DEFINE gap == IF inSequence THEN 0 ELSE missingBetween(head.sn, prevSN)
          <6>1. gap \in Nat
            BY <1>2, <5>3, GapType DEF FlushPop, completeHead
          <6>2. completeHead /\ UNCHANGED <<pc, pkt, cont>> /\ popSample(gap)
            BY <5>3 DEF FlushPop
          <6> HIDE DEF gap
          <6> QED BY <6>1, <6>2 DEF popSample
        <5> QED BY <3>5, <5>1, <5>2, <5>3
      <4>2. /\ Len(buf') = Len(buf) - 1
            /\ \A i \in 1..Len(buf') : \E j \in 1..Len(buf) : buf'[i] = buf[j]
        BY <1>2, <4>1, PopShrinks, SampleIsPacket DEF completeHead
      <4>3. initialized \/ Len(buf) = 1
        BY <1>2, <4>1 DEF AudioInv, completeHead
      <4>4. \A i \in 1..Len(buf') : ~buf'[i].discont
        <5>1. CASE initialized
          BY <1>2, <4>2, <5>1 DEF AudioInv
        <5>2. CASE Len(buf) = 1
          BY <4>2, <5>2
        <5> QED BY <4>3, <5>1, <5>2
      <4>5. InHand' = InHand
        BY <4>1 DEF InHand
      <4> QED BY <1>2, <4>1, <4>2, <4>4, <4>5 DEF AudioInv
    <3> QED BY <2>4, <3>2, <3>3, <3>4, <3>5 DEF Pop
  <2>5. CASE switchStream \/ Restart
    <3>1. buf = <<>> /\ buf' = buf /\ pkt' = pkt /\ InHand
      BY <1>2, <2>5 DEF switchStream, Restart, TypeInv, HandOK, InHand
    <3>2. \A i \in 1..Len(buf') : FALSE
      BY <3>1
    <3> QED BY <1>2, <3>1, <3>2 DEF AudioInv
  <2>6. CASE \/ FirstSSRC \/ SameSSRC \/ OtherSSRC \/ AnyLine \/ PlayingLine
             \/ TakeOverAhead \/ TakeOverAnew
    <3>1. UNCHANGED <<buf, pkt, initialized>> /\ InHand /\ pc \notin {"ready", "drop", "pop"}
      BY <2>6 DEF FirstSSRC, SameSSRC, OtherSSRC, AnyLine, PlayingLine, TakeOverAhead,
                  TakeOverAnew, flushThen, InHand
    <3> QED BY <1>2, <3>1 DEF AudioInv
  <2>7. CASE StrayLine \/ Expired \/ AtAnEnd
    <3>1. /\ UNCHANGED <<buf, initialized, cont>> /\ pc' \in {"idle", "ready"}
          /\ cont = "unlock" /\ pc \notin {"ready", "drop", "pop"}
      BY <1>2, <2>7 DEF StrayLine, Expired, AtAnEnd, pushed, TypeInv, HandOK
    <3>2. ~InHand'
      BY <3>1 DEF InHand
    <3> QED BY <1>2, <3>1, <3>2 DEF AudioInv
  <2>8. CASE Loop \/ Close \/ UpdateLatency \/ Flush \/ Tick \/ UNCHANGED vars
    <3>1. /\ UNCHANGED <<buf, initialized>> /\ (InHand' => InHand /\ pkt' = pkt)
          /\ pc \in {"ready", "drop", "pop"} => pc' = pc
      BY <1>2, <2>8 DEF Loop, TimerFire, TimerLock, LoopExit, Close, CloseFlush, CloseStop,
                  CloseBreak, UpdateLatency, Flush, Tick, vars, flushThen, InHand, TypeInv, HandOK
    <3> QED BY <1>2, <3>1 DEF AudioInv
  <2> QED BY <1>2, <2>2, <2>3, <2>4, <2>5, <2>6, <2>7, <2>8 DEF Next, Holder, Push, Linking
<1> QED BY <1>1, <1>2, TypeInvariant, PlayInvariant, PTL DEF Spec

\* The distance to the next number is one, and what is missing before a later
\* one is the distance to it, less itself.
LEMMA MissingIs ==
  ASSUME NEW a \in SN, NEW b \in SN, follows(b, a)
  PROVE  /\ missingBetween(b, a) = Sub(b, a) - 1
         /\ b = NextSN(a) => Sub(b, a) = 1
<1> DEFINE d == Sub(b, a)
<1>1. d \in SN /\ d \in Nat /\ d >= 1 /\ 1 \in SN
  BY ArithType, Widths DEF follows
<1>2. Sub(d, 1) = IF 1 <= d THEN d - 1 ELSE (d - 1) + SNMod
  <2> HIDE DEF d
  <2> QED BY <1>1, SubIs
<1>3. missingBetween(b, a) = d - 1
  BY <1>1, <1>2 DEF missingBetween
<1>4. ASSUME b = NextSN(a)
      PROVE  d = 1
  <2>1. SNMod \in Nat \ {0} /\ a \in 0..SNMod-1 /\ 1 \in Nat
    BY Widths
  <2>2. Sub(a, a) = 0
    BY SubZero
  <2>3. ((a - a) % SNMod) + 1 < SNMod
    BY <2>2, Widths DEF Sub
  <2>4. (((a + 1) % SNMod) - a) % SNMod = ((a - a) % SNMod) + 1
    BY <2>1, <2>3, WrapAdds
  <2> QED BY <1>4, <2>2, <2>4 DEF Sub, NextSN
<1> QED BY <1>3, <1>4

\* For audio the counters tell what happened to every number that playout passed
\* over: it was popped, or counted as lost, whether the gap was waited out, or
\* flushed.
THEOREM GapIsLossHolds ==
  ASSUME PacketIsSample
  PROVE  Spec /\ []InWindow => GapIsLoss
<1> DEFINE counted == initialized /\ initialized' /\ prevSN' # prevSN
                        => Sub(prevSN', prevSN) = passed(stats') - passed(stats)
<1>1. ASSUME TypeInv, PlayInv, AudioInv, Next, initialized, initialized', prevSN' # prevSN
      PROVE  Sub(prevSN', prevSN) = passed(stats') - passed(stats)
  <2>1. Pop
    BY <1>1 DEF Next, Holder, Push, PushAt, FirstSSRC, SameSSRC, OtherSSRC, switchStream,
                AnyLine, PlayingLine, StrayLine, TakeOverAhead, TakeOverAnew, Restart,
                Expired, AtAnEnd, InsertFirst, Prepend, AppendTail, SearchTail, SearchHead,
                AppendDiscont, Loop, TimerFire, TimerLock, LoopExit, Close, CloseFlush,
                CloseStop, CloseBreak, UpdateLatency, Flush, Tick, flushThen, stream
  <2>2. ~DropExpired /\ ~FlushDrop
    BY <1>1, SampleIsPacket DEF DropExpired, FlushDrop, staleHead
  <2>3. PICK gap \in Nat : /\ completeHead /\ popSample(gap)
                           /\ (inSequence /\ gap = 0) \/ gap = missingBetween(head.sn, prevSN)
    <3>1. CASE PopInSequence
      BY <3>1 DEF PopInSequence
    <3>2. CASE PopLate
      BY <1>1, <3>2, GapType DEF PopLate, completeHead
    <3>3. CASE FlushPop
      <4> DEFINE gap == IF inSequence THEN 0 ELSE missingBetween(head.sn, prevSN)
      <4>1. gap \in Nat
        BY <1>1, <3>3, GapType DEF FlushPop, completeHead
      <4>2. completeHead /\ popSample(gap)
        BY <3>3 DEF FlushPop
      <4>3. (inSequence /\ gap = 0) \/ gap = missingBetween(head.sn, prevSN)
        OBVIOUS
      <4> HIDE DEF gap
      <4> QED BY <4>1, <4>2, <4>3
    <3> QED BY <1>1, <2>1, <2>2, <3>1, <3>2, <3>3
            DEF Pop, PopReady, DropDone, PopDone, FlushDone, Unlock, stream
  <2>4. buf # <<>> /\ 1 \in 1..Len(buf) /\ head = buf[1]
    <3>1. buf \in Seq(Node) /\ buf # <<>>
      BY <1>1, <2>3, NumbersType DEF completeHead
    <3> QED BY <3>1 DEF head
  <2>5. sampleLen(buf) = 1
    BY <1>1, <2>4, SampleIsPacket
  <2>6. prevSN' = head.sn /\ stats' = countSample(stats, gap, 1)
    BY <2>3, <2>4, <2>5 DEF popSample
  <2>7. head.sn \in SN /\ prevSN \in SN /\ follows(head.sn, prevSN) /\ ~head.discont
    BY <1>1, <2>4, NumbersType DEF PlayInv, AudioInv
  <2>8. Sub(head.sn, prevSN) = gap + 1
    <3>1. /\ missingBetween(head.sn, prevSN) = Sub(head.sn, prevSN) - 1
          /\ head.sn = NextSN(prevSN) => Sub(head.sn, prevSN) = 1
      BY <2>7, MissingIs
    <3>2. Sub(head.sn, prevSN) \in Nat
      BY <2>7, SubRange
    <3>3. inSequence => head.sn = NextSN(prevSN)
      BY <1>1, <2>7 DEF inSequence
    <3> QED BY <2>3, <3>1, <3>2, <3>3
  <2>9. passed(stats') = passed(stats) + gap + 1
    <3>1. stats \in Counters
      BY <1>1 DEF TypeInv, TypeOK
    <3>2. /\ stats'["popped"] = stats["popped"] + 1
          /\ stats'["dropped"] = stats["dropped"]
          /\ stats'["lost"] = stats["lost"] + gap
      BY <2>6, <3>1 DEF countSample, Counters, StatNames
    <3>3. stats["popped"] \in Nat /\ stats["dropped"] \in Nat /\ stats["lost"] \in Nat
      BY <3>1 DEF Counters, StatNames
    <3>4. /\ passed(stats) = stats["popped"] + stats["dropped"] + stats["lost"]
          /\ passed(stats') = stats'["popped"] + stats'["dropped"] + stats'["lost"]
      BY DEF passed
    <3>5. PICK x \in Nat, y \in Nat, z \in Nat :
            x = stats["popped"] /\ y = stats["dropped"] /\ z = stats["lost"]
      BY <3>3
    <3>6. passed(stats') = (x + 1) + y + (z + gap) /\ passed(stats) = x + y + z
      BY <3>2, <3>4, <3>5
    <3>7. PICK m \in Nat, q \in Nat : m = passed(stats) /\ q = passed(stats')
      BY <3>5, <3>6
    <3>8. q = m + gap + 1
      BY <3>5, <3>6, <3>7
    <3> QED BY <3>7, <3>8
  <2>10. passed(stats) \in Nat
    <3>1. stats["popped"] \in Nat /\ stats["dropped"] \in Nat /\ stats["lost"] \in Nat
      BY <1>1 DEF TypeInv, TypeOK, Counters, StatNames
    <3>2. passed(stats) = stats["popped"] + stats["dropped"] + stats["lost"]
      BY DEF passed
    <3> QED BY <3>1, <3>2
  <2>11. passed(stats') - passed(stats) = gap + 1
    <3> DEFINE p == passed(stats)
               q == passed(stats')
    <3>1. p \in Nat /\ q = p + gap + 1
      BY <2>9, <2>10
    <3> HIDE DEF p, q
    <3>2. q - p = gap + 1
      BY <3>1
    <3> QED BY <3>2 DEF p, q
  <2> QED BY <2>6, <2>8, <2>11
<1>2. TypeInv /\ PlayInv /\ AudioInv /\ [Next]_vars => [counted]_vars
  BY <1>1
<1> QED BY <1>2, TypeInvariant, PlayInvariant, AudioInvariant, PTL DEF Spec, GapIsLoss

----------------------------------------------------------------------------
(* Playout behind the playing line.                                        *)

\* b is a itself or ahead of it, within the window.
atOrBefore(a, b) == Sub(b, a) < Window

restarting == pc = "restart" \/ cont = "restart"

\* With restart detection the playing line is at or ahead of all that is
\* buffered and of what was played last, but for the time in which a line that
\* has taken over waits for the flush; and a packet that its line let in is at
\* or before the highest number of that line.
LineInv ==
  DetectRestarts =>
    /\ ~restarting =>
         /\ \A i \in 1..Len(buf) : lines.cur.ok /\ atOrBefore(buf[i].sn, lines.cur.high)
         /\ initialized => lines.cur.ok /\ atOrBefore(prevSN, lines.cur.high)
    /\ restarting \/ pc = "insert" =>
         lines.cur.ok /\ atOrBefore(pkt.sn, lines.cur.high)

\* Distances add up, within one turn.
LEMMA SubAdds ==
  ASSUME NEW a \in SN, NEW b \in SN, NEW c \in SN, Sub(a, b) + Sub(b, c) < SNMod
  PROVE  Sub(a, c) = Sub(a, b) + Sub(b, c)
<1> DEFINE x == Sub(a, b)
           y == Sub(b, c)
           z == Sub(a, c)
<1>1. x = IF y <= z THEN z - y ELSE SNMod - (y - z)
  BY SubFrom
<1>2. x \in Nat /\ y \in Nat /\ z \in Nat /\ SNMod \in Nat /\ x + y < SNMod
  BY SubRange, Widths
<1> HIDE DEF x, y, z
<1>3. z = x + y
  BY <1>1, <1>2
<1> QED BY <1>3 DEF x, y, z

\* A number that was at or before the line still is when the line has moved
\* ahead, if they are within one window.
LEMMA MovedOn ==
  ASSUME NEW o \in SN, NEW s \in SN, NEW h \in SN, NEW g \in SN,
         Sub(s, o) < Window, Sub(g, o) < Window,
         atOrBefore(s, h), Sub(g, h) < Half + Window
  PROVE  atOrBefore(s, g)
<1> DEFINE x == Sub(g, h)
           y == Sub(h, s)
           z == Sub(g, s)
           w == Sub(s, g)
<1>1. /\ SNMod \in Nat /\ Half \in Nat /\ Window \in Nat
      /\ SNMod = Half + Half /\ Half > Window + Window + Window
  BY Widths
<1>2. x \in Nat /\ y \in Nat /\ z \in Nat /\ w \in Nat
  BY SubRange
<1>3. x < Half + Window /\ y < Window
  BY DEF atOrBefore
<1>4. x + y < SNMod => z = x + y
  BY SubAdds
<1>5. z < Window \/ w < Window
  BY WindowOrder DEF withinRange
<1>6. w = IF z <= Sub(s, s) THEN Sub(s, s) - z ELSE SNMod - (z - Sub(s, s))
  BY SubFrom
<1>7. Sub(s, s) = 0
  BY SubZero
<1> HIDE DEF x, y, z, w
<1>8. w = IF z <= 0 THEN 0 - z ELSE SNMod - z
  BY <1>1, <1>2, <1>6, <1>7
<1>9. z = x + y /\ z < Half + Window + Window
  BY <1>1, <1>2, <1>3, <1>4
<1>10. z < Window
  BY <1>1, <1>2, <1>5, <1>8, <1>9
<1> QED BY <1>10 DEF z, atOrBefore

\* A line is at or ahead of the packet it was extended with, if the packet fits
\* it or begins it.
LEMMA AddLeads ==
  ASSUME NEW l \in SeqLine, NEW sn \in SN, NEW t, ~l.ok \/ fits(l, sn)
  PROVE  /\ add(l, sn, t).ok /\ add(l, sn, t).high \in SN
         /\ atOrBefore(sn, add(l, sn, t).high)
         /\ add(l, sn, t).high = l.high \/ add(l, sn, t).high = sn
         /\ l.ok => add(l, sn, t).high = l.high
                    \/ (add(l, sn, t).high = sn /\ Sub(sn, l.high) < Half)
<1>1. l.high \in SN
  BY DEF SeqLine
<1>2. add(l, sn, t).ok /\ add(l, sn, t).high = IF ~l.ok \/ before(l.high, sn) THEN sn ELSE l.high
  BY DEF add
<1>3. CASE ~l.ok \/ before(l.high, sn)
  <2>1. Sub(sn, sn) = 0
    BY SubZero
  <2>2. Sub(sn, sn) < Window
    BY <2>1, Widths
  <2> QED BY <1>2, <1>3, <2>2 DEF atOrBefore, before
<1>4. CASE l.ok /\ ~before(l.high, sn)
  <2>1. ~(Sub(sn, l.high) < Half)
    BY <1>4 DEF before
  <2>2. Sub(sn, l.high) <= LineAhead \/ Sub(l.high, sn) <= LineBehind
    BY <1>4 DEF fits
  <2>3. LineAhead < Half /\ LineBehind < Window
    BY SMT DEF LineAhead, LineBehind, Half, Window
  <2>4. /\ Sub(sn, l.high) \in Nat /\ Sub(l.high, sn) \in Nat
        /\ LineAhead \in Nat /\ LineBehind \in Nat /\ Half \in Nat /\ Window \in Nat
    BY <1>1, SubRange, Widths DEF LineAhead, LineBehind
  <2>5. Sub(l.high, sn) < Window
    BY <2>1, <2>2, <2>3, <2>4
  <2> QED BY <1>1, <1>2, <1>4, <2>5 DEF atOrBefore
<1> QED BY <1>3, <1>4

\* The line that takes over is at or ahead of its packet.
LEMMA AltLeads ==
  ASSUME TypeInv, pc = "line"
  PROVE  /\ alt.ok /\ alt.high \in SN /\ atOrBefore(pkt.sn, alt.high)
         /\ takenOver(lines, alt, pkt.at).cur.ok
         /\ takenOver(lines, alt, pkt.at).cur.high = alt.high
<1>1. lines.alt \in SeqLine /\ NoLine \in SeqLine /\ pkt.sn \in SN
  <2>1. lines \in LineVote /\ pkt \in Node
    BY DEF TypeInv, TypeOK, HandOK, InHand
  <2> QED BY <2>1, NoLinesType DEF LineVote, Node
<1>2. /\ alt.ok /\ alt.high \in SN /\ atOrBefore(pkt.sn, alt.high)
  <2> DEFINE l == IF fits(lines.alt, pkt.sn) THEN lines.alt ELSE NoLine
  <2>1. l \in SeqLine /\ (~l.ok \/ fits(l, pkt.sn)) /\ alt = add(l, pkt.sn, pkt.at)
    BY <1>1 DEF NoLine, alt, altWith
  <2> HIDE DEF l
  <2> QED BY <1>1, <2>1, AddLeads
<1>3. forget(alt, pkt.at).ok = alt.ok /\ forget(alt, pkt.at).high = alt.high
  <2>1. alt = [ok |-> alt.ok, high |-> alt.high, first |-> alt.first,
               lastAt |-> alt.lastAt, at |-> alt.at]
    BY DEF alt, altWith, add
  <2> QED BY <2>1 DEF forget
<1> QED BY <1>2, <1>3 DEF takenOver

\* What the playing line leads stays led when it is extended, or when another
\* takes over from close ahead.
LEMMA LedByNext ==
  ASSUME TypeInv, LineInv, DetectRestarts, ~restarting, InWindow', pc' = "insert",
         UNCHANGED <<buf, prevSN, initialized, pkt, cont>>, pc = "line",
         lines' \in LineVote, lines'.cur.ok,
         atOrBefore(pkt.sn, lines'.cur.high),
         lines.cur.ok => Sub(lines'.cur.high, lines.cur.high) < Half + Window
  PROVE  LineInv'
<1>1. PICK o \in SN : \A s \in current' : Sub(s, o) < Window
  BY DEF InWindow
<1> DEFINE g == lines'.cur.high
           h == lines.cur.high
<1>2. /\ Len(buf) \in Nat /\ prevSN \in SN /\ \A i \in 1..Len(buf) : buf[i].sn \in SN
      /\ h \in SN /\ g \in SN
  <2>1. lines \in LineVote /\ lines' \in LineVote
    BY DEF TypeInv, TypeOK
  <2>2. h \in SN /\ g \in SN
    BY <2>1 DEF LineVote, SeqLine
  <2> QED BY <2>2, NumbersType
<1>3. /\ Sub(g, o) < Window
      /\ \A i \in 1..Len(buf) : Sub(buf[i].sn, o) < Window
      /\ initialized => Sub(prevSN, o) < Window
  BY <1>1 DEF current
<1>4. lines.cur.ok => Sub(g, h) < Half + Window
  OBVIOUS
<1> HIDE DEF g, h
<1>5. ASSUME NEW i \in 1..Len(buf)
      PROVE  atOrBefore(buf[i].sn, g)
  <2>1. lines.cur.ok /\ atOrBefore(buf[i].sn, h)
    BY DEF LineInv, h
  <2> QED BY <1>2, <1>3, <1>4, <2>1, MovedOn
<1>6. ASSUME initialized
      PROVE  atOrBefore(prevSN, g)
  <2>1. lines.cur.ok /\ atOrBefore(prevSN, h)
    BY <1>6 DEF LineInv, h
  <2> QED BY <1>2, <1>3, <1>4, <1>6, <2>1, MovedOn
<1> QED BY <1>5, <1>6 DEF LineInv, g

\* LineInv is an invariant while the numbers at hand are in one window.
LEMMA LineInvariant == Spec /\ []InWindow => []LineInv
<1>1. Init => LineInv
  BY DEF Init, LineInv, restarting
<1>2. ASSUME TypeInv, TypeInv', InWindow', LineInv, [Next]_vars, DetectRestarts
      PROVE  LineInv'
  <2> USE DEF inputs, stream, queue
  <2>1. /\ Len(buf) \in Nat /\ lines \in LineVote /\ lines' \in LineVote
        /\ lines.cur \in SeqLine /\ lines.cur.high \in SN
    <3>1. lines \in LineVote /\ lines' \in LineVote
      BY <1>2 DEF TypeInv, TypeOK
    <3> QED BY <1>2, <3>1, NumbersType DEF LineVote, SeqLine
  <2>2. CASE PlayingLine
    <3> DEFINE c == add(lines.cur, pkt.sn, pkt.at)
    <3>1. /\ lines'.cur = c /\ pc = "line" /\ pc' = "insert" /\ plays(lines, pkt.sn)
          /\ UNCHANGED <<buf, prevSN, initialized, pkt, cont>>
      BY <2>1, <2>2 DEF PlayingLine, LineVote
    <3>2. pkt.sn \in SN
      BY <1>2, <3>1 DEF TypeInv, HandOK, InHand, Node
    <3>3. ~lines.cur.ok \/ fits(lines.cur, pkt.sn)
      BY <3>1 DEF plays
    <3>4. /\ c.ok /\ c.high \in SN /\ atOrBefore(pkt.sn, c.high)
          /\ lines.cur.ok => c.high = lines.cur.high
                             \/ (c.high = pkt.sn /\ Sub(pkt.sn, lines.cur.high) < Half)
      BY <2>1, <3>2, <3>3, AddLeads
    <3> HIDE DEF c
    <3>5. lines.cur.ok => Sub(c.high, lines.cur.high) < Half + Window
      <4>1. Sub(lines.cur.high, lines.cur.high) = 0
        BY <2>1, SubZero
      <4>2. Sub(pkt.sn, lines.cur.high) \in Nat /\ Half \in Nat /\ Window \in Nat /\ Window > 200
        BY <2>1, <3>2, SubRange, Widths
      <4>3. Sub(c.high, lines.cur.high) = 0 \/ Sub(pkt.sn, lines.cur.high) < Half \/ ~lines.cur.ok
        BY <3>4, <4>1
      <4>4. CASE c.high = lines.cur.high
        BY <4>1, <4>2, <4>4
      <4>5. CASE c.high = pkt.sn /\ Sub(pkt.sn, lines.cur.high) < Half
        BY <4>2, <4>5
      <4> QED BY <3>4, <4>4, <4>5
    <3>6. ~restarting
      BY <1>2, <3>1 DEF restarting, TypeInv, HandOK
    <3> QED BY <1>2, <2>1, <3>1, <3>4, <3>5, <3>6, LedByNext
  <2>3. CASE TakeOverAhead
    <3>1. /\ lines' = takenOver(lines, alt, pkt.at) /\ pc = "line" /\ pc' = "insert"
          /\ aheadOf(lines, pkt.sn)
          /\ UNCHANGED <<buf, prevSN, initialized, pkt, cont>>
      BY <2>3 DEF TakeOverAhead
    <3>2. /\ lines'.cur.ok /\ lines'.cur.high = alt.high /\ alt.high \in SN
          /\ atOrBefore(pkt.sn, alt.high)
      BY <1>2, <3>1, AltLeads
    <3>3. pkt.sn \in SN
      BY <1>2, <3>1 DEF TypeInv, HandOK, InHand, Node
    <3>4. Sub(alt.high, lines.cur.high) < Half + Window
      <4> DEFINE x == Sub(alt.high, pkt.sn)
                 y == Sub(pkt.sn, lines.cur.high)
      <4>1. x < Window /\ y < Half
        BY <3>1, <3>2 DEF atOrBefore, aheadOf, before
      <4>2. x \in Nat /\ y \in Nat
        BY <2>1, <3>2, <3>3, SubRange
      <4>3. x + y < SNMod => Sub(alt.high, lines.cur.high) = x + y
        BY <2>1, <3>2, <3>3, SubAdds
      <4> HIDE DEF x, y
      <4>4. x + y < SNMod /\ x + y < Half + Window
        BY <4>1, <4>2, Widths
      <4> QED BY <4>3, <4>4
    <3>5. ~restarting
      BY <1>2, <3>1 DEF restarting, TypeInv, HandOK
    <3> QED BY <1>2, <2>1, <3>1, <3>2, <3>4, <3>5, LedByNext
  <2>4. CASE TakeOverAnew
    <3>1. /\ lines' = takenOver(lines, alt, pkt.at) /\ pc = "line" /\ pc' = "flush"
          /\ cont' = "restart" /\ pkt' = pkt
      BY <2>4 DEF TakeOverAnew, flushThen
    <3>2. lines'.cur.ok /\ lines'.cur.high = alt.high /\ atOrBefore(pkt.sn, alt.high)
      BY <1>2, <3>1, AltLeads
    <3> QED BY <3>1, <3>2 DEF LineInv, restarting
  <2>5. CASE switchStream \/ Restart
    <3>1. buf' = <<>> /\ ~initialized' /\ pkt' = pkt /\ cont' = cont /\ cont = "unlock"
      BY <1>2, <2>5 DEF switchStream, Restart, TypeInv, HandOK
    <3>2. \A i \in 1..Len(buf') : FALSE
      BY <3>1
    <3>3. CASE switchStream
      <4>1. pc' = "line"
        BY <3>3 DEF switchStream
      <4> QED BY <3>1, <3>2, <4>1 DEF LineInv, restarting
    <3>4. CASE Restart
      <4>1. pc = "restart" /\ pc' = "insert" /\ lines' = lines
        BY <3>4 DEF Restart
      <4> QED BY <1>2, <3>1, <3>2, <4>1 DEF LineInv, restarting
    <3> QED BY <2>5, <3>3, <3>4
  <2>6. CASE StrayLine
    <3>1. /\ lines' = strayed(lines, alt, pkt.at) /\ pc' \in {"idle", "ready"} /\ pc = "line"
          /\ UNCHANGED <<buf, prevSN, initialized, cont>>
      BY <2>6 DEF StrayLine, pushed
    <3>2. lines'.cur.ok = lines.cur.ok /\ lines'.cur.high = lines.cur.high
      <4>1. lines'.cur \in {lines.cur, forget(lines.cur, pkt.at)}
        BY <3>1 DEF strayed
      <4>2. /\ forget(lines.cur, pkt.at).ok = lines.cur.ok
            /\ forget(lines.cur, pkt.at).high = lines.cur.high
        BY <2>1 DEF forget, SeqLine
      <4> QED BY <4>1, <4>2
    <3>3. cont = "unlock"
      BY <1>2, <3>1 DEF TypeInv, HandOK
    <3> QED BY <1>2, <3>1, <3>2, <3>3 DEF LineInv, restarting
  <2>7. CASE Linking
    <3>1. /\ pc = "insert" /\ cont = "unlock" /\ pkt \in Node
          /\ UNCHANGED <<lines, prevSN, initialized, cont>> /\ pc' \in {"idle", "ready"}
      <4>1. /\ pc = "insert" /\ UNCHANGED <<lines, prevSN, initialized, cont>>
            /\ pc' \in {"idle", "ready"}
        BY <2>7 DEF Linking, InsertFirst, Prepend, AppendTail, SearchTail, SearchHead,
                    AppendDiscont, Accepted, link, leak, pushed
      <4> QED BY <1>2, <4>1, NumbersType
    <3>2. /\ \A i \in 1..Len(buf) : lines.cur.ok /\ atOrBefore(buf[i].sn, lines.cur.high)
          /\ initialized => lines.cur.ok /\ atOrBefore(prevSN, lines.cur.high)
          /\ lines.cur.ok /\ atOrBefore(pkt.sn, lines.cur.high)
      BY <1>2, <3>1 DEF LineInv, restarting
    <3>3. \A d : node(d).sn = pkt.sn
      BY <3>1 DEF node, Node
    <3>4. \A i \in 1..Len(buf') : lines.cur.ok /\ atOrBefore(buf'[i].sn, lines.cur.high)
      BY <1>2, <2>7, <3>2, <3>3, LinkGrows DEF grownTo
    <3> QED BY <3>1, <3>2, <3>4 DEF LineInv, restarting
  <2>8. CASE FlushDone
    <3>1. /\ buf = <<>> /\ pc = "flush" /\ pc' = cont /\ cont' = "unlock"
          /\ UNCHANGED <<buf, lines, prevSN, initialized, pkt>>
      BY <2>8 DEF FlushDone
    <3>2. restarting' = restarting /\ pc' # "insert"
      BY <1>2, <3>1 DEF restarting, TypeInv, TypeOK
    <3> QED BY <1>2, <3>1, <3>2 DEF LineInv
  <2>9. CASE Pop /\ ~FlushDone
    <3>1. UNCHANGED <<lines, pkt, cont>> /\ pc # "insert" /\ pc' # "insert" /\ pc # "restart" /\ pc' # "restart"
      BY <2>9 DEF Pop, PopReady, DropExpired, DropDone, PopInSequence, PopLate, PopDone,
                  FlushPop, FlushDrop, Unlock
    <3>2. restarting' = restarting
      BY <3>1 DEF restarting
    <3>3. CASE restarting
      BY <1>2, <3>1, <3>2, <3>3 DEF LineInv
    <3>4. CASE ~restarting
      <4>1. /\ \A i \in 1..Len(buf) : lines.cur.ok /\ atOrBefore(buf[i].sn, lines.cur.high)
            /\ initialized => lines.cur.ok /\ atOrBefore(prevSN, lines.cur.high)
        BY <1>2, <3>4 DEF LineInv
      <4>2. CASE buf' = buf /\ prevSN' = prevSN /\ initialized' = initialized
        BY <1>2, <3>1, <3>2, <3>4, <4>2 DEF LineInv
      <4>3. ASSUME NEW k \in 1..Len(buf), prevSN' = buf[k].sn, Len(buf') = Len(buf) - k,
                   \A i \in 1..Len(buf) - k : buf'[i] = buf[i + k]
            PROVE  LineInv'
        <5>1. \A i \in 1..Len(buf') : i + k \in 1..Len(buf) /\ buf'[i] = buf[i + k]
          BY <2>1, <4>3
        <5>2. \A i \in 1..Len(buf') : lines.cur.ok /\ atOrBefore(buf'[i].sn, lines.cur.high)
          BY <4>1, <5>1
        <5>3. lines.cur.ok /\ atOrBefore(prevSN', lines.cur.high)
          BY <4>1, <4>3
        <5> QED BY <3>1, <3>2, <3>4, <5>2, <5>3 DEF LineInv
      <4> QED BY <1>2, <2>9, <4>2, <4>3, RemovedUpTo
    <3> QED BY <3>3, <3>4
  <2>10. CASE \/ PushAt \/ FirstSSRC \/ SameSSRC \/ OtherSSRC \/ Expired \/ AtAnEnd
              \/ Loop \/ Close \/ UpdateLatency \/ Flush \/ Tick
    <3>1. UNCHANGED <<buf, prevSN, initialized, lines>>
      BY <2>10 DEF PushAt, FirstSSRC, SameSSRC, OtherSSRC, Expired, AtAnEnd, Loop, TimerFire,
                   TimerLock, LoopExit, Close, CloseFlush, CloseStop, CloseBreak,
                   UpdateLatency, Flush, Tick, flushThen
    <3>2. \/ UNCHANGED <<pc, pkt, cont>>
          \/ ~restarting /\ ~restarting' /\ pc' # "insert"
      BY <1>2, <2>10
      DEF PushAt, FirstSSRC, SameSSRC, OtherSSRC, Expired, AtAnEnd, Loop, TimerFire, TimerLock,
          LoopExit, Close, CloseFlush, CloseStop, CloseBreak, UpdateLatency, Flush, Tick,
          flushThen, pushed, restarting, TypeInv, HandOK
    <3>3. CASE UNCHANGED <<pc, pkt, cont>>
      BY <1>2, <3>1, <3>3 DEF LineInv, restarting
    <3>4. CASE ~restarting /\ ~restarting' /\ pc' # "insert"
      BY <1>2, <3>1, <3>4 DEF LineInv
    <3> QED BY <3>2, <3>3, <3>4
  <2>11. CASE UNCHANGED vars
    BY <1>2, <2>11 DEF LineInv, restarting, vars
  <2>12. ~AnyLine
    BY <1>2 DEF AnyLine
  <2> QED BY <1>2, <2>2, <2>3, <2>4, <2>5, <2>6, <2>7, <2>8, <2>9, <2>10, <2>11, <2>12
          DEF Next, Holder, Push, Linking
<1>3. TypeInv /\ TypeInv' /\ InWindow' /\ LineInv /\ [Next]_vars => LineInv'
  <2>1. ~DetectRestarts => LineInv'
    BY DEF LineInv
  <2> QED BY <1>2, <2>1
<1> QED BY <1>1, <1>3, TypeInvariant, PTL DEF Spec

\* With restart detection playout is never ahead of the playing line, whichever
\* lines take over, as long as the numbers at hand are within one window when a
\* packet is linked.
THEOREM LineLeadsPlayoutHolds == Spec /\ []InWindow => []LineLeadsPlayout
<1>1. ASSUME TypeInv, LineInv
      PROVE  LineLeadsPlayout
  <2>1. ASSUME DetectRestarts, initialized, pc \in {"idle", "line"}
        PROVE  lines.cur.ok /\ before(prevSN, lines.cur.high)
    <3>1. ~restarting
      BY <1>1, <2>1 DEF restarting, TypeInv, HandOK
    <3>2. lines.cur.ok /\ Sub(lines.cur.high, prevSN) < Window
      BY <1>1, <2>1, <3>1 DEF LineInv, atOrBefore
    <3>3. Sub(lines.cur.high, prevSN) \in Nat
      <4>1. lines.cur.high \in SN /\ prevSN \in SN
        BY <1>1 DEF TypeInv, TypeOK, LineVote, SeqLine
      <4> QED BY <4>1, SubRange
    <3> QED BY <3>2, <3>3, Widths DEF before
  <2> QED BY <2>1 DEF LineLeadsPlayout
<1> QED BY <1>1, TypeInvariant, LineInvariant, PTL

\* The packet with which a line takes over as a gap in the playing one is not
\* then dropped as expired: it is ahead of the playing line, hence of playout.
THEOREM TakeoverPlaysHolds == Spec /\ []InWindow => TakeoverPlays
<1>1. ASSUME TypeInv, LineInv, TakeOverAhead
      PROVE  ~isExpired
  <2>1. SUFFICES ASSUME initialized
                 PROVE  ~before(pkt.sn, prevSN)
    BY DEF isExpired
  <2>2. /\ pc = "line" /\ DetectRestarts /\ ~plays(lines, pkt.sn)
        /\ before(lines.cur.high, pkt.sn) /\ withinRange(pkt.sn, lines.cur.high)
    BY <1>1 DEF TakeOverAhead, aheadOf
  <2>3. ~restarting
    BY <1>1, <2>2 DEF restarting, TypeInv, HandOK
  <2>4. lines.cur.ok /\ Sub(lines.cur.high, prevSN) < Window
    BY <1>1, <2>1, <2>2, <2>3 DEF LineInv, atOrBefore
  <2>5. lines.cur.high \in SN /\ prevSN \in SN /\ pkt.sn \in SN
    BY <1>1, <2>2 DEF TypeInv, TypeOK, HandOK, InHand, LineVote, SeqLine, Node
  <2> DEFINE h == lines.cur.high
             x == Sub(pkt.sn, h)
             y == Sub(h, prevSN)
             z == Sub(pkt.sn, prevSN)
             w == Sub(prevSN, pkt.sn)
             v == Sub(h, pkt.sn)
  <2>6. x # 0
    <3>1. ASSUME x = 0
          PROVE  plays(lines, pkt.sn)
      <4>1. fits(lines.cur, pkt.sn)
        BY <2>4, <3>1 DEF fits, LineAhead
      <4>2. lines.alt.high \in SN
        BY <1>1 DEF TypeInv, TypeOK, LineVote, SeqLine
      <4>3. Sub(pkt.sn, lines.alt.high) \in Nat
        BY <2>5, <4>2, SubRange
      <4>4. ~continues(lines.alt, pkt.sn, h)
        BY <3>1, <4>3 DEF continues
      <4> QED BY <4>1, <4>4 DEF plays
    <3> QED BY <2>2, <3>1
  <2>7. x \in Nat /\ y \in Nat /\ z \in Nat /\ w \in Nat /\ y < Window /\ x < Half
    BY <2>2, <2>4, <2>5, SubRange DEF before
  <2>8. x + y < SNMod => z = x + y
    BY <2>5, SubAdds
  <2>9. w = IF z <= Sub(prevSN, prevSN) THEN Sub(prevSN, prevSN) - z
            ELSE SNMod - (z - Sub(prevSN, prevSN))
    BY <2>5, SubFrom
  <2>10. v = IF x <= Sub(h, h) THEN Sub(h, h) - x ELSE SNMod - (x - Sub(h, h))
    BY <2>5, SubFrom
  <2>11. Sub(prevSN, prevSN) = 0 /\ Sub(h, h) = 0
    BY <2>5, SubZero
  <2>12. x < Window \/ v < Window
    BY <2>2 DEF withinRange
  <2> HIDE DEF x, y, z, w, v, h
  <2>13. /\ SNMod \in Nat /\ Half \in Nat /\ Window \in Nat
         /\ SNMod = Half + Half /\ Half > Window + Window + Window
    BY Widths
  <2>14. v = SNMod - x
    BY <2>6, <2>7, <2>10, <2>11, <2>13
  <2>15. x < Window
    BY <2>7, <2>12, <2>13, <2>14
  <2>16. z = x + y /\ z < Window + Window /\ z # 0
    BY <2>6, <2>7, <2>8, <2>13, <2>15
  <2>17. w = SNMod - z
    BY <2>7, <2>9, <2>11, <2>13, <2>16
  <2>18. ~(w < Half)
    BY <2>7, <2>13, <2>16, <2>17
  <2>19. ~(Sub(prevSN, pkt.sn) < Half) => ~before(pkt.sn, prevSN)
    BY Zenon DEF before
  <2> QED BY <2>18, <2>19 DEF w
<1>2. TypeInv /\ LineInv /\ [Next]_vars => [TakeOverAhead => ~isExpired]_vars
  BY <1>1
<1> QED BY <1>2, TypeInvariant, LineInvariant, PTL DEF Spec, TakeoverPlays

----------------------------------------------------------------------------
(* The handler behind the mux.                                             *)

\* Whatever the mux, the feeder and the owner of the handler do, the buffer
\* takes its own steps: jitterHandler calls it only through its methods.
THEOREM HandlerRunsBuffer == HandlerSpec => Spec
<1>1. HandlerInit => Init
  BY DEF HandlerInit
<1>2. [HandlerNext]_handlerVars => [Next]_vars
  BY DEF HandlerNext, Lookup, HandleRTP, Step, Return, Unregister, CloseBuffer, CloseH,
         Around, handlerVars, Next
<1> QED BY <1>1, <1>2, PTL DEF HandlerSpec, Spec

\* Behind the mux, too, whatever waits in the buffer has a timer.
THEOREM HandlerTimerArmed == HandlerSpec => []TimerArmed
  BY HandlerRunsBuffer, TimerArmedHolds, PTL

\* And what is played there goes on, with nothing twice, under the condition on
\* the numbers at hand.
THEOREM HandlerPlaysOn ==
  HandlerSpec /\ []InWindow => []NoDuplicates /\ PlayoutAdvances
  BY HandlerRunsBuffer, NoDuplicatesHolds, PlayoutAdvancesHolds, PTL

----------------------------------------------------------------------------
(* The contract.                                                           *)

\* A packet is past the mux and not yet in the buffer.
onItsWay == feed = "found" \/ InHand

\* Until the buffer has been flushed for Close, h is open and the packet on its
\* way was counted when the handler was removed; from then on every packet that is
\* buffered or on its way is one that was.
HandlerInv ==
  /\ feed \in {"idle", "found", "push", "pushed"}
  /\ err \in {0, 1} /\ inFlight \in {0, 1} /\ late \in Nat
  /\ owed => err = 1
  /\ hClosed => closer = "closed"
  /\ closer # "open" => ~registered
  /\ InHand => feed = "push"
  /\ IF closer \in {"open", "flushing"}
     THEN late = 0 /\ (~registered /\ onItsWay => inFlight = 1)
     ELSE late + Len(buf) + (IF onItsWay THEN 1 ELSE 0) <= inFlight

\* The holder of the mutex makes no packets: what it emits was buffered, and what
\* it buffers was in its hand.
LEMMA HolderConsumes ==
  ASSUME TypeInv, TypeInv', Holder
  PROVE  /\ InHand' => InHand
         /\ Len(buf') + (IF InHand' THEN 1 ELSE 0) + (IF emitted THEN 1 ELSE 0)
              <= Len(buf) + (IF InHand THEN 1 ELSE 0)
<1>1. /\ size = Len(buf) /\ size' = Len(buf') /\ Len(buf) \in Nat /\ Len(buf') \in Nat
  BY DEF TypeInv, TypeOK, SizeMatches
<1>2. Push => InHand
  BY DEF Push, FirstSSRC, SameSSRC, OtherSSRC, switchStream, AnyLine, PlayingLine,
         StrayLine, TakeOverAhead, TakeOverAnew, Restart, Expired, AtAnEnd, InsertFirst,
         Prepend, AppendTail, SearchTail, SearchHead, AppendDiscont, Accepted, InHand
<1>3. Pop => InHand' = InHand
  BY DEF TypeInv, TypeOK, HandOK, InHand, Pop, PopReady, DropExpired, DropDone,
         PopInSequence, PopLate, PopDone, FlushPop, FlushDrop, FlushDone, Unlock, inputs
<1>4. InHand' => InHand
  BY <1>2, <1>3 DEF Holder
<1>5. CASE emitted
  <2>1. stats'["samples"] # stats["samples"]
    <3>1. stats["samples"] \in Nat
      BY DEF TypeInv, TypeOK, Counters, StatNames
    <3> QED BY <1>5, <3>1 DEF emitted
  <2>2. completeHead /\ \E gap \in Nat : popSample(gap)
    BY <2>1, SamplesCounted DEF Next
  <2>3. Len(buf') = Len(buf) - sampleLen(buf)
    BY <2>2, PopShrinks
  <2>4. sampleLen(buf) \in 1..Len(buf)
    BY <2>2, SampleBounds DEF TypeInv, TypeOK, completeHead
  <2> QED BY <1>1, <1>4, <1>5, <2>3, <2>4
<1>6. CASE ~emitted /\ Linking
  <2>1. pc' \in {"idle", "ready"} /\ cont' = cont /\ pc = "insert"
    BY <1>6 DEF Linking, InsertFirst, Prepend, AppendTail, SearchTail, SearchHead,
                AppendDiscont, Accepted, link, leak, pushed
  <2>2. ~InHand' /\ InHand
    BY <2>1 DEF TypeInv, HandOK, InHand
  <2>3. size' = size + 1 \/ size' = size
    BY <1>6 DEF Linking, InsertFirst, Prepend, AppendTail, SearchTail, SearchHead,
                AppendDiscont, link, leak, queue
  <2> QED BY <1>1, <1>6, <2>2, <2>3
<1>7. CASE ~emitted /\ Push /\ ~Linking
  <2>1. size' = size
    BY <1>7 DEF Linking, Push, FirstSSRC, SameSSRC, OtherSSRC, switchStream, AnyLine,
                PlayingLine, StrayLine, TakeOverAhead, TakeOverAnew, Restart, Expired,
                AtAnEnd, queue
  <2> QED BY <1>1, <1>4, <1>7, <2>1
<1>8. CASE ~emitted /\ Pop
  <2>1. size' = size \/ size' = size - 1 \/ \E k \in 1..Len(buf) : size' = size - k
    <3>1. completeHead => sampleLen(buf) \in 1..Len(buf)
      BY SampleBounds DEF TypeInv, TypeOK, completeHead
    <3> QED BY <1>8, <3>1
            DEF Pop, PopReady, DropExpired, DropDone, PopInSequence, PopLate, PopDone,
                FlushPop, FlushDrop, FlushDone, Unlock, popSample, dropHead, queue
  <2> QED BY <1>1, <1>4, <1>8, <2>1
<1> QED BY <1>4, <1>5, <1>6, <1>7, <1>8 DEF Holder

\* The invariant of the handler is inductive.
LEMMA HandlerStep ==
  ASSUME TypeInv, TypeInv', HandlerInv, [HandlerNext]_handlerVars
  PROVE  HandlerInv'
<1> USE DEF handler
<1>0. Len(buf) \in Nat /\ Len(buf') \in Nat
  BY DEF TypeInv, TypeOK
<1>1. CASE Lookup
  <2>1. feed' = "found" /\ registered /\ UNCHANGED <<vars, registered, hClosed, err, owed, inFlight, late>>
    BY <1>1 DEF Lookup
  <2>2. closer' = closer /\ buf' = buf /\ InHand' = InHand
    BY <2>1 DEF vars, queue, others, inputs, InHand
  <2>3. closer = "open" /\ ~InHand
    BY <1>1, <2>1 DEF HandlerInv, Lookup
  <2> QED BY <2>1, <2>2, <2>3 DEF HandlerInv, onItsWay
<1>2. CASE HandleRTP
  <2>1. /\ feed = "found" /\ pc = "idle" /\ PushAt
        /\ feed' = IF pc' = "idle" THEN "pushed" ELSE "push"
        /\ UNCHANGED <<registered, hClosed, failing, err, owed, inFlight, late>>
    BY <1>2 DEF HandleRTP, PushAt
  <2>2. buf' = buf /\ closer' = closer /\ ~InHand /\ (InHand' => pc' # "idle")
    BY <2>1 DEF PushAt, queue, others, TypeInv, HandOK, InHand
  <2> QED BY <1>0, <2>1, <2>2 DEF HandlerInv, onItsWay
<1>3. CASE Step
  <2>1. /\ InHand' => InHand
        /\ Len(buf') + (IF InHand' THEN 1 ELSE 0) + (IF emitted THEN 1 ELSE 0)
             <= Len(buf) + (IF InHand THEN 1 ELSE 0)
    BY <1>3, HolderConsumes DEF Step
  <2>2. /\ feed' = IF feed = "push" /\ pc' = "idle" THEN "pushed" ELSE feed
        /\ IF emitted
           THEN /\ err' = IF failing THEN errSent(err) ELSE err
                /\ owed' = (owed \/ failing)
                /\ late' = IF hClosed THEN late + 1 ELSE late
           ELSE UNCHANGED <<err, owed, late>>
        /\ UNCHANGED <<registered, hClosed, failing, inFlight>>
    BY <1>3 DEF Step
  <2>3. /\ feed' \in {"idle", "found", "push", "pushed"} /\ err' \in {0, 1}
        /\ inFlight' \in {0, 1} /\ (owed' => err' = 1)
        /\ (InHand' => feed' = "push") /\ (feed' = "found" <=> feed = "found")
    BY <2>1, <2>2 DEF HandlerInv, errSent, TypeInv, HandOK, InHand
  <2>4. late' \in Nat /\ late' <= late + (IF emitted THEN 1 ELSE 0)
        /\ (~hClosed => late' = late)
    BY <2>2 DEF HandlerInv
  <2>5. closer' = closer \/ (closer = "flushing" /\ closer' = "flushed"
                              /\ buf' = <<>> /\ ~InHand')
    BY <1>3
    DEF Step, Holder, Push, Pop, FirstSSRC, SameSSRC, OtherSSRC, switchStream, AnyLine,
        PlayingLine, StrayLine, TakeOverAhead, TakeOverAnew, Restart, Expired, AtAnEnd,
        InsertFirst, Prepend, AppendTail, SearchTail, SearchHead, AppendDiscont, PopReady,
        DropExpired, DropDone, PopInSequence, PopLate, PopDone, FlushPop, FlushDrop,
        FlushDone, Unlock, others, queue, inputs, TypeInv, HandOK, InHand
  <2>6. /\ hClosed' => closer' = "closed"
        /\ closer' # "open" => ~registered'
    BY <2>2, <2>5 DEF HandlerInv
  <2>7. IF closer' \in {"open", "flushing"}
        THEN late' = 0 /\ (~registered' /\ onItsWay' => inFlight' = 1)
        ELSE late' + Len(buf') + (IF onItsWay' THEN 1 ELSE 0) <= inFlight'
    <3>1. CASE closer' = closer /\ closer \in {"open", "flushing"}
      BY <2>1, <2>2, <2>3, <2>4, <3>1 DEF HandlerInv, onItsWay
    <3>2. CASE closer' = closer /\ closer \notin {"open", "flushing"}
      <4>1. late + Len(buf) + (IF onItsWay THEN 1 ELSE 0) <= inFlight
        BY <3>2 DEF HandlerInv
      <4>2. feed = "found" => ~InHand
        BY DEF HandlerInv
      <4>3. late \in Nat /\ inFlight' = inFlight /\ inFlight \in Nat
        BY <2>2 DEF HandlerInv
      <4> DEFINE had == IF InHand THEN 1 ELSE 0
                 has == IF InHand' THEN 1 ELSE 0
                 gave == IF emitted THEN 1 ELSE 0
      <4>4. had \in Nat /\ has \in Nat /\ gave \in Nat
        OBVIOUS
      <4>5. late' + Len(buf') + has <= late + Len(buf) + had
        <5>1. Len(buf') + has + gave <= Len(buf) + had /\ late' <= late + gave
          BY <2>1, <2>4
        <5> HIDE DEF had, has, gave
        <5> QED BY <1>0, <2>4, <4>3, <4>4, <5>1
      <4>6. CASE feed = "found"
        <5>1. onItsWay /\ onItsWay' /\ ~InHand /\ ~InHand'
          BY <2>1, <2>3, <4>2, <4>6 DEF onItsWay
        <5>2. late' + Len(buf') <= late + Len(buf) /\ late + Len(buf) + 1 <= inFlight
          BY <1>0, <2>4, <4>1, <4>3, <4>5, <5>1
        <5> QED BY <1>0, <2>4, <3>2, <4>3, <5>1, <5>2
      <4>7. CASE feed # "found"
        <5>1. (onItsWay <=> InHand) /\ (onItsWay' <=> InHand')
          BY <2>3, <4>7 DEF onItsWay
        <5>2. late + Len(buf) + had <= inFlight
          BY <4>1, <5>1
        <5>3. late' + Len(buf') + has <= inFlight'
          <6> HIDE DEF had, has
          <6> QED BY <1>0, <2>4, <4>3, <4>4, <4>5, <5>2
        <5> QED BY <3>2, <5>1, <5>3
      <4> QED BY <4>6, <4>7
    <3>3. CASE closer = "flushing" /\ closer' = "flushed" /\ buf' = <<>> /\ ~InHand'
      <4>1. late' = 0 /\ inFlight' = inFlight /\ Len(buf') = 0
        BY <2>2, <2>4, <3>3 DEF HandlerInv
      <4>2. onItsWay' => inFlight = 1
        BY <2>3, <3>3 DEF HandlerInv, onItsWay
      <4>3. inFlight \in {0, 1}
        BY DEF HandlerInv
      <4> QED BY <3>3, <4>1, <4>2, <4>3
    <3> QED BY <2>5, <3>1, <3>2, <3>3
  <2> QED BY <2>3, <2>4, <2>6, <2>7 DEF HandlerInv
<1>4. CASE Return \/ Unregister \/ CloseH
  <2>1. closer' = closer /\ buf' = buf /\ InHand' = InHand
    BY <1>4 DEF Return, Unregister, CloseH, vars, queue, others, inputs, InHand
  <2>2. CASE Return
    BY <1>0, <2>1, <2>2 DEF Return, HandlerInv, onItsWay
  <2>3. CASE Unregister
    BY <2>1, <2>3 DEF Unregister, HandlerInv, onItsWay
  <2>4. CASE CloseH
    BY <1>0, <2>1, <2>4 DEF CloseH, bufferClosed, HandlerInv, onItsWay
  <2> QED BY <1>4, <2>2, <2>3, <2>4
<1>5. CASE CloseBuffer
  <2>1. ~registered /\ UNCHANGED handler /\ buf' = buf /\ InHand' = InHand
    BY <1>5 DEF CloseBuffer, Close, CloseFlush, CloseStop, CloseBreak, flushThen, queue,
                inputs, TypeInv, HandOK, InHand
  <2>2. \/ closer = "open" /\ closer' = "flushing"
        \/ closer = "flushed" /\ closer' = "stopped"
        \/ closer = "stopped" /\ closer' = "closed"
    BY <1>5 DEF CloseBuffer, Close, CloseFlush, CloseStop, CloseBreak
  <2> QED BY <1>0, <2>1, <2>2 DEF HandlerInv, onItsWay
<1>6. CASE Around \/ UNCHANGED handlerVars
  <2>1. UNCHANGED handler /\ buf' = buf /\ InHand' = InHand /\ closer' = closer
    BY <1>6 DEF Around, Loop, TimerFire, TimerLock, LoopExit, UpdateLatency, Flush, Tick,
                flushThen, handlerVars, vars, queue, inputs, others, TypeInv, HandOK, InHand
  <2> QED BY <1>0, <2>1 DEF HandlerInv, onItsWay
<1> QED BY <1>1, <1>2, <1>3, <1>4, <1>5, <1>6 DEF HandlerNext

\* The handler's contract: after h was closed it is given no more than the packet
\* that had passed the mux when the handler was removed, and an error of h is
\* returned by a HandleRTP before it is forgotten.
THEOREM HandlerContractHolds == HandlerSpec => []HandlerContract
<1>1. HandlerInit => HandlerInv
  BY DEF HandlerInit, Init, HandlerInv, onItsWay, InHand
<1>2. TypeInv /\ TypeInv' /\ HandlerInv /\ [HandlerNext]_handlerVars => HandlerInv'
  BY HandlerStep
<1>3. TypeInv /\ HandlerInv => HandlerContract
  <2> SUFFICES ASSUME TypeInv, HandlerInv
               PROVE  LateOnlyInFlight
    BY DEF HandlerContract, ErrorsKept, HandlerInv
  <2>1. Len(buf) \in Nat
    BY DEF TypeInv, TypeOK
  <2> QED BY <2>1 DEF HandlerInv, LateOnlyInFlight
<1> QED BY <1>1, <1>2, <1>3, HandlerRunsBuffer, TypeInvariant, PTL DEF HandlerSpec
=============================================================================
