---------------------------- MODULE JitterBuffer ----------------------------
(***************************************************************************)
(* The jitter buffer of package jitter (buffer.go, packet.go, lines.go).   *)
(*                                                                         *)
(* Everything the buffer does happens under b.mu.  pc is where the holder  *)
(* of the mutex stands ("idle" when it is free): loops of the code are     *)
(* loops of steps here, and code reached from several places (flushLocked) *)
(* returns to cont.  Outside the mutex run the clock, the timer and the    *)
(* goroutine NewBuffer starts, and the last two calls of Close.            *)
(*                                                                         *)
(* The linked list head..tail is the sequence buf.  The payload is its     *)
(* shape: whether the depacketizer sees the start and the end of a sample  *)
(* in it, and whether the packet is padding.                               *)
(***************************************************************************)
EXTENDS SeqLines, SequencesExt

CONSTANTS SNs,             \* the sequence numbers that packets may carry
          SSRCs,           \* the streams
          Shapes,          \* the [start, end, padding] that packets may have
          Ages,            \* how long before the lock a packet was received
          Latencies,       \* the latencies in use; the first is any of them
          DetectRestarts,  \* WithSequenceRestartDetection
          Calls,           \* which of Flush, Close, UpdateLatency are called
          MaxPush,         \* bound on the packets pushed
          PushHorizon,     \* bound on the time of the last push
          MaxTime          \* bound on the clock

NoSSRC == "none"           \* !hasSSRC
Off == -1                  \* the timer is not armed

Shape == [start : BOOLEAN, end : BOOLEAN, padding : BOOLEAN]

ASSUME BufferAssumption ==
  /\ SNs \subseteq SN /\ NoSSRC \notin SSRCs /\ Shapes \subseteq Shape
  /\ Ages \subseteq Nat /\ Latencies \subseteq Nat /\ Latencies # {}
  /\ DetectRestarts \in BOOLEAN
  /\ Calls \subseteq {"Flush", "Close", "UpdateLatency"}
  /\ MaxPush \in Nat /\ PushHorizon \in Nat /\ MaxTime \in Nat

VARIABLES
  pc,          \* what the holder of b.mu does next, "idle" if it is free
  cont,        \* where flushLocked returns to
  pkt,         \* the packet being pushed, as the node newPacket would make
  initialized, prevSN, lines,
  ssrc,        \* b.ssrc, or NoSSRC
  buf,         \* the nodes from head to tail
  size,        \* b.size
  stats,       \* *b.stats
  reported,    \* the arguments of the last onPacketLoss
  notified,    \* the notable events in the last onStats
  latency,
  now,         \* mono.Now
  expiry,      \* popReady's local
  loss, dropped, \* locals of popReady, dropIncomplete and flushLocked
  timer,       \* the time at which b.timer fires, or Off
  loop,        \* the goroutine of NewBuffer
  closer       \* the call of Close

inputs == <<pkt, cont>>
stream == <<initialized, prevSN, ssrc, lines>>
queue  == <<buf, size>>
calls  == <<reported, notified>>
locals == <<expiry, loss, dropped>>
others == <<latency, now, timer, loop, closer>>

vars == <<pc, inputs, stream, queue, stats, calls, locals, others>>

Node == [sn : SN, ssrc : SSRCs, at : Nat, start : BOOLEAN, end : BOOLEAN,
         padding : BOOLEAN, discont : BOOLEAN]

NoPacket == [sn |-> 0, ssrc |-> NoSSRC, at |-> 0, start |-> FALSE,
             end |-> FALSE, padding |-> FALSE, discont |-> FALSE]

StatNames == {"pushed", "padding", "lost", "dropped", "popped", "samples",
              "switches", "reordered", "restarts", "stray", "duplicate"}

NoStats == [n \in StatNames |-> 0]

\* The counters that onStats is called for.
EventNames == {"switches", "reordered", "restarts", "stray", "duplicate"}

events(s) == [n \in EventNames |-> s[n]]

----------------------------------------------------------------------------
(* The list.                                                               *)

head == buf[1]
tail == buf[Len(buf)]

\* Mutant of closes: the packets in between may be missing.
MutClosesWithGaps(b, k) == b[k].end

\* The nodes 1..k of b run on without a gap and k closes the sample.
closes(b, k) ==
  /\ b[k].end
  /\ \A j \in 1..k-1 : b[j+1].sn = NextSN(b[j].sn)

isComplete(b) == b[1].start /\ \E k \in 1..Len(b) : closes(b, k)

\* popSample pops up to the first node that ends a sample.
sampleLen(b) == Min({k \in 1..Len(b) : b[k].end})

rest(b, k) == SubSeq(b, k + 1, Len(b))

\* The head may be played now: it is next in sequence, or nothing is expected.
inSequence == head.sn = NextSN(prevSN) \/ head.discont \/ ~initialized

----------------------------------------------------------------------------
(* Callbacks and counters.                                                 *)

bump(s, names) == [n \in StatNames |-> IF n \in names THEN s[n] + 1 ELSE s[n]]

countDrop(s, gap) == [s EXCEPT !["lost"] = @ + gap, !["dropped"] = @ + 1]

countSample(s, gap, k) ==
  [s EXCEPT !["lost"] = @ + gap, !["popped"] = @ + k, !["samples"] = @ + 1]

\* onPacketLoss with the counters s.
reportLoss(s) == reported' = <<s["lost"], s["dropped"]>>

\* onStats with the counters s, of which the notable events are kept.
notifyStats(s) == notified' = events(s)

\* Mutant of pushed: popReady is left to the timer.
MutPushedOnly(b) == pc' = "idle" /\ pkt' = NoPacket

\* push returns to PushAt, which runs popReady unless the buffer is empty.
pushed(b) ==
  /\ pc' = IF b = <<>> THEN "idle" ELSE "ready"
  /\ pkt' = NoPacket

----------------------------------------------------------------------------
(* PushAt and push.                                                        *)

Padding == pkt.padding

\* PushAt is entered: the mutex is taken and the packet is counted.
PushAt ==
  /\ pc = "idle"
  /\ stats["pushed"] < MaxPush /\ now <= PushHorizon
  /\ \E sn \in SNs, s \in SSRCs, h \in Shapes, age \in Ages :
       LET counted == IF h.padding THEN {"pushed", "padding"} ELSE {"pushed"}
           ignored == h.padding /\ ~initialized
       IN /\ age <= now
          /\ stats' = bump(stats, counted)
          /\ \/ ignored /\ pushed(buf)
             \/ /\ ~ignored /\ pc' = "ssrc"
                /\ pkt' = [sn |-> sn, ssrc |-> s, at |-> now - age,
                           start |-> h.start, end |-> h.end,
                           padding |-> h.padding, discont |-> FALSE]
  /\ UNCHANGED <<cont, stream, queue, calls, locals, others>>

\* The switch on the SSRC: first packet, another stream, or the same one.
FirstSSRC ==
  /\ pc = "ssrc" /\ ssrc = NoSSRC
  /\ ssrc' = pkt.ssrc /\ pc' = "line"
  /\ UNCHANGED <<inputs, initialized, prevSN, lines, queue, stats, calls, locals, others>>

SameSSRC ==
  /\ pc = "ssrc" /\ ssrc = pkt.ssrc
  /\ pc' = "line"
  /\ UNCHANGED <<inputs, stream, queue, stats, calls, locals, others>>

flushThen(next) ==
  /\ pc' = "flush" /\ cont' = next
  /\ loss' = FALSE /\ dropped' = FALSE

\* Mutant of OtherSSRC: the old stream is not flushed.
MutNoFlush ==
  /\ pc = "ssrc" /\ ssrc \notin {NoSSRC, pkt.ssrc}
  /\ pc' = "switch"
  /\ UNCHANGED <<inputs, stream, queue, stats, calls, locals, others>>

OtherSSRC ==
  /\ pc = "ssrc" /\ ssrc \notin {NoSSRC, pkt.ssrc}
  /\ flushThen("switch")
  /\ UNCHANGED <<pkt, stream, queue, stats, calls, expiry, others>>

\* switchStream once resetStream has flushed.
switchStream ==
  /\ pc = "switch"
  /\ initialized' = FALSE /\ prevSN' = 0
  /\ ssrc' = pkt.ssrc /\ lines' = NoLines
  /\ stats' = bump(stats, {"switches"}) /\ notifyStats(stats')
  /\ pc' = "line"
  /\ UNCHANGED <<inputs, queue, reported, locals, others>>

----------------------------------------------------------------------------
(* acceptLine.                                                             *)

AnyLine ==
  /\ pc = "line" /\ ~DetectRestarts
  /\ pc' = "insert"
  /\ UNCHANGED <<inputs, stream, queue, stats, calls, locals, others>>

PlayingLine ==
  /\ pc = "line" /\ DetectRestarts /\ plays(lines, pkt.sn)
  /\ lines' = [lines EXCEPT !.cur = add(@, pkt.sn, pkt.at)]
  /\ pc' = "insert"
  /\ UNCHANGED <<inputs, initialized, prevSN, ssrc, queue, stats, calls, locals, others>>

alt == altWith(lines, pkt.sn, pkt.at)

\* The packet is on a line that is not playing, and is dropped.
StrayLine ==
  /\ pc = "line" /\ DetectRestarts /\ ~plays(lines, pkt.sn)
  /\ ~takesOver(lines, alt, pkt.at)
  /\ lines' = strayed(lines, alt, pkt.at)
  /\ IF Padding
     THEN UNCHANGED <<stats, calls>>
     ELSE /\ stats' = bump(stats, {"stray", "dropped"})
          /\ reportLoss(stats') /\ notifyStats(stats')
  /\ pushed(buf)
  /\ UNCHANGED <<cont, initialized, prevSN, ssrc, queue, locals, others>>

\* The packet's line takes over as a gap in the playing one: nothing is reset,
\* and it counts as a restart unless the playing line had gone quiet.
TakeOverAhead ==
  /\ pc = "line" /\ DetectRestarts /\ ~plays(lines, pkt.sn)
  /\ takesOver(lines, alt, pkt.at) /\ aheadOf(lines, pkt.sn)
  /\ IF quiet(lines, alt, pkt.at)
     THEN UNCHANGED <<stats, notified>>
     ELSE stats' = bump(stats, {"restarts"}) /\ notifyStats(stats')
  /\ lines' = takenOver(lines, alt, pkt.at)
  /\ pc' = "insert"
  /\ UNCHANGED <<inputs, initialized, prevSN, ssrc, queue, reported, locals, others>>

\* Any other line takes over after resetStream.  The lines are swapped here,
\* before the flush instead of after it: the flush does not look at them.
TakeOverAnew ==
  /\ pc = "line" /\ DetectRestarts /\ ~plays(lines, pkt.sn)
  /\ takesOver(lines, alt, pkt.at) /\ ~aheadOf(lines, pkt.sn)
  /\ lines' = takenOver(lines, alt, pkt.at)
  /\ flushThen("restart")
  /\ UNCHANGED <<pkt, initialized, prevSN, ssrc, queue, stats, calls, expiry, others>>

Restart ==
  /\ pc = "restart"
  /\ initialized' = FALSE /\ prevSN' = 0
  /\ stats' = bump(stats, {"restarts"}) /\ notifyStats(stats')
  /\ pc' = "insert"
  /\ UNCHANGED <<inputs, ssrc, lines, queue, reported, locals, others>>

----------------------------------------------------------------------------
(* The rest of push: expired, duplicate, or linked into the list.          *)

\* Mutant of isExpired: the comparison ignores the wrap.
MutExpiredNoWrap == initialized /\ pkt.sn <= prevSN

isExpired == initialized /\ before(pkt.sn, prevSN)

\* Mutant of atAnEnd: only the head is compared.
MutAtHead == buf # <<>> /\ pkt.sn = head.sn

atAnEnd == buf # <<>> /\ pkt.sn \in {head.sn, tail.sn}

Expired ==
  /\ pc = "insert" /\ isExpired
  /\ IF Padding
     THEN UNCHANGED <<stats, reported>>
     ELSE stats' = bump(stats, {"dropped"}) /\ reportLoss(stats')
  /\ pushed(buf)
  /\ UNCHANGED <<cont, stream, queue, notified, locals, others>>

duplicate ==
  IF Padding
  THEN UNCHANGED <<stats, notified>>
  ELSE stats' = bump(stats, {"duplicate"}) /\ notifyStats(stats')

\* The discontinuity of the packet from what has been played.
jumps == ~initialized \/ ~withinRange(pkt.sn, prevSN)

node(discont) == [pkt EXCEPT !.discont = discont /\ pkt.start]

link(b) ==
  /\ buf' = b /\ size' = size + 1
  /\ pushed(buf')

reordered == stats' = bump(stats, {"reordered"}) /\ notifyStats(stats')

beforeHead == before(pkt.sn, head.sn) /\ withinRange(pkt.sn, head.sn)
afterTail  == ~before(pkt.sn, tail.sn) /\ withinRange(pkt.sn, tail.sn)

Accepted == pc = "insert" /\ ~isExpired /\ ~atAnEnd

AtAnEnd ==
  /\ pc = "insert" /\ ~isExpired /\ atAnEnd
  /\ duplicate /\ pushed(buf)
  /\ UNCHANGED <<cont, stream, queue, reported, locals, others>>

InsertFirst ==
  /\ Accepted /\ buf = <<>>
  /\ link(<<node(jumps)>>)
  /\ UNCHANGED <<cont, stream, stats, calls, locals, others>>

Prepend ==
  /\ Accepted /\ buf # <<>> /\ beforeHead
  /\ reordered
  /\ link(<<node(jumps)>> \o buf)
  /\ UNCHANGED <<cont, stream, reported, locals, others>>

AppendTail ==
  /\ Accepted /\ buf # <<>> /\ ~beforeHead /\ afterTail
  /\ link(Append(buf, node(FALSE)))
  /\ UNCHANGED <<cont, stream, stats, calls, locals, others>>

\* The nodes at which the search from the tail stops, and its outcomes.
tailStops ==
  {i \in 1..Len(buf) - 1 :
     \/ pkt.sn = buf[i].sn
     \/ ~before(pkt.sn, buf[i].sn)
     \/ ~withinRange(pkt.sn, buf[i].sn)}

\* Mutant of headStops: the search stops short of the tail.
MutHeadStopsShort ==
  {i \in 2..Len(buf) - 1 :
     \/ pkt.sn = buf[i].sn
     \/ before(pkt.sn, buf[i].sn)
     \/ ~withinRange(pkt.sn, buf[i].sn)}

headStops ==
  {i \in 2..Len(buf) :
     \/ pkt.sn = buf[i].sn
     \/ before(pkt.sn, buf[i].sn)
     \/ ~withinRange(pkt.sn, buf[i].sn)}

\* The loop ran off the list: the node is counted and linked nowhere.
leak ==
  /\ size' = size + 1 /\ buf' = buf
  /\ pushed(buf)
  /\ UNCHANGED <<stats, notified>>

SearchTail ==
  /\ Accepted /\ buf # <<>> /\ ~beforeHead /\ ~afterTail
  /\ withinRange(pkt.sn, tail.sn)
  /\ LET i == Max(tailStops)
     IN IF tailStops = {} THEN leak
        ELSE IF pkt.sn = buf[i].sn
        THEN duplicate /\ pushed(buf) /\ UNCHANGED queue
        ELSE /\ reordered
             /\ link(InsertAt(buf, i + 1, node(~withinRange(pkt.sn, buf[i].sn))))
  /\ UNCHANGED <<cont, stream, reported, locals, others>>

SearchHead ==
  /\ Accepted /\ buf # <<>> /\ ~beforeHead /\ ~afterTail
  /\ ~withinRange(pkt.sn, tail.sn) /\ withinRange(pkt.sn, head.sn)
  /\ LET i == Min(headStops)
     IN IF headStops = {} THEN leak
        ELSE IF pkt.sn = buf[i].sn
        THEN duplicate /\ pushed(buf) /\ UNCHANGED queue
        ELSE reordered /\ link(InsertAt(buf, i, node(FALSE)))
  /\ UNCHANGED <<cont, stream, reported, locals, others>>

AppendDiscont ==
  /\ Accepted /\ buf # <<>> /\ ~beforeHead /\ ~afterTail
  /\ ~withinRange(pkt.sn, tail.sn) /\ ~withinRange(pkt.sn, head.sn)
  /\ link(Append(buf, node(TRUE)))
  /\ UNCHANGED <<cont, stream, stats, calls, locals, others>>

----------------------------------------------------------------------------
(* popReady, dropIncomplete, popSample and flushLocked.                    *)

\* One turn of dropIncomplete: the head is given up, with the gap before it.
dropHead ==
  LET gap == IF initialized /\ ~head.discont
             THEN missingBetween(head.sn, prevSN) ELSE 0
  IN /\ stats' = countDrop(stats, gap)
     /\ prevSN' = head.sn
     /\ buf' = Tail(buf) /\ size' = size - 1
     /\ dropped' = TRUE

\* popSample, after the gap that is given up on.
popSample(gap) ==
  LET k == sampleLen(buf)
  IN /\ stats' = countSample(stats, gap, k)
     /\ prevSN' = buf[k].sn /\ initialized' = TRUE
     /\ buf' = rest(buf, k) /\ size' = size - k

\* The locals go out of scope.
noLocals == expiry' = 0 /\ loss' = FALSE /\ dropped' = FALSE

PopReady ==
  /\ pc = "ready"
  /\ expiry' = now - latency
  /\ loss' = FALSE /\ dropped' = FALSE
  /\ pc' = "drop"
  /\ UNCHANGED <<inputs, stream, queue, stats, calls, others>>

staleHead == buf # <<>> /\ ~isComplete(buf) /\ head.at < expiry

DropExpired ==
  /\ pc = "drop" /\ staleHead
  /\ dropHead
  /\ UNCHANGED <<pc, inputs, initialized, ssrc, lines, calls, expiry, loss, others>>

\* Mutant of DropDone: the drops are not reported.
MutDropSilent ==
  /\ pc = "drop" /\ ~staleHead
  /\ pc' = "pop"
  /\ UNCHANGED <<inputs, stream, queue, stats, calls, locals, others>>

DropDone ==
  /\ pc = "drop" /\ ~staleHead
  /\ IF dropped THEN reportLoss(stats) ELSE UNCHANGED reported
  /\ pc' = "pop"
  /\ UNCHANGED <<inputs, stream, queue, stats, notified, locals, others>>

completeHead == buf # <<>> /\ isComplete(buf)

lateHead == head.at <= expiry

PopInSequence ==
  /\ pc = "pop" /\ completeHead /\ inSequence
  /\ popSample(0)
  /\ UNCHANGED <<pc, inputs, ssrc, lines, calls, locals, others>>

PopLate ==
  /\ pc = "pop" /\ completeHead /\ ~inSequence /\ lateHead
  /\ popSample(missingBetween(head.sn, prevSN))
  /\ loss' = TRUE
  /\ UNCHANGED <<pc, inputs, ssrc, lines, calls, expiry, dropped, others>>

\* Mutant of PopDone: the timer is not set for the new head.
MutNoReset ==
  /\ pc = "pop" /\ ~(completeHead /\ (inSequence \/ lateHead))
  /\ IF loss THEN reportLoss(stats) ELSE UNCHANGED reported
  /\ pc' = "idle" /\ noLocals
  /\ loop' = IF loop = "popping" THEN "wait" ELSE loop
  /\ UNCHANGED <<inputs, stream, queue, stats, notified, latency, now, timer, closer>>

\* popReady ends: the loss is reported, the timer is set for the new head, and
\* the mutex is released.
PopDone ==
  /\ pc = "pop" /\ ~(completeHead /\ (inSequence \/ lateHead))
  /\ IF loss THEN reportLoss(stats) ELSE UNCHANGED reported
  /\ timer' = IF buf = <<>> THEN timer ELSE head.at + latency
  /\ pc' = "idle" /\ noLocals
  /\ loop' = IF loop = "popping" THEN "wait" ELSE loop
  /\ UNCHANGED <<inputs, stream, queue, stats, notified, latency, now, closer>>

FlushPop ==
  /\ pc = "flush" /\ completeHead
  /\ popSample(IF inSequence THEN 0 ELSE missingBetween(head.sn, prevSN))
  /\ loss' = (loss \/ ~inSequence)
  /\ UNCHANGED <<pc, inputs, ssrc, lines, calls, expiry, dropped, others>>

FlushDrop ==
  /\ pc = "flush" /\ buf # <<>> /\ ~isComplete(buf)
  /\ dropHead
  /\ UNCHANGED <<pc, inputs, initialized, ssrc, lines, calls, expiry, loss, others>>

FlushDone ==
  /\ pc = "flush" /\ buf = <<>>
  /\ IF loss \/ dropped THEN reportLoss(stats) ELSE UNCHANGED reported
  /\ pc' = cont /\ cont' = "unlock" /\ noLocals
  /\ UNCHANGED <<pkt, stream, queue, stats, notified, others>>

----------------------------------------------------------------------------
(* UpdateLatency, Flush, Close, and the goroutine.                         *)

\* Mutant of UpdateLatency: the timer keeps the old latency.
MutLatencyOnly ==
  /\ "UpdateLatency" \in Calls /\ pc = "idle"
  /\ \E l \in Latencies \ {latency} : latency' = l
  /\ UNCHANGED <<pc, inputs, stream, queue, stats, calls, locals, now, timer, loop, closer>>

UpdateLatency ==
  /\ "UpdateLatency" \in Calls /\ pc = "idle"
  /\ \E l \in Latencies \ {latency} :
       /\ latency' = l
       /\ timer' = IF buf = <<>> THEN timer ELSE head.at + l
  /\ UNCHANGED <<pc, inputs, stream, queue, stats, calls, locals, now, loop, closer>>

Flush ==
  /\ "Flush" \in Calls /\ pc = "idle"
  /\ flushThen("unlock")
  /\ UNCHANGED <<pkt, stream, queue, stats, calls, expiry, others>>

CloseFlush ==
  /\ "Close" \in Calls /\ pc = "idle" /\ closer = "open"
  /\ flushThen("unlock") /\ closer' = "flushing"
  /\ UNCHANGED <<pkt, stream, queue, stats, calls, expiry, latency, now, timer, loop>>

\* Flush returns, in Close or on its own.
Unlock ==
  /\ pc = "unlock"
  /\ pc' = "idle"
  /\ closer' = IF closer = "flushing" THEN "flushed" ELSE closer
  /\ UNCHANGED <<inputs, stream, queue, stats, calls, locals, latency, now, timer, loop>>

\* Mutant of CloseStop: Close goes on only if the timer was armed.
MutStopArmed ==
  /\ closer = "flushed" /\ timer # Off
  /\ closer' = "stopped" /\ timer' = Off
  /\ UNCHANGED <<pc, inputs, stream, queue, stats, calls, locals, latency, now, loop>>

\* The rest of Close runs without the mutex.
CloseStop ==
  /\ closer = "flushed"
  /\ closer' = "stopped" /\ timer' = Off
  /\ UNCHANGED <<pc, inputs, stream, queue, stats, calls, locals, latency, now, loop>>

CloseBreak ==
  /\ closer = "stopped"
  /\ closer' = "closed"
  /\ UNCHANGED <<pc, inputs, stream, queue, stats, calls, locals, latency, now, timer, loop>>

\* The goroutine receives from timer.C, ...
TimerFire ==
  /\ loop = "wait" /\ timer # Off /\ timer <= now
  /\ timer' = Off /\ loop' = "fired"
  /\ UNCHANGED <<pc, inputs, stream, queue, stats, calls, locals, latency, now, closer>>

\* ... takes the mutex for popReady, ...
TimerLock ==
  /\ loop = "fired" /\ pc = "idle"
  /\ loop' = "popping" /\ pc' = "ready"
  /\ UNCHANGED <<inputs, stream, queue, stats, calls, locals, latency, now, timer, closer>>

\* ... or sees the fuse broken; the select may also keep choosing the timer.
LoopExit ==
  /\ loop = "wait" /\ closer = "closed"
  /\ loop' = "done"
  /\ UNCHANGED <<pc, inputs, stream, queue, stats, calls, locals, latency, now, timer, closer>>

\* Time passes.  Under the mutex only popReady reads the clock, and once, so
\* it is enough to let time pass while the mutex is free.
Tick ==
  /\ pc = "idle" /\ now < MaxTime
  /\ now' = now + 1
  /\ UNCHANGED <<pc, inputs, stream, queue, stats, calls, locals, latency, timer, loop, closer>>

----------------------------------------------------------------------------
Init ==
  /\ pc = "idle" /\ cont = "unlock" /\ pkt = NoPacket
  /\ initialized = FALSE /\ prevSN = 0 /\ ssrc = NoSSRC /\ lines = NoLines
  /\ buf = <<>> /\ size = 0
  /\ stats = NoStats /\ reported = <<0, 0>> /\ notified = events(NoStats)
  /\ now = 0 /\ latency \in Latencies /\ timer = latency
  /\ expiry = 0 /\ loss = FALSE /\ dropped = FALSE
  /\ loop = "wait" /\ closer = "open"

Push ==
  \/ FirstSSRC \/ SameSSRC \/ OtherSSRC \/ switchStream
  \/ AnyLine \/ PlayingLine \/ StrayLine
  \/ TakeOverAhead \/ TakeOverAnew \/ Restart
  \/ Expired \/ AtAnEnd
  \/ InsertFirst \/ Prepend \/ AppendTail
  \/ SearchTail \/ SearchHead \/ AppendDiscont

Pop ==
  \/ PopReady \/ DropExpired \/ DropDone \/ PopInSequence \/ PopLate \/ PopDone
  \/ FlushPop \/ FlushDrop \/ FlushDone \/ Unlock

\* The holder of the mutex goes on.
Holder == Push \/ Pop

Loop == TimerFire \/ TimerLock \/ LoopExit

Close == CloseFlush \/ CloseStop \/ CloseBreak

Next ==
  \/ PushAt \/ Holder \/ Loop \/ Close
  \/ UpdateLatency \/ Flush \/ Tick

Spec == Init /\ [][Next]_vars

\* The scheduler runs the goroutines, Go's mutex is fair to those who wait for
\* it, select chooses among its ready cases at random, and time goes on.
Fairness ==
  /\ WF_vars(Holder) /\ WF_vars(TimerFire)
  /\ SF_vars(TimerLock) /\ SF_vars(LoopExit)
  /\ WF_vars(CloseStop) /\ WF_vars(CloseBreak)
  /\ SF_vars(Tick)

FairSpec == Spec /\ Fairness
----------------------------------------------------------------------------
(* Properties.                                                             *)

Counters == [StatNames -> Nat]

PCs == {"idle", "ssrc", "switch", "line", "restart", "insert", "ready", "drop",
        "pop", "flush", "unlock"}

\* The type invariant of the buffer's fields and of the locals of its methods.
TypeOK ==
  /\ pc \in PCs /\ cont \in {"switch", "restart", "unlock"}
  /\ pkt \in Node \cup {NoPacket}
  /\ initialized \in BOOLEAN /\ prevSN \in SN /\ ssrc \in SSRCs \cup {NoSSRC}
  /\ lines \in LineVote
  /\ buf \in Seq(Node) /\ size \in Int
  /\ stats \in Counters
  /\ reported \in Nat \X Nat /\ notified \in [EventNames -> Nat]
  /\ latency \in Latencies /\ now \in Nat /\ expiry \in Int
  /\ loss \in BOOLEAN /\ dropped \in BOOLEAN
  /\ timer \in Nat \cup {Off}
  /\ loop \in {"wait", "fired", "popping", "done"}
  /\ closer \in {"open", "flushing", "flushed", "stopped", "closed"}

\* newPacket and free keep b.size equal to the length of the list whatever
\* arrives: in particular the two insertion loops of push never run off the
\* list without linking the node they counted.
SizeMatches == size = Len(buf)

\* Where the packets went that push let in or dropped and counted.
settled == stats["popped"] + stats["dropped"] + stats["duplicate"] + size

\* Conservation of packets: whenever the mutex is free, every packet pushed is
\* popped, dropped, a counted duplicate or still buffered, exactly once; only
\* padding may be discarded without a count, and what b.size counts is in the list.
Accounting ==
  pc = "idle" => /\ SizeMatches
                 /\ settled <= stats["pushed"]
                 /\ stats["pushed"] <= settled + stats["padding"]

\* "packets lost and dropped up to the point of the call": whenever the mutex
\* is free the last onPacketLoss carried the counters as they are now, so no
\* path loses or drops a packet in silence.
LossReported == pc = "idle" => reported = <<stats["lost"], stats["dropped"]>>

\* Likewise for onStats and every switch, reordering, restart, stray packet
\* and duplicate.
EventsNotified == pc = "idle" => notified = events(stats)

\* The two together: when the mutex is free, both callbacks have been told of
\* everything there is in the counters.
CallbacksCurrent == LossReported /\ EventsNotified

\* All that is buffered belongs to the stream being played: switchStream lets
\* no packet of the previous SSRC be sorted among those of the new one.
SingleStream == \A i \in 1..Len(buf) : buf[i].ssrc = ssrc

\* When the mutex is released, no sample is left that could be played: the head
\* is incomplete, or it waits behind a gap.
NothingReadyWaits ==
  pc = "idle" /\ buf # <<>> => ~(isComplete(buf) /\ inSequence)

\* The head never waits without a timer: while the buffer is not closed, the
\* timer is armed no later than the head's deadline, or it has just fired and
\* the goroutine is on its way to popReady.
TimerArmed ==
  pc = "idle" /\ buf # <<>> /\ closer \in {"open", "flushed"}
    => \/ timer # Off /\ timer <= head.at + latency
       \/ loop = "fired"

\* No sequence number is buffered twice: push recognises the duplicate of any
\* packet that still waits (buffer.go, "would otherwise be played twice").
NoDuplicates == \A i, j \in 1..Len(buf) : buf[i].sn = buf[j].sn => i = j

\* Playout never goes back: while a stream stays in sync, whatever moves prevSN
\* moves it ahead, so no packet is played twice or after a later one.
PlayoutAdvances ==
  [][initialized /\ initialized' /\ prevSN' # prevSN
       => ~before(prevSN', prevSN)]_vars

passed(s) == s["popped"] + s["dropped"] + s["lost"]

\* Every sequence number that playout passes over is accounted for: as popped,
\* as dropped, or as lost.
GapIsLoss ==
  [][initialized /\ initialized' /\ prevSN' # prevSN
       => Sub(prevSN', prevSN) = passed(stats') - passed(stats)]_vars

\* popSample emits whole samples: a run of consecutive packets of one stream,
\* from one that starts a sample to the first that ends it.
SampleIntact ==
  [][stats'["samples"] > stats["samples"]
       => LET k == Len(buf) - Len(buf')
          IN /\ k >= 1 /\ buf[1].start /\ buf[k].end
             /\ \A j \in 1..k-1 :
                  /\ ~buf[j].end
                  /\ buf[j+1].sn = NextSN(buf[j].sn)
                  /\ buf[j+1].ssrc = buf[j].ssrc]_vars

\* With restart detection, playout is never ahead of the playing line: what is
\* played came in on that line.
LineLeadsPlayout ==
  DetectRestarts /\ initialized /\ pc \in {"idle", "line"}
    => lines.cur.ok /\ before(prevSN, lines.cur.high)

\* "Anything else needs sequence tracking cleared so it is not expired": the
\* packet with which a line takes over is not then dropped as expired.
TakeoverPlays == [][TakeOverAhead => ~isExpired]_vars

\* A packet does not stay in an open buffer: once no more arrive, what is
\* buffered is played or given up, with no other help than the timer.
Drains == (buf # <<>> /\ closer = "open") ~> (buf = <<>> \/ closer # "open")

\* The goroutine of NewBuffer ends after Close.
LoopStops == (closer = "flushing") ~> (loop = "done")
=============================================================================
