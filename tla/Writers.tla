-------------------------------- MODULE Writers --------------------------------
(***************************************************************************)
(* A chain of PCM writers that ends in a pipe.  A producer writes chunks   *)
(* through a FullFrames buffer (buffers.go) into a SwitchWriter, another   *)
(* one writes into the same SwitchWriter directly (media.go).  The switch  *)
(* forwards to what is attached at the moment: a pipe, a buffer in memory  *)
(* (pcm.go), a MultiWriter over both, or nothing.  Meanwhile a controller  *)
(* swaps, disables and enables the switch, closes what it swapped out and  *)
(* closes the chain; a reader empties the pipe and somebody closes its     *)
(* reading end.                                                            *)
(*                                                                         *)
(* A sample is <<producer, number>>.  All writers have one sample rate, so *)
(* that the switch attaches them as they are.                              *)
(***************************************************************************)
EXTENDS Pipe

CONSTANTS
    Framed,       \* producers that write through FullFrames
    Direct,       \* producers that write to the switch
    Ctl,          \* the controller
    Rd, RdCloser, \* the pipe's reader and who closes its end
    FrameSize,
    Targets,      \* what may be attached: sequences over {"pipe", "mem"}
    Chunks,       \* the lengths of what each producer writes
    Buffers,      \* lengths of the reader's buffer
    MaxCalls      \* bound: calls made by all threads but the reader

ASSUME WritersAssumption ==
    /\ Threads = Framed \cup Direct \cup {Ctl, Rd, RdCloser} /\ None \notin Threads
    /\ Rd \notin Framed \cup Direct \cup {Ctl, RdCloser}
    /\ Framed \cap Direct = {}
    /\ Ctl \notin Framed \cup Direct /\ RdCloser \notin Framed \cup Direct \cup {Ctl}
    /\ FrameSize \in Nat \ {0}
    /\ Targets \subseteq Seq({"pipe", "mem"})
    /\ Chunks \in [Framed \cup Direct -> SUBSET Nat]
    /\ Buffers \subseteq Nat

VARIABLES
    mu,           \* who holds the FullFrames mutex, or None
    buf,          \* its buffer
    dropTail,     \* its option
    ff,           \* the FullFrames call of each thread: [pc, in, it, err]
    w,            \* what the switch holds: a target, or <<>> for nil
    disabled,
    sw,           \* the switch write of each thread: [pc, f, ts, to, err]
    cl,           \* the writers that each thread has still to close
    mem,          \* bufferWriterPCM16: [buf, open]
    given,        \* samples handed over by each producer
    ops,          \* calls made so far
    ended         \* history: switch writes that returned: [f, to, err]

chainVars == <<mu, buf, dropTail, ff, w, disabled, sw, cl, mem, given, ops, ended>>
vars == <<pipeVars, chainVars>>

Producers == Framed \cup Direct

FFIdle == [pc |-> "idle", in |-> <<>>, it |-> <<>>, err |-> None]
SWIdle == [pc |-> "idle", f |-> <<>>, ts |-> <<>>, to |-> <<>>, err |-> None]

Init ==
    /\ PipeInit
    /\ mu = None
    /\ buf = <<>>
    /\ dropTail \in BOOLEAN
    /\ ff = [t \in Threads |-> FFIdle]
    /\ w \in Targets
    /\ disabled = FALSE
    /\ sw = [t \in Threads |-> SWIdle]
    /\ cl = [t \in Threads |-> <<>>]
    /\ mem = [buf |-> <<>>, open |-> TRUE]
    /\ given = [p \in Producers |-> 0]
    /\ ops = 0
    /\ ended = {}

(* The next n samples of producer p. *)
chunk(p, n) == [i \in 1..n |-> <<p, given[p] + i>>]

-------------------------------------------------------------------------------
(* SwitchWriter and MultiWriter.                                           *)

(* WriteSample of the switch, up to the test of disabled. *)
swStart(f) ==
    [SWIdle EXCEPT !.pc = IF disabled THEN "each" ELSE "load", !.f = f]

(* The attached writer is loaded once; the write itself comes later. *)
SwitchLoad(t) ==
    /\ sw[t].pc = "load"
    /\ sw' = [sw EXCEPT ![t].pc = "each", ![t].ts = w, ![t].to = w]
    /\ UNCHANGED <<pipeVars, mu, buf, dropTail, ff, w, disabled, cl, mem,
                   given, ops, ended>>

swReturned(t) == sw[t].pc = "each" /\ sw[t].ts = <<>>

(* bufferWriterPCM16.WriteSample *)
memWrite(f) == [mem EXCEPT !.buf = IF mem.open THEN @ \o f ELSE @]

(* Mutant of nextTarget: the first error ends the loop over the writers. *)
MutStopAtError(s, err) ==
    [s EXCEPT !.pc = "each", !.ts = IF err # None THEN <<>> ELSE Tail(@),
              !.err = IF err # None THEN err ELSE @]

(* MultiWriter.WriteSample goes on to the next writer whatever the last    *)
(* one returned.                                                           *)
nextTarget(s, err) ==
    [s EXCEPT !.pc = "each", !.ts = Tail(@), !.err = IF err # None THEN err ELSE @]

WriteMem(t) ==
    /\ sw[t].pc = "each" /\ sw[t].ts # <<>> /\ Head(sw[t].ts) = "mem"
    /\ mem' = memWrite(sw[t].f)
    /\ sw' = [sw EXCEPT ![t] = nextTarget(@, None)]
    /\ UNCHANGED <<pipeVars, mu, buf, dropTail, ff, w, disabled, cl, given,
                   ops, ended>>

WritePipe(t) ==
    /\ sw[t].pc = "each" /\ sw[t].ts # <<>> /\ Head(sw[t].ts) = "pipe"
    /\ Write(t, sw[t].f)
    /\ sw' = [sw EXCEPT ![t].pc = "called"]
    /\ UNCHANGED <<mu, buf, dropTail, ff, w, disabled, cl, mem, given, ops, ended>>

WrittenPipe(t) ==
    /\ sw[t].pc = "called" /\ free(t)
    /\ sw' = [sw EXCEPT ![t] = nextTarget(@, call[t].err)]
    /\ UNCHANGED <<pipeVars, mu, buf, dropTail, ff, w, disabled, cl, mem, given,
                   ops, ended>>

(* A write through the switch is over: its caller takes the result. *)
SwitchEnd(t) ==
    /\ swReturned(t)
    /\ sw' = [sw EXCEPT ![t] = SWIdle]
    /\ ended' = ended \cup {[f |-> sw[t].f, to |-> sw[t].to, err |-> sw[t].err]}

-------------------------------------------------------------------------------
(* Producers, and FullFrames.                                              *)

WriteDirect(p) ==
    /\ sw[p] = SWIdle
    /\ ops < MaxCalls
    /\ \E n \in Chunks[p] :
         /\ sw' = [sw EXCEPT ![p] = swStart(chunk(p, n))]
         /\ given' = [given EXCEPT ![p] = @ + n]
    /\ ops' = ops + 1
    /\ UNCHANGED <<pipeVars, mu, buf, dropTail, ff, w, disabled, cl, mem, ended>>

WrittenDirect(p) ==
    /\ SwitchEnd(p)
    /\ UNCHANGED <<pipeVars, mu, buf, dropTail, ff, w, disabled, cl, mem, given, ops>>

WriteFrames(p) ==
    /\ ff[p] = FFIdle
    /\ ops < MaxCalls
    /\ \E n \in Chunks[p] :
         /\ ff' = [ff EXCEPT ![p] = [@ EXCEPT !.pc = "lock", !.in = chunk(p, n)]]
         /\ given' = [given EXCEPT ![p] = @ + n]
    /\ ops' = ops + 1
    /\ UNCHANGED <<pipeVars, mu, buf, dropTail, w, disabled, sw, cl, mem, ended>>

(* The writers that t had to close are closed. *)
closed(t) == cl[t] = <<>> /\ free(t)

(* Close of the chain is Close of its FullFrames. *)
CloseFrames ==
    /\ ff[Ctl] = FFIdle /\ closed(Ctl)
    /\ ops < MaxCalls
    /\ ff' = [ff EXCEPT ![Ctl].pc = "lock"]
    /\ ops' = ops + 1
    /\ UNCHANGED <<pipeVars, mu, buf, dropTail, w, disabled, sw, cl, mem, given, ended>>

FramesLock(t) ==
    /\ ff[t].pc = "lock"
    /\ mu = None
    /\ mu' = t
    /\ buf' = buf \o ff[t].in
    /\ ff' = [ff EXCEPT ![t] = [FFIdle EXCEPT !.pc = "flush", !.it = buf']]
    /\ UNCHANGED <<pipeVars, dropTail, w, disabled, sw, cl, mem, given, ops, ended>>

force(t) == t = Ctl /\ ~dropTail

(* The next frame of flush, and the tail when it is forced. *)
flushLen(t) ==
    IF Len(ff[t].it) >= FrameSize THEN FrameSize
    ELSE IF force(t) THEN Len(ff[t].it) ELSE 0

(* it is past a full frame before the frame is written; past the tail only *)
(* when that was written.                                                  *)
itAfter(it, n) == IF n = FrameSize THEN SubSeq(it, n + 1, Len(it)) ELSE it

FlushWrite(t) ==
    LET n == flushLen(t)
    IN  /\ ff[t].pc = "flush"
        /\ n > 0
        /\ ff' = [ff EXCEPT ![t].pc = IF n = FrameSize THEN "frame" ELSE "tail",
                            ![t].it = itAfter(@, n)]
        /\ sw' = [sw EXCEPT ![t] = swStart(SubSeq(ff[t].it, 1, n))]
        /\ UNCHANGED <<pipeVars, mu, buf, dropTail, w, disabled, cl, mem, given,
                       ops, ended>>

(* Mutant of FlushWritten: a frame that failed stays in the buffer. *)
MutFlushKept(t) ==
    /\ ff[t].pc \in {"frame", "tail"}
    /\ SwitchEnd(t)
    /\ ff' = [ff EXCEPT ![t] =
                IF sw[t].err # None
                THEN [@ EXCEPT !.pc = "flushed", !.err = sw[t].err, !.it = sw[t].f \o @]
                ELSE IF @.pc = "tail" THEN [@ EXCEPT !.pc = "flushed", !.it = <<>>]
                ELSE [@ EXCEPT !.pc = "flush"]]
    /\ UNCHANGED <<pipeVars, mu, buf, dropTail, w, disabled, cl, mem, given, ops>>

FlushWritten(t) ==
    /\ ff[t].pc \in {"frame", "tail"}
    /\ SwitchEnd(t)
    /\ ff' = [ff EXCEPT ![t] =
                IF sw[t].err # None THEN [@ EXCEPT !.pc = "flushed", !.err = sw[t].err]
                ELSE IF @.pc = "tail" THEN [@ EXCEPT !.pc = "flushed", !.it = <<>>]
                ELSE [@ EXCEPT !.pc = "flush"]]
    /\ UNCHANGED <<pipeVars, mu, buf, dropTail, w, disabled, cl, mem, given, ops>>

(* flush returns, its deferred function drops what was written from the    *)
(* buffer.  WriteSample is over; Close goes on to close the switch, that   *)
(* is what is attached to it now.                                          *)
FlushEnd(t) ==
    /\ \/ ff[t].pc = "flushed"
       \/ ff[t].pc = "flush" /\ flushLen(t) = 0
    /\ buf' = ff[t].it
    /\ IF t = Ctl
       THEN /\ ff' = [ff EXCEPT ![t] = [FFIdle EXCEPT !.pc = "close"]]
            /\ cl' = [cl EXCEPT ![t] = w]
            /\ UNCHANGED mu
       ELSE /\ ff' = [ff EXCEPT ![t] = FFIdle]
            /\ mu' = None
            /\ UNCHANGED cl
    /\ UNCHANGED <<pipeVars, dropTail, w, disabled, sw, mem, given, ops, ended>>

FramesClosed ==
    /\ ff[Ctl].pc = "close"
    /\ closed(Ctl)
    /\ ff' = [ff EXCEPT ![Ctl] = FFIdle]
    /\ mu' = None
    /\ UNCHANGED <<pipeVars, buf, dropTail, w, disabled, sw, cl, mem, given, ops, ended>>

-------------------------------------------------------------------------------
(* The controller.                                                         *)

(* Swap returns the old writer, for the caller to close or to keep. *)
Swap ==
    /\ ff[Ctl] = FFIdle /\ closed(Ctl)
    /\ ops < MaxCalls
    /\ \E v \in Targets \cup {<<>>} :
         /\ v # w
         /\ w' = v
    /\ \E old \in {w, <<>>} : cl' = [cl EXCEPT ![Ctl] = old]
    /\ ops' = ops + 1
    /\ UNCHANGED <<pipeVars, mu, buf, dropTail, ff, disabled, sw, mem, given, ended>>

EnableDisable ==
    /\ ff[Ctl] = FFIdle /\ closed(Ctl)
    /\ ops < MaxCalls
    /\ disabled' = ~disabled
    /\ ops' = ops + 1
    /\ UNCHANGED <<pipeVars, mu, buf, dropTail, ff, w, sw, cl, mem, given, ended>>

(* MultiWriter.Close, and Close of a single writer. *)
CloseMem(t) ==
    /\ cl[t] # <<>> /\ Head(cl[t]) = "mem" /\ free(t)
    /\ mem' = [mem EXCEPT !.open = FALSE]
    /\ cl' = [cl EXCEPT ![t] = Tail(@)]
    /\ UNCHANGED <<pipeVars, mu, buf, dropTail, ff, w, disabled, sw, given, ops, ended>>

ClosePipe(t) ==
    /\ cl[t] # <<>> /\ Head(cl[t]) = "pipe"
    /\ CloseWrite(t, None)
    /\ cl' = [cl EXCEPT ![t] = Tail(@)]
    /\ UNCHANGED <<mu, buf, dropTail, ff, w, disabled, sw, mem, given, ops, ended>>

-------------------------------------------------------------------------------
(* The reading end: a reader that reads until a read fails, and a thread   *)
(* that closes it.                                                         *)

ReadPipe ==
    /\ call[Rd].err = None
    /\ \E n \in Buffers : Read(Rd, n)
    /\ UNCHANGED chainVars

CloseReader ==
    /\ ops < MaxCalls
    /\ \E err \in {None, "err"} : CloseRead(RdCloser, err)
    /\ ops' = ops + 1
    /\ UNCHANGED <<mu, buf, dropTail, ff, w, disabled, sw, cl, mem, given, ended>>

-------------------------------------------------------------------------------

(* What a thread does inside a call that it has begun. *)
Running(t) ==
    \/ PipeStep(t) /\ UNCHANGED chainVars
    \/ SwitchLoad(t)
    \/ WriteMem(t)
    \/ WritePipe(t)
    \/ WrittenPipe(t)
    \/ t \in Direct /\ WrittenDirect(t)
    \/ FramesLock(t)
    \/ FlushWrite(t)
    \/ FlushWritten(t)
    \/ FlushEnd(t)
    \/ t = Ctl /\ FramesClosed
    \/ CloseMem(t)
    \/ ClosePipe(t)

Calls ==
    \/ \E p \in Direct : WriteDirect(p)
    \/ \E p \in Framed : WriteFrames(p)
    \/ CloseFrames
    \/ Swap
    \/ EnableDisable
    \/ CloseReader

Next ==
    \/ Calls
    \/ ReadPipe
    \/ \E t \in Threads : Running(t)

(* Goroutines that can run do; nobody has to call anything, except that    *)
(* the reader goes on reading until a read fails.                          *)
Spec ==
    /\ Init /\ [][Next]_vars
    /\ \A t \in Threads : WF_vars(Running(t))
    /\ WF_vars(ReadPipe)

-------------------------------------------------------------------------------

Elems(s) == {s[i] : i \in DOMAIN s}

(* Where the samples of FullFrames are: in a call that waits for the lock, *)
(* left in the buffer, or in a frame that a thread is writing.             *)
waiting == UNION {Elems(ff[t].in) : t \in Threads}

held ==
    IF mu = None \/ ff[mu].pc = "close" THEN Elems(buf)
    ELSE IF ff[mu].pc = "tail" THEN {} ELSE Elems(ff[mu].it)

writing == UNION {Elems(sw[t].f) : t \in Threads}

settling(s) == {e \in ended : s \in Elems(e.f)}

inOrder(s) ==
    \A i, j \in DOMAIN s : i < j /\ s[i][1] = s[j][1] => s[i][2] < s[j][2]

(* Through errors, swaps and closes no sample disappears inside the chain, *)
(* none is in two places at once, and no writer at its end receives one    *)
(* twice or out of order.  Only the tail that Close failed to write stays  *)
(* in the buffer although its write is over (fullFrameBuffer.flush).       *)
SamplesAccounted ==
    /\ \A p \in Producers : \A k \in 1..given[p] :
         LET s == <<p, k>>
             places == {x \in {"waiting", "held", "writing"} :
                          s \in CASE x = "waiting" -> waiting
                                  [] x = "held" -> held
                                  [] x = "writing" -> writing}
         IN  /\ Cardinality(places) <= 1
             /\ places = {} => settling(s) # {}
             /\ places # {} => \A e \in settling(s) :
                                 e.err # None /\ Len(e.f) < FrameSize
    /\ inOrder(got)
    /\ inOrder(mem.buf)

contains(s, f) ==
    \E i \in 0..(Len(s) - Len(f)) : SubSeq(s, i + 1, i + Len(f)) = f

(* A frame that went through the switch is, whole and in one piece, with   *)
(* every writer that was attached when it was loaded, however the switch   *)
(* was swapped meanwhile: a pipe may have failed, and then the caller was  *)
(* told, but a failure of one writer keeps the frame from no other         *)
(* (MultiWriter.WriteSample); a closed buffer drops it silently.           *)
WriteDelivers ==
    \A e \in ended : \A leaf \in Elems(e.to) :
        \/ leaf = "pipe" /\ (e.err # None \/ contains(got, e.f))
        \/ leaf = "mem" /\ (~mem.open \/ contains(mem.buf, e.f))

(* Either side learns of the other's close by the error that the other     *)
(* gave, the first one if it closed twice; ErrClosedPipe means that one's  *)
(* own end was closed, or the default of the reading end (readCloseError,  *)
(* writeCloseError, onceError).                                            *)
CloseErrors ==
    \A t \in Threads : call[t].err # None =>
        /\ done
        /\ t = Rd => call[t].err = IF call[t].err = ErrClosedPipe /\ rerr # None
                                   THEN ErrClosedPipe ELSE werr
        /\ t # Rd => call[t].err = IF call[t].err = ErrClosedPipe /\ werr # None
                                   THEN ErrClosedPipe ELSE rerr

busy(t) ==
    ~free(t) \/ ff[t] # FFIdle \/ sw[t] # SWIdle \/ cl[t] # <<>>

(* As long as the reader reads until it fails, every write, swap and close *)
(* that was called returns, Close of a chain whose mutex a blocked write   *)
(* holds included; and if either end of the pipe was closed the reader has *)
(* failed in the end, too.                                                 *)
CallsEnd ==
    <>[](/\ \A t \in Threads \ {Rd} : ~busy(t)
         /\ rerr # None \/ werr # None => call[Rd].err # None)

===============================================================================
