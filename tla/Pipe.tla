--------------------------------- MODULE Pipe ---------------------------------
(***************************************************************************)
(* The synchronous pipe of pipe.go.  Writers, one at a time under wrMu,    *)
(* hand what they have left to a reader on wrCh and learn on rdCh how much *)
(* of it the reader copied; both channels are unbuffered, so a send and    *)
(* its receive are one step of two threads.  Either end stores its error   *)
(* and then closes done, in two steps, while calls are on their way.       *)
(*                                                                         *)
(* The module describes the calls.  Who makes them is up to the module     *)
(* that extends it: a call starts on a thread whose last one returned, and *)
(* ends in "ret" with its result.                                          *)
(***************************************************************************)
EXTENDS Sequences, SequencesExt, FiniteSetsExt, Integers

CONSTANT Threads            \* goroutines that call the pipe

VARIABLES
    wrMu,      \* the writer that holds wrMu, or None
    done,      \* is done closed?
    rerr, werr,\* the errors of the two ends, or None
    call,      \* the pipe call of each thread: [pc, b, n, err]
    got,       \* history: what readers copied, in order
    log,       \* history: what the writes that have returned handed over, in order
    short      \* history: the writes that returned no error with some of b left

pipeVars == <<wrMu, done, rerr, werr, call, got, log, short>>

None == "none"
EOF == "EOF"
ErrClosedPipe == "ErrClosedPipe"

(* A call that returned err; what it copied is in got. *)
Ret(err) == [pc |-> "ret", b |-> <<>>, n |-> 0, err |-> err]

Idle == Ret(None)

free(t) == call[t].pc = "ret"

(* A write keeps all of b and counts in n what was taken of it. *)
rest(c) == SubSeq(c.b, c.n + 1, Len(c.b))

(* onceError.Store: the first error stays. *)
Store(old, err) == IF old # None THEN old ELSE err

(* Mutant of readCloseError: the two errors are swapped. *)
MutReadCloseError ==
    IF werr = None /\ rerr # None THEN rerr ELSE ErrClosedPipe

(* Both loads are one step: while done is closed, at least one error is    *)
(* stored and none is ever changed, so that a store in between cannot show.*)
readCloseError ==
    IF rerr = None /\ werr # None THEN werr ELSE ErrClosedPipe

writeCloseError ==
    IF werr = None /\ rerr # None THEN rerr ELSE ErrClosedPipe

PipeInit ==
    /\ wrMu = None
    /\ done = FALSE
    /\ rerr = None /\ werr = None
    /\ call = [t \in Threads |-> Idle]
    /\ got = <<>>
    /\ log = <<>> /\ short = {}

-------------------------------------------------------------------------------

(* write, up to the lock. *)
Write(t, b) ==
    /\ free(t)
    /\ call' = [call EXCEPT ![t] =
                  IF done THEN Ret(writeCloseError)
                  ELSE [Idle EXCEPT !.pc = "lock", !.b = b]]
    /\ UNCHANGED <<wrMu, done, rerr, werr, got, log, short>>

(* Mutant of wrMuFree: writers do not exclude each other. *)
MutNoLock(t) == TRUE

wrMuFree(t) == wrMu = None

Lock(t) ==
    /\ call[t].pc = "lock"
    /\ wrMuFree(t)
    /\ wrMu' = t
    /\ call' = [call EXCEPT ![t].pc = "send"]
    /\ UNCHANGED <<done, rerr, werr, got, log, short>>

(* The reader takes b from wrCh and copies what its buffer holds. *)
Transfer(w, r) ==
    LET nr == Min({call[r].n, Len(rest(call[w]))})
        data == SubSeq(rest(call[w]), 1, nr)
    IN  /\ call[w].pc = "send" /\ call[r].pc = "recv"
        /\ call' = [call EXCEPT ![w].pc = "sent",
                                ![r].pc = "answer", ![r].b = data]
        /\ got' = got \o data
        /\ UNCHANGED <<wrMu, done, rerr, werr, log, short>>

(* The reader answers on rdCh and returns; the writer goes on with the     *)
(* rest of b, or returns and unlocks.                                      *)
Answer(w, r) ==
    LET n == call[w].n + Len(call[r].b)
        more == n < Len(call[w].b)
    IN  /\ call[w].pc = "sent" /\ call[r].pc = "answer"
        /\ call' = [call EXCEPT
             ![r] = Idle,
             ![w] = IF more THEN [@ EXCEPT !.pc = "send", !.n = n] ELSE Idle]
        /\ IF more
           THEN UNCHANGED <<wrMu, log, short>>
           ELSE /\ wrMu' = None
                /\ log' = log \o SubSeq(call[w].b, 1, n)
                /\ short' = IF n = Len(call[w].b) THEN short ELSE short \cup {call[w].b}
        /\ UNCHANGED <<done, rerr, werr, got>>

(* The other branch of the writer's select, at the first b or a later one. *)
WriteClosed(t) ==
    /\ call[t].pc = "send"
    /\ done
    /\ call' = [call EXCEPT ![t] = Ret(writeCloseError)]
    /\ wrMu' = None
    /\ log' = log \o SubSeq(call[t].b, 1, call[t].n)
    /\ UNCHANGED <<done, rerr, werr, got, short>>

(* read with a buffer of n samples, up to its second select. *)
Read(t, n) ==
    /\ free(t)
    /\ call' = [call EXCEPT ![t] =
                  IF done THEN Ret(readCloseError)
                  ELSE [Idle EXCEPT !.pc = "recv", !.n = n]]
    /\ UNCHANGED <<wrMu, done, rerr, werr, got, log, short>>

ReadClosed(t) ==
    /\ call[t].pc = "recv"
    /\ done
    /\ call' = [call EXCEPT ![t] = Ret(readCloseError)]
    /\ UNCHANGED <<wrMu, done, rerr, werr, got, log, short>>

(* CloseWithError of either end stores its error first. *)
CloseRead(t, err) ==
    /\ free(t)
    /\ rerr' = Store(rerr, IF err = None THEN ErrClosedPipe ELSE err)
    /\ call' = [call EXCEPT ![t] = [Idle EXCEPT !.pc = "close"]]
    /\ UNCHANGED <<wrMu, done, werr, got, log, short>>

CloseWrite(t, err) ==
    /\ free(t)
    /\ werr' = Store(werr, IF err = None THEN EOF ELSE err)
    /\ call' = [call EXCEPT ![t] = [Idle EXCEPT !.pc = "close"]]
    /\ UNCHANGED <<wrMu, done, rerr, got, log, short>>

(* Mutant of CloseDone: done is closed when both ends are. *)
MutCloseBoth(t) ==
    /\ call[t].pc = "close"
    /\ done' = (rerr # None /\ werr # None)
    /\ call' = [call EXCEPT ![t] = Ret(None)]
    /\ UNCHANGED <<wrMu, rerr, werr, got, log, short>>

CloseDone(t) ==
    /\ call[t].pc = "close"
    /\ done' = TRUE
    /\ call' = [call EXCEPT ![t] = Ret(None)]
    /\ UNCHANGED <<wrMu, rerr, werr, got, log, short>>

(* The steps a thread takes inside a call, on its own or with another.     *)
PipeStep(t) ==
    \/ Lock(t)
    \/ WriteClosed(t)
    \/ ReadClosed(t)
    \/ CloseDone(t)
    \/ \E r \in Threads \ {t} : Transfer(t, r) \/ Answer(t, r)

-------------------------------------------------------------------------------

answering == {t \in Threads : call[t].pc = "answer"}

(* What the write under wrMu has handed over so far, the part included for *)
(* which it waits for the answer.                                          *)
underway ==
    IF wrMu = None THEN <<>>
    ELSE SubSeq(call[wrMu].b, 1, call[wrMu].n) \o
         IF answering = {} THEN <<>> ELSE call[CHOOSE r \in answering : TRUE].b

(* Whatever the lengths of buffers and writes, however many writers there  *)
(* are and whenever either end closes: readers receive the writes that     *)
(* were admitted one after the other, each one whole if it returned no     *)
(* error and otherwise as far as the count it returned (write, read).      *)
PipeFifo ==
    /\ got = log \o underway
    /\ short = {}

===============================================================================
