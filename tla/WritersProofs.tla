---------------------------- MODULE WritersProofs ----------------------------
(***************************************************************************)
(* Proofs about the pipe at the end of the writers' chain, for any number  *)
(* of producers, all frames, chunks and read buffers, and all swaps and    *)
(* closes of the chain meanwhile.                                          *)
(***************************************************************************)
EXTENDS Writers, ListLemmas, FiniteSetTheorems

Samples == Producers \X Nat
Errors  == {None, EOF, ErrClosedPipe, "err"}
Leaf    == {"pipe", "mem"}

CallType == [pc : {"ret", "lock", "send", "sent", "recv", "answer", "close"},
             b : Seq(Samples), n : Nat, err : Errors]

PipeTypeOK ==
  /\ wrMu \in Threads \cup {None} /\ done \in BOOLEAN
  /\ rerr \in Errors /\ werr \in Errors
  /\ call \in [Threads -> CallType]
  /\ got \in Seq(Samples) /\ log \in Seq(Samples)

\* A writer between lock and unlock holds wrMu, and nobody else does.
Locked ==
  /\ \A t \in Threads : call[t].pc \in {"send", "sent"} <=> wrMu = t
  /\ \A t \in Threads : call[t].pc = "lock" => call[t].n = 0

\* What a reader has copied and not answered for is what comes next in the write
\* under wrMu, which waits for the answer.
Copied(r) ==
  /\ wrMu \in Threads /\ call[wrMu].pc = "sent"
  /\ call[wrMu].n + Len(call[r].b) <= Len(call[wrMu].b)
  /\ call[r].b = SubSeq(call[wrMu].b, call[wrMu].n + 1, call[wrMu].n + Len(call[r].b))

HandOver ==
  /\ \A t \in Threads : wrMu = t => call[t].n <= Len(call[t].b)
  /\ \A r, t \in answering : r = t
  /\ \A r \in answering : Copied(r)

PipeInv == PipeTypeOK /\ Locked /\ HandOver /\ PipeFifo

----------------------------------------------------------------------------
(* The steps of the pipe.                                                  *)

LEMMA Answerers ==
  ASSUME NEW r PROVE (CHOOSE x \in {r} : TRUE) = r
OBVIOUS

LEMMA PipeStarts == PipeInit => PipeInv
<1> SUFFICES ASSUME PipeInit PROVE PipeInv
  OBVIOUS
<1>1. /\ wrMu = None /\ done = FALSE /\ rerr = None /\ werr = None
      /\ call = [t \in Threads |-> Idle] /\ got = <<>> /\ log = <<>> /\ short = {}
  BY DEF PipeInit
<1>2. None \notin Threads
  BY WritersAssumption
<1>3. <<>> \in Seq(Samples)
  OBVIOUS
<1>4. Idle \in CallType /\ Idle.pc = "ret"
  BY <1>3 DEF Idle, Ret, CallType, Errors
<1>5. PipeTypeOK
  BY <1>1, <1>3, <1>4 DEF PipeTypeOK, Errors
<1>6. Locked
  BY <1>1, <1>2, <1>4 DEF Locked
<1>7. answering = {}
  BY <1>1, <1>4 DEF answering
<1>8. HandOver
  BY <1>1, <1>2, <1>7 DEF HandOver
<1>9. PipeFifo
  BY <1>1, <1>3, ConcatEmptySeq DEF PipeFifo, underway
<1> QED BY <1>5, <1>6, <1>8, <1>9 DEF PipeInv

\* A step of a thread outside the lock, of which wrMu, the writer that holds it
\* and the reader that owes it an answer see nothing.
LEMMA PipeAside ==
  ASSUME PipeInv, NEW t \in Threads, NEW c \in CallType,
         call' = [call EXCEPT ![t] = c],
         call[t].pc \notin {"send", "sent", "answer"},
         c.pc \notin {"send", "sent", "answer"},
         c.pc = "lock" => c.n = 0,
         UNCHANGED <<wrMu, got, log, short>>,
         done' \in BOOLEAN, rerr' \in Errors, werr' \in Errors
  PROVE  PipeInv'
<1>1. /\ PipeTypeOK /\ Locked /\ HandOver /\ PipeFifo
      /\ call \in [Threads -> CallType] /\ wrMu \in Threads \cup {None}
  BY DEF PipeInv, PipeTypeOK
<1>2. call'[t] = c /\ \A u \in Threads : u # t => call'[u] = call[u]
  BY <1>1
<1>3. PipeTypeOK'
  BY <1>1 DEF PipeTypeOK
<1>4. Locked'
  <2>1. \A u \in Threads : call'[u].pc \in {"send", "sent"} <=> wrMu' = u
    BY <1>1, <1>2 DEF Locked
  <2>2. \A u \in Threads : call'[u].pc = "lock" => call'[u].n = 0
    BY <1>1, <1>2 DEF Locked
  <2> QED BY <2>1, <2>2 DEF Locked
<1>5. answering' = answering /\ \A r \in answering : r \in Threads /\ call'[r] = call[r]
  BY <1>1, <1>2 DEF answering
<1>6. wrMu' = wrMu /\ (wrMu \in Threads => wrMu # t /\ call'[wrMu] = call[wrMu])
  BY <1>1, <1>2 DEF Locked
<1>7. HandOver'
  <2>1. \A u \in Threads : wrMu' = u => call'[u].n <= Len(call'[u].b)
    BY <1>1, <1>6 DEF HandOver
  <2>2. \A r, u \in answering' : r = u
    BY <1>1, <1>5 DEF HandOver
  <2>3. \A r \in answering' : Copied(r)'
    BY <1>1, <1>5, <1>6 DEF HandOver, Copied
  <2> QED BY <2>1, <2>2, <2>3 DEF HandOver
<1>8. underway' = underway
  <2>1. CASE wrMu = None
    BY <1>6, <2>1 DEF underway
  <2>2. CASE wrMu # None
    <3>1. call'[wrMu'] = call[wrMu]
      BY <1>1, <1>6, <2>2
    <3>2. CASE answering = {}
      BY <1>5, <1>6, <3>1, <3>2 DEF underway
    <3>3. CASE answering # {}
      <4>1. PICK r \in answering : r = CHOOSE x \in answering : TRUE
        BY <3>3
      <4>2. call'[CHOOSE x \in answering' : TRUE] = call[CHOOSE x \in answering : TRUE]
        BY <1>5, <4>1
      <4> QED BY <1>5, <1>6, <3>1, <3>3, <4>2 DEF underway
    <3> QED BY <3>2, <3>3
  <2> QED BY <2>1, <2>2
<1>9. PipeFifo'
  BY <1>1, <1>8 DEF PipeFifo
<1> QED BY <1>3, <1>4, <1>7, <1>9 DEF PipeInv

\* The first k of what a write has left.
LEMMA PrefixOfRest ==
  ASSUME NEW S, NEW s \in Seq(S), NEW n \in 0..Len(s), NEW k \in 0..Len(s) - n
  PROVE  /\ Len(SubSeq(s, n + 1, Len(s))) = Len(s) - n
         /\ SubSeq(SubSeq(s, n + 1, Len(s)), 1, k) = SubSeq(s, n + 1, n + k)
         /\ SubSeq(s, n + 1, n + k) \in Seq(S) /\ Len(SubSeq(s, n + 1, n + k)) = k
<1> DEFINE r == SubSeq(s, n + 1, Len(s))
           p == SubSeq(r, 1, k)
           q == SubSeq(s, n + 1, n + k)
<1>1. Len(s) \in Nat /\ n \in Nat /\ k \in Nat /\ n + k <= Len(s)
  BY LenProperties
<1>2. /\ r \in Seq(S) /\ Len(r) = Len(s) - n
      /\ \A j \in 1..Len(s) - n : r[j] = s[n + j]
  <2>1. /\ n + 1 \in 1..Len(s) + 1 /\ Len(s) \in 0..Len(s) /\ (n + 1) - 1 <= Len(s)
        /\ Len(s) - (n + 1) + 1 = Len(s) - n /\ \A j \in 1..Len(s) - n : (n + 1) + j - 1 = n + j
    BY <1>1
  <2>2. /\ r \in Seq(S) /\ Len(r) = Len(s) - (n + 1) + 1
        /\ \A j \in 1..Len(s) - (n + 1) + 1 : r[j] = s[(n + 1) + j - 1]
    <3> DEFINE a == n + 1
               l == Len(s)
    <3>1. a \in 1..Len(s) + 1 /\ l \in 0..Len(s) /\ a - 1 <= l
      BY <2>1
    <3>2. /\ SubSeq(s, a, l) \in Seq(S) /\ Len(SubSeq(s, a, l)) = l - a + 1
          /\ \A j \in 1..l - a + 1 : SubSeq(s, a, l)[j] = s[a + j - 1]
      <4> HIDE DEF a, l
      <4> QED BY <3>1, SliceProperties
    <3> QED BY <3>2
  <2> QED BY <2>1, <2>2
<1>3. /\ q \in Seq(S) /\ Len(q) = k /\ \A j \in 1..k : q[j] = s[n + j]
  <2>1. /\ n + 1 \in 1..Len(s) + 1 /\ n + k \in 0..Len(s) /\ (n + 1) - 1 <= n + k
        /\ (n + k) - (n + 1) + 1 = k /\ \A j \in 1..k : (n + 1) + j - 1 = n + j
    BY <1>1
  <2>2. /\ q \in Seq(S) /\ Len(q) = (n + k) - (n + 1) + 1
        /\ \A j \in 1..(n + k) - (n + 1) + 1 : q[j] = s[(n + 1) + j - 1]
    BY <2>1, SliceProperties
  <2> QED BY <2>1, <2>2
<1> HIDE DEF r, q
<1>4. /\ p \in Seq(S) /\ Len(p) = k /\ \A j \in 1..k : p[j] = r[j]
  <2>1. /\ 1 \in 1..Len(r) + 1 /\ k \in 0..Len(r) /\ 1 - 1 <= k
        /\ k - 1 + 1 = k /\ \A j \in 1..k : 1 + j - 1 = j
    BY <1>1, <1>2
  <2>2. /\ p \in Seq(S) /\ Len(p) = k - 1 + 1
        /\ \A j \in 1..k - 1 + 1 : p[j] = r[1 + j - 1]
    BY <1>2, <2>1, SliceProperties
  <2> QED BY <2>1, <2>2
<1> HIDE DEF p
<1>5. \A j \in 1..k : p[j] = q[j]
  BY <1>1, <1>2, <1>3, <1>4
<1>6. p = q
  BY <1>3, <1>4, <1>5, SeqEqual
<1> QED BY <1>2, <1>3, <1>6 DEF p, q, r

\* The writer under wrMu, and what it has handed over when nobody owes it an answer.
LEMMA Writer ==
  ASSUME PipeInv, NEW w0 \in Threads, call[w0].pc \in {"send", "sent"}
  PROVE  /\ wrMu = w0 /\ w0 # None
         /\ call[w0].b \in Seq(Samples) /\ call[w0].n \in Nat /\ Len(call[w0].b) \in Nat
         /\ call[w0].n <= Len(call[w0].b)
         /\ SubSeq(call[w0].b, 1, call[w0].n) \in Seq(Samples)
         /\ answering = {} => got = log \o SubSeq(call[w0].b, 1, call[w0].n)
<1>1. /\ PipeTypeOK /\ Locked /\ HandOver /\ PipeFifo
      /\ call \in [Threads -> CallType]
  BY DEF PipeInv, PipeTypeOK
<1>2. wrMu = w0 /\ w0 # None
  BY <1>1, WritersAssumption DEF Locked
<1>3. call[w0].b \in Seq(Samples) /\ call[w0].n \in Nat
  BY <1>1 DEF CallType
<1>4. Len(call[w0].b) \in Nat /\ call[w0].n <= Len(call[w0].b)
  BY <1>1, <1>2, <1>3, LenProperties DEF HandOver
<1>5. SubSeq(call[w0].b, 1, call[w0].n) \in Seq(Samples)
  <2>1. 1 \in 1..Len(call[w0].b) + 1 /\ call[w0].n \in 0..Len(call[w0].b)
        /\ 1 - 1 <= call[w0].n
    BY <1>3, <1>4
  <2> QED BY <1>3, <2>1, SliceProperties
<1>6. ASSUME answering = {} PROVE got = log \o SubSeq(call[w0].b, 1, call[w0].n)
  <2>1. underway = SubSeq(call[w0].b, 1, call[w0].n) \o <<>>
    BY <1>2, <1>6 DEF underway
  <2> QED BY <1>1, <1>5, <2>1, ConcatEmptySeq DEF PipeFifo
<1> QED BY <1>2, <1>3, <1>4, <1>5, <1>6

LEMMA PipeLocked ==
  ASSUME PipeInv, NEW t \in Threads, Lock(t)
  PROVE  PipeInv'
<1>1. /\ PipeTypeOK /\ Locked /\ HandOver /\ PipeFifo
      /\ call \in [Threads -> CallType] /\ log \in Seq(Samples)
  BY DEF PipeInv, PipeTypeOK
<1>2. /\ call[t].pc = "lock" /\ wrMu = None /\ wrMu' = t
      /\ call' = [call EXCEPT ![t].pc = "send"]
      /\ UNCHANGED <<done, rerr, werr, got, log, short>>
  BY DEF Lock, wrMuFree
<1>3. /\ call'[t] = [call[t] EXCEPT !.pc = "send"]
      /\ \A u \in Threads : u # t => call'[u] = call[u]
  BY <1>1, <1>2
<1>4. /\ call[t] \in CallType /\ call[t].n = 0 /\ call'[t] \in CallType
      /\ call'[t].pc = "send" /\ call'[t].n = 0 /\ call'[t].b = call[t].b
      /\ call[t].b \in Seq(Samples)
  BY <1>1, <1>2, <1>3 DEF CallType, Locked
<1>5. PipeTypeOK'
  <2>1. call' \in [Threads -> CallType]
    BY <1>1, <1>2, <1>4
  <2> QED BY <1>1, <1>2, <2>1 DEF PipeTypeOK
<1>6. None \notin Threads /\ t # None
  BY WritersAssumption
<1>7. Locked'
  BY <1>1, <1>2, <1>3, <1>4, <1>6 DEF Locked
<1>8. answering = {} /\ answering' = {}
  <2>1. answering = {}
    BY <1>1, <1>2, <1>6 DEF HandOver, Copied
  <2> QED BY <1>2, <1>3, <1>4, <2>1 DEF answering
<1>9. HandOver'
  <2>1. call'[t].n <= Len(call'[t].b)
    BY <1>4, LenProperties
  <2> QED BY <1>2, <1>8, <2>1 DEF HandOver
<1>10. PipeFifo'
  <2>1. got = log \o <<>> /\ short = {}
    BY <1>1, <1>2 DEF PipeFifo, underway
  <2>2. underway' = SubSeq(call[t].b, 1, 0) \o <<>>
    BY <1>2, <1>4, <1>6, <1>8 DEF underway
  <2>3. SubSeq(call[t].b, 1, 0) = <<>>
    BY <1>4
  <2>4. <<>> \o <<>> = <<>>
    BY <1>1, ConcatEmptySeq
  <2> QED BY <1>2, <2>1, <2>2, <2>3, <2>4 DEF PipeFifo
<1> QED BY <1>5, <1>7, <1>9, <1>10 DEF PipeInv

\* A reader copies: what it has is what comes next of the write.
LEMMA PipeTransferred ==
  ASSUME PipeInv, NEW w0 \in Threads, NEW r \in Threads, r # w0, Transfer(w0, r)
  PROVE  PipeInv'
<1>1. /\ PipeTypeOK /\ Locked /\ HandOver /\ PipeFifo
      /\ call \in [Threads -> CallType] /\ log \in Seq(Samples) /\ got \in Seq(Samples)
  BY DEF PipeInv, PipeTypeOK
<1> DEFINE b == call[w0].b
           n == call[w0].n
           nr == Min({call[r].n, Len(rest(call[w0]))})
           d == SubSeq(rest(call[w0]), 1, nr)
<1>2. /\ call[w0].pc = "send" /\ call[r].pc = "recv"
      /\ call' = [call EXCEPT ![w0].pc = "sent", ![r].pc = "answer", ![r].b = d]
      /\ got' = got \o d
      /\ UNCHANGED <<wrMu, done, rerr, werr, log, short>>
  BY DEF Transfer
<1>3. /\ wrMu = w0 /\ w0 # None /\ b \in Seq(Samples) /\ n \in Nat /\ Len(b) \in Nat
      /\ n <= Len(b) /\ SubSeq(b, 1, n) \in Seq(Samples)
      /\ answering = {} => got = log \o SubSeq(b, 1, n)
  BY <1>2, Writer
<1>4. answering = {}
  BY <1>1, <1>2, <1>3 DEF HandOver, Copied
<1>5. /\ nr \in 0..Len(b) - n
      /\ d = SubSeq(b, n + 1, n + nr) /\ d \in Seq(Samples) /\ Len(d) = nr
  <2>1. n \in 0..Len(b)
    BY <1>3
  <2>2. Len(SubSeq(b, n + 1, Len(b))) = Len(b) - n
    <3>1. 0 \in 0..Len(b) - n
      BY <1>3
    <3> QED BY <1>3, <2>1, <3>1, PrefixOfRest
  <2>3. rest(call[w0]) = SubSeq(b, n + 1, Len(b))
    BY DEF rest
  <2>4. call[r].n \in Nat
    BY <1>1 DEF CallType
  <2> DEFINE S == {call[r].n, Len(rest(call[w0]))}
  <2>5. S \in SUBSET Nat /\ S # {} /\ Len(b) - n \in S
    BY <1>3, <2>2, <2>3, <2>4
  <2>6. Min(S) \in S /\ \A y \in S : Min(S) <= y
    <3> HIDE DEF S
    <3> QED BY <2>5, MinIsLeast
  <2>7. nr = Min(S)
    OBVIOUS
  <2>8. nr \in Nat /\ nr <= Len(b) - n
    <3> HIDE DEF S, nr
    <3> QED BY <2>5, <2>6, <2>7
  <2>9. nr \in 0..Len(b) - n
    <3> HIDE DEF S, nr
    <3> QED BY <1>3, <2>8
  <2> HIDE DEF nr
  <2>10. /\ SubSeq(SubSeq(b, n + 1, Len(b)), 1, nr) = SubSeq(b, n + 1, n + nr)
         /\ SubSeq(b, n + 1, n + nr) \in Seq(Samples) /\ Len(SubSeq(b, n + 1, n + nr)) = nr
    <3> HIDE DEF b, n
    <3> QED BY <1>3, <2>1, <2>9, PrefixOfRest
  <2>11. d = SubSeq(b, n + 1, n + nr)
    BY <2>3, <2>10
  <2> QED BY <2>9, <2>10, <2>11
<1> HIDE DEF nr, d
<1>6. /\ call'[w0] = [call[w0] EXCEPT !.pc = "sent"]
      /\ call'[r] = [call[r] EXCEPT !.pc = "answer", !.b = d]
      /\ \A u \in Threads : u # w0 /\ u # r => call'[u] = call[u]
  BY <1>1, <1>2
<1>7. /\ call'[w0] \in CallType /\ call'[w0].pc = "sent" /\ call'[w0].b = b /\ call'[w0].n = n
      /\ call'[r] \in CallType /\ call'[r].pc = "answer" /\ call'[r].b = d
  <2>1. call[w0] \in CallType /\ call[r] \in CallType
    BY <1>1
  <2> QED BY <1>5, <1>6, <2>1 DEF CallType
<1>8. PipeTypeOK'
  <2>1. call' \in [Threads -> CallType]
    <3>1. \A u \in Threads : call'[u] \in CallType
      BY <1>1, <1>6, <1>7
    <3> QED BY <1>1, <1>2, <3>1
  <2>2. got' \in Seq(Samples)
    BY <1>1, <1>2, <1>5, ConcatProperties
  <2> QED BY <1>1, <1>2, <2>1, <2>2 DEF PipeTypeOK
<1>9. Locked'
  BY <1>1, <1>2, <1>3, <1>6, <1>7 DEF Locked
<1>10. answering' = {r}
  <2>1. \A u \in Threads : call'[u].pc = "answer" => u = r
    BY <1>4, <1>6, <1>7 DEF answering
  <2>2. \A u : u \in answering' <=> u \in Threads /\ call'[u].pc = "answer"
    BY DEF answering
  <2> QED BY <1>7, <2>1, <2>2
<1>11. HandOver'
  <2>1. Copied(r)'
    <3>1. call'[wrMu'].n + Len(call'[r].b) <= Len(call'[wrMu'].b)
      <4>1. n + nr <= Len(b)
        <5> HIDE DEF b, n
        <5> QED BY <1>3, <1>5
      <4>2. call'[wrMu'].n = n /\ Len(call'[r].b) = nr /\ call'[wrMu'].b = b
        BY <1>2, <1>3, <1>5, <1>7
      <4> QED BY <4>1, <4>2
    <3>2. call'[r].b = SubSeq(call'[wrMu'].b, call'[wrMu'].n + 1,
                              call'[wrMu'].n + Len(call'[r].b))
      BY <1>2, <1>3, <1>5, <1>7
    <3> QED BY <1>2, <1>3, <1>7, <3>1, <3>2 DEF Copied
  <2>2. \A t \in Threads : wrMu' = t => call'[t].n <= Len(call'[t].b)
    BY <1>2, <1>3, <1>7
  <2> QED BY <1>10, <2>1, <2>2 DEF HandOver
<1>12. PipeFifo'
  <2>1. underway' = SubSeq(b, 1, n) \o d
    <3>1. call'[CHOOSE x \in answering' : TRUE].b = d
      BY <1>7, <1>10, Answerers
    <3> QED BY <1>2, <1>3, <1>7, <1>10, <3>1 DEF underway
  <2>2. got' = log \o (SubSeq(b, 1, n) \o d)
    <3> DEFINE p == SubSeq(b, 1, n)
    <3>1. got' = (log \o p) \o d /\ p \in Seq(Samples)
      BY <1>2, <1>3, <1>4
    <3> HIDE DEF p
    <3>2. log \in Seq(Samples) /\ d \in Seq(Samples) /\ p \in Seq(Samples)
      BY <1>1, <1>5, <3>1
    <3>3. (log \o p) \o d = log \o (p \o d)
      BY <3>2, ConcatAssociative
    <3>4. got' = log \o (p \o d)
      BY <3>1, <3>3
    <3> QED BY <3>4 DEF p
  <2> QED BY <1>1, <1>2, <2>1, <2>2 DEF PipeFifo
<1> QED BY <1>8, <1>9, <1>11, <1>12 DEF PipeInv

\* The writer leaves with the lock; the others have not moved.
LEMMA PipeUnlocked ==
  ASSUME PipeInv, NEW w0 \in Threads, call[w0].pc \in {"send", "sent"}, wrMu' = None,
         call' \in [Threads -> CallType],
         call'[w0].pc = "ret",
         \A u \in Threads : u # w0 => call'[u] = call[u] \/ call'[u].pc = "ret",
         \A u \in Threads : call'[u].pc # "answer",
         UNCHANGED <<done, rerr, werr, got, short>>,
         log' = got
  PROVE  PipeInv'
<1>1. PipeTypeOK /\ Locked /\ PipeFifo /\ got \in Seq(Samples) /\ wrMu = w0
  BY Writer DEF PipeInv, PipeTypeOK
<1>2. None \notin Threads
  BY WritersAssumption
<1>3. PipeTypeOK'
  BY <1>1 DEF PipeTypeOK
<1>4. Locked'
  <2>1. ASSUME NEW u \in Threads
        PROVE  call'[u].pc \notin {"send", "sent"} /\ (call'[u].pc = "lock" => call'[u].n = 0)
    BY <1>1 DEF Locked
  <2> QED BY <1>2, <2>1 DEF Locked
<1>5. answering' = {}
  BY DEF answering
<1>6. HandOver'
  BY <1>2, <1>5 DEF HandOver
<1>7. PipeFifo'
  BY <1>1, ConcatEmptySeq DEF PipeFifo, underway
<1> QED BY <1>3, <1>4, <1>6, <1>7 DEF PipeInv

LEMMA PipeWriteClosed ==
  ASSUME PipeInv, NEW t \in Threads, WriteClosed(t)
  PROVE  PipeInv'
<1>1. /\ PipeTypeOK /\ HandOver /\ call \in [Threads -> CallType]
      /\ rerr \in Errors /\ werr \in Errors
  BY DEF PipeInv, PipeTypeOK
<1>2. /\ call[t].pc = "send" /\ wrMu' = None
      /\ call' = [call EXCEPT ![t] = Ret(writeCloseError)]
      /\ log' = log \o SubSeq(call[t].b, 1, call[t].n)
      /\ UNCHANGED <<done, rerr, werr, got, short>>
  BY DEF WriteClosed
<1>3. wrMu = t /\ (answering = {} => got = log \o SubSeq(call[t].b, 1, call[t].n))
  BY <1>2, Writer
<1>4. answering = {}
  BY <1>1, <1>2, <1>3 DEF HandOver, Copied
<1>5. Ret(writeCloseError) \in CallType /\ Ret(writeCloseError).pc = "ret"
  <2>1. writeCloseError \in Errors
    BY <1>1 DEF writeCloseError, Errors
  <2> QED BY <2>1 DEF Ret, CallType
<1>6. /\ call' \in [Threads -> CallType] /\ call'[t].pc = "ret"
      /\ \A u \in Threads : u # t => call'[u] = call[u]
  BY <1>1, <1>2, <1>5
<1>7. \A u \in Threads : call'[u].pc # "answer"
  BY <1>4, <1>6 DEF answering
<1>8. log' = got
  BY <1>2, <1>3, <1>4
<1> QED BY <1>2, <1>6, <1>7, <1>8, PipeUnlocked

\* The reader answers: what it copied is handed over.
LEMMA PipeAnswered ==
  ASSUME PipeInv, NEW w0 \in Threads, NEW r \in Threads, r # w0, Answer(w0, r)
  PROVE  PipeInv'
<1>1. /\ PipeTypeOK /\ Locked /\ HandOver /\ PipeFifo
      /\ call \in [Threads -> CallType] /\ log \in Seq(Samples) /\ got \in Seq(Samples)
  BY DEF PipeInv, PipeTypeOK
<1> DEFINE b == call[w0].b
           m == call[w0].n
           n == call[w0].n + Len(call[r].b)
           p == SubSeq(b, 1, n)
<1>2. /\ call[w0].pc = "sent" /\ call[r].pc = "answer"
      /\ call' = [call EXCEPT ![r] = Idle,
                     ![w0] = IF n < Len(b) THEN [@ EXCEPT !.pc = "send", !.n = n] ELSE Idle]
      /\ IF n < Len(b) THEN UNCHANGED <<wrMu, log, short>>
         ELSE wrMu' = None /\ log' = log \o p
              /\ short' = IF n = Len(b) THEN short ELSE short \cup {b}
      /\ UNCHANGED <<done, rerr, werr, got>>
  BY DEF Answer
<1>3. /\ wrMu = w0 /\ w0 # None /\ b \in Seq(Samples) /\ m \in Nat /\ Len(b) \in Nat
      /\ m <= Len(b)
  BY <1>2, Writer
<1>4. answering = {r} /\ Copied(r)
  <2>1. r \in answering
    BY <1>2 DEF answering
  <2> QED BY <1>1, <2>1 DEF HandOver
<1>5. /\ call[r].b \in Seq(Samples) /\ Len(call[r].b) \in Nat
      /\ n \in Nat /\ n \in m..Len(b) /\ call[r].b = SubSeq(b, m + 1, n)
  <2>1. call[r].b \in Seq(Samples)
    BY <1>1 DEF CallType
  <2>2. Len(call[r].b) \in Nat
    BY <2>1, LenProperties
  <2>3. n <= Len(b) /\ call[r].b = SubSeq(b, m + 1, n)
    BY <1>3, <1>4 DEF Copied
  <2> QED BY <1>3, <2>1, <2>2, <2>3
<1>6. got = log \o p /\ p \in Seq(Samples)
  <2>1. underway = SubSeq(b, 1, m) \o call[r].b
    <3>1. call[CHOOSE x \in answering : TRUE].b = call[r].b
      BY <1>4, Answerers
    <3> QED BY <1>3, <1>4, <3>1 DEF underway
  <2>2. SubSeq(b, 1, m) \o SubSeq(b, m + 1, n) = SubSeq(b, 1, n)
    <3>1. 1 \in 1..Len(b) + 1 /\ m \in 1 - 1..Len(b) /\ n \in m..Len(b)
      BY <1>3, <1>5
    <3> HIDE DEF b, m, n
    <3> QED BY <1>3, <3>1, ConcatAdjacentSubSeq
  <2>3. p \in Seq(Samples)
    <3>1. 1 \in 1..Len(b) + 1 /\ n \in 0..Len(b) /\ 1 - 1 <= n
      BY <1>3, <1>5
    <3> HIDE DEF b, n
    <3> QED BY <1>3, <3>1, SliceProperties
  <2> QED BY <1>1, <1>5, <2>1, <2>2, <2>3 DEF PipeFifo
<1>7. Idle \in CallType /\ Idle.pc = "ret"
  <2>1. <<>> \in Seq(Samples)
    OBVIOUS
  <2> QED BY <2>1 DEF Idle, Ret, CallType, Errors
<1> HIDE DEF p, n
<1>8. CASE n < Len(b)
  <2> DEFINE c == [call[w0] EXCEPT !.pc = "send", !.n = n]
  <2>1. /\ call'[r] = Idle /\ call'[w0] = c
        /\ \A u \in Threads : u # w0 /\ u # r => call'[u] = call[u]
    BY <1>1, <1>2, <1>8
  <2>2. c \in CallType /\ c.pc = "send" /\ c.n = n /\ c.b = b
    <3>1. call[w0] \in CallType
      BY <1>1
    <3> QED BY <1>5, <3>1 DEF CallType
  <2>3. UNCHANGED <<wrMu, log, short, done, rerr, werr, got>>
    BY <1>2, <1>8
  <2> HIDE DEF c
  <2>4. PipeTypeOK'
    <3>1. \A u \in Threads : call'[u] \in CallType
      BY <1>1, <1>7, <2>1, <2>2
    <3>2. call' \in [Threads -> CallType]
      BY <1>1, <1>2, <3>1
    <3> QED BY <1>1, <2>3, <3>2 DEF PipeTypeOK
  <2>5. Locked'
    BY <1>1, <1>2, <1>3, <1>7, <2>1, <2>2, <2>3 DEF Locked
  <2>6. answering' = {}
    <3>1. \A u \in Threads : call'[u].pc # "answer"
      BY <1>4, <1>7, <2>1, <2>2 DEF answering
    <3> QED BY <3>1 DEF answering
  <2>7. HandOver'
    <3>1. n <= Len(b)
      BY <1>3, <1>5
    <3> QED BY <1>3, <2>1, <2>2, <2>3, <2>6, <3>1 DEF HandOver
  <2>8. PipeFifo'
    <3>1. underway' = p \o <<>>
      BY <1>3, <2>1, <2>2, <2>3, <2>6 DEF underway, p
    <3>2. p \o <<>> = p
      BY <1>6, ConcatEmptySeq
    <3> QED BY <1>1, <1>6, <2>3, <3>1, <3>2 DEF PipeFifo
  <2> QED BY <2>4, <2>5, <2>7, <2>8 DEF PipeInv
<1>9. CASE ~(n < Len(b))
  <2>1. n = Len(b)
    BY <1>3, <1>5, <1>9
  <2>2. /\ call'[r] = Idle /\ call'[w0] = Idle
        /\ \A u \in Threads : u # w0 /\ u # r => call'[u] = call[u]
    BY <1>1, <1>2, <1>9
  <2>3. wrMu' = None /\ log' = got /\ UNCHANGED <<done, rerr, werr, got, short>>
    BY <1>2, <1>6, <1>9, <2>1
  <2>4. call' \in [Threads -> CallType]
    <3>1. \A u \in Threads : call'[u] \in CallType
      BY <1>1, <1>7, <2>2
    <3> QED BY <1>1, <1>2, <3>1
  <2>5. \A u \in Threads : call'[u].pc # "answer"
    BY <1>4, <1>7, <2>2 DEF answering
  <2>6. \A u \in Threads : u # w0 => call'[u] = call[u] \/ call'[u].pc = "ret"
    BY <1>7, <2>2
  <2>7. call'[w0].pc = "ret" /\ call[w0].pc \in {"send", "sent"}
    BY <1>2, <1>7, <2>2
  <2> QED BY <2>3, <2>4, <2>5, <2>6, <2>7, PipeUnlocked
<1> QED BY <1>8, <1>9

\* What the threads of the chain do to the pipe: only the reader reads, and it does
\* nothing else.
PipeMove ==
  \/ \E t \in Threads : PipeStep(t)
  \/ \E t \in Threads \ {Rd}, b \in Seq(Samples) : Write(t, b)
  \/ \E n \in Nat : Read(Rd, n)
  \/ \E err \in {None, "err"} : CloseRead(RdCloser, err)
  \/ \E t \in Threads \ {Rd} : CloseWrite(t, None)
  \/ UNCHANGED pipeVars

LEMMA PipeSteps ==
  ASSUME PipeInv, PipeMove
  PROVE  PipeInv'
<1>1. /\ PipeTypeOK /\ call \in [Threads -> CallType] /\ done \in BOOLEAN
      /\ rerr \in Errors /\ werr \in Errors
  BY DEF PipeInv, PipeTypeOK
<1>2. readCloseError \in Errors /\ writeCloseError \in Errors
  BY <1>1 DEF readCloseError, writeCloseError, Errors
<1>3. <<>> \in Seq(Samples)
  OBVIOUS
<1>4. \A e \in Errors : Ret(e) \in CallType /\ Ret(e).pc = "ret"
  BY <1>3 DEF Ret, CallType
<1>5. None \in Errors /\ Idle = Ret(None) /\ Idle \in CallType /\ Idle.n = 0
  BY <1>4 DEF Idle, Errors, Ret
<1>6. ASSUME NEW t \in Threads, NEW b \in Seq(Samples), Write(t, b) PROVE PipeInv'
  <2> DEFINE c == IF done THEN Ret(writeCloseError)
                  ELSE [Idle EXCEPT !.pc = "lock", !.b = b]
  <2>1. /\ call[t].pc = "ret" /\ call' = [call EXCEPT ![t] = c]
        /\ UNCHANGED <<wrMu, done, rerr, werr, got, log, short>>
    BY <1>6 DEF Write, free
  <2>2. c \in CallType /\ c.pc \in {"ret", "lock"} /\ (c.pc = "lock" => c.n = 0)
    <3> DEFINE i == [Idle EXCEPT !.pc = "lock", !.b = b]
    <3>1. i \in CallType /\ i.pc = "lock" /\ i.n = 0
      BY <1>5 DEF CallType
    <3> QED BY <1>2, <1>4, <3>1
  <2> HIDE DEF c
  <2> QED BY <1>1, <2>1, <2>2, PipeAside
<1>7. ASSUME NEW t \in Threads, NEW n \in Nat, Read(t, n) PROVE PipeInv'
  <2> DEFINE c == IF done THEN Ret(readCloseError)
                  ELSE [Idle EXCEPT !.pc = "recv", !.n = n]
  <2>1. /\ call[t].pc = "ret" /\ call' = [call EXCEPT ![t] = c]
        /\ UNCHANGED <<wrMu, done, rerr, werr, got, log, short>>
    BY <1>7 DEF Read, free
  <2>2. c \in CallType /\ c.pc \in {"ret", "recv"}
    <3> DEFINE i == [Idle EXCEPT !.pc = "recv", !.n = n]
    <3>1. i \in CallType /\ i.pc = "recv"
      BY <1>5 DEF CallType
    <3> QED BY <1>2, <1>4, <3>1
  <2> HIDE DEF c
  <2> QED BY <1>1, <2>1, <2>2, PipeAside
<1>8. ASSUME NEW t \in Threads, NEW err \in {None, "err"}, CloseRead(t, err) \/ CloseWrite(t, err)
      PROVE  PipeInv'
  <2> DEFINE c == [Idle EXCEPT !.pc = "close"]
  <2>1. /\ call[t].pc = "ret" /\ call' = [call EXCEPT ![t] = c]
        /\ UNCHANGED <<wrMu, done, got, log, short>>
    BY <1>8 DEF CloseRead, CloseWrite, free
  <2>2. rerr' \in Errors /\ werr' \in Errors
    BY <1>1, <1>8 DEF CloseRead, CloseWrite, Store, Errors
  <2>3. c \in CallType /\ c.pc = "close"
    BY <1>5 DEF CallType
  <2> HIDE DEF c
  <2> QED BY <1>1, <2>1, <2>2, <2>3, PipeAside
<1>9. ASSUME NEW t \in Threads, ReadClosed(t) PROVE PipeInv'
  <2>1. /\ call[t].pc = "recv" /\ call' = [call EXCEPT ![t] = Ret(readCloseError)]
        /\ UNCHANGED <<wrMu, done, rerr, werr, got, log, short>>
    BY <1>9 DEF ReadClosed
  <2>2. Ret(readCloseError) \in CallType /\ Ret(readCloseError).pc = "ret"
    BY <1>2, <1>4
  <2> QED BY <1>1, <2>1, <2>2, PipeAside
<1>10. ASSUME NEW t \in Threads, CloseDone(t) PROVE PipeInv'
  <2>1. /\ call[t].pc = "close" /\ call' = [call EXCEPT ![t] = Ret(None)] /\ done' = TRUE
        /\ UNCHANGED <<wrMu, rerr, werr, got, log, short>>
    BY <1>10 DEF CloseDone
  <2>2. Ret(None) \in CallType /\ Ret(None).pc = "ret"
    BY <1>4, <1>5
  <2> QED BY <1>1, <2>1, <2>2, PipeAside
<1>11. ASSUME NEW t \in Threads, PipeStep(t) PROVE PipeInv'
  BY <1>9, <1>10, <1>11, PipeLocked, PipeWriteClosed, PipeTransferred, PipeAnswered
     DEF PipeStep
<1>12. CASE UNCHANGED pipeVars
  <2>1. UNCHANGED <<wrMu, done, rerr, werr, call, got, log, short>>
    BY <1>12 DEF pipeVars
  <2> QED BY <2>1 DEF PipeInv, PipeTypeOK, Locked, HandOver, Copied, PipeFifo, underway,
                      answering
<1>13. Rd \in Threads /\ RdCloser \in Threads
  BY WritersAssumption
<1> QED BY <1>6, <1>7, <1>8, <1>11, <1>12, <1>13 DEF PipeMove

----------------------------------------------------------------------------
(* The chain in front of the pipe.                                         *)

FFType == [pc : {"idle", "lock", "flush", "frame", "tail", "flushed", "close"},
           in : Seq(Samples), it : Seq(Samples), err : Errors]

SWType == [pc : {"idle", "load", "each", "called"}, f : Seq(Samples),
           ts : Seq(Leaf), to : Seq(Leaf), err : Errors]

ChainTypeOK ==
  /\ buf \in Seq(Samples) /\ w \in Seq(Leaf) /\ given \in [Producers -> Nat]
  /\ ff \in [Threads -> FFType] /\ sw \in [Threads -> SWType]
  /\ cl \in [Threads -> Seq(Leaf)]

\* A write that is called has a writer that it is for.
CallHasTarget == \A t \in Threads : sw[t].pc = "called" => sw[t].ts # <<>>

\* The reader writes and closes nothing.
ReaderOnly == ff[Rd].pc = "idle" /\ sw[Rd].pc = "idle" /\ cl[Rd] = <<>>

ChainInv == ChainTypeOK /\ CallHasTarget /\ ReaderOnly

LEMMA ChainStarts == Init => ChainInv
<1> SUFFICES ASSUME Init PROVE ChainInv
  OBVIOUS
<1>1. <<>> \in Seq(Samples) /\ <<>> \in Seq(Leaf)
  OBVIOUS
<1>2. FFIdle \in FFType /\ SWIdle \in SWType /\ FFIdle.pc = "idle" /\ SWIdle.pc = "idle"
  BY <1>1 DEF FFIdle, SWIdle, FFType, SWType, Errors
<1>3. w \in Seq(Leaf) /\ Rd \in Threads
  BY WritersAssumption DEF Init, Leaf
<1>4. ChainTypeOK
  BY <1>1, <1>2, <1>3 DEF Init, ChainTypeOK
<1>5. CallHasTarget /\ ReaderOnly
  BY <1>2, <1>3 DEF Init, CallHasTarget, ReaderOnly
<1> QED BY <1>4, <1>5 DEF ChainInv

\* A thread that is not the reader changes its own part of the chain.
LEMMA ChainMoves ==
  ASSUME ChainInv, NEW t \in Threads \ {Rd}, NEW f \in FFType, NEW s \in SWType,
         NEW c \in Seq(Leaf), s.pc = "called" => s.ts # <<>>,
         ff' = [ff EXCEPT ![t] = f], sw' = [sw EXCEPT ![t] = s], cl' = [cl EXCEPT ![t] = c],
         buf' \in Seq(Samples), w' \in Seq(Leaf), given' \in [Producers -> Nat]
  PROVE  ChainInv'
<1>1. /\ ff \in [Threads -> FFType] /\ sw \in [Threads -> SWType]
      /\ cl \in [Threads -> Seq(Leaf)] /\ Rd \in Threads /\ t # Rd /\ t \in Threads
  BY WritersAssumption DEF ChainInv, ChainTypeOK
<1>2. ChainTypeOK'
  BY <1>1 DEF ChainTypeOK
<1>3. CallHasTarget'
  BY <1>1 DEF ChainInv, CallHasTarget
<1>4. ReaderOnly'
  BY <1>1 DEF ChainInv, ReaderOnly
<1> QED BY <1>2, <1>3, <1>4 DEF ChainInv

LEMMA ChainTypes ==
  ASSUME ChainInv, NEW t \in Threads
  PROVE  /\ ff[t] \in FFType /\ sw[t] \in SWType /\ cl[t] \in Seq(Leaf)
         /\ ff = [ff EXCEPT ![t] = ff[t]] /\ sw = [sw EXCEPT ![t] = sw[t]]
         /\ cl = [cl EXCEPT ![t] = cl[t]]
         /\ buf \in Seq(Samples) /\ w \in Seq(Leaf) /\ given \in [Producers -> Nat]
         /\ sw[t].pc = "called" => sw[t].ts # <<>>
         /\ ff[t].pc # "idle" \/ sw[t].pc # "idle" \/ cl[t] # <<>> => t # Rd
<1>1. /\ ff \in [Threads -> FFType] /\ sw \in [Threads -> SWType]
      /\ cl \in [Threads -> Seq(Leaf)]
  BY DEF ChainInv, ChainTypeOK
<1>2. /\ ff = [ff EXCEPT ![t] = ff[t]] /\ sw = [sw EXCEPT ![t] = sw[t]]
      /\ cl = [cl EXCEPT ![t] = cl[t]]
  BY <1>1
<1>3. buf \in Seq(Samples) /\ w \in Seq(Leaf) /\ given \in [Producers -> Nat]
  BY DEF ChainInv, ChainTypeOK
<1>4. sw[t].pc = "called" => sw[t].ts # <<>>
  BY DEF ChainInv, CallHasTarget
<1>5. ff[t].pc # "idle" \/ sw[t].pc # "idle" \/ cl[t] # <<>> => t # Rd
  BY DEF ChainInv, ReaderOnly
<1> QED BY <1>1, <1>2, <1>3, <1>4, <1>5

LEMMA ChunkIs ==
  ASSUME ChainInv, NEW p \in Producers, NEW n \in Chunks[p]
  PROVE  /\ n \in Nat /\ chunk(p, n) \in Seq(Samples)
         /\ [given EXCEPT ![p] = @ + n] \in [Producers -> Nat]
<1>1. n \in Nat
  BY WritersAssumption DEF Producers
<1>2. given \in [Producers -> Nat] /\ given[p] \in Nat
  BY DEF ChainInv, ChainTypeOK
<1>3. \A i \in 1..n : <<p, given[p] + i>> \in Samples
  BY <1>1, <1>2 DEF Samples
<1>4. chunk(p, n) \in Seq(Samples)
  BY <1>1, <1>3 DEF chunk
<1> QED BY <1>1, <1>2, <1>4

LEMMA SwStartIs ==
  ASSUME NEW f \in Seq(Samples)
  PROVE  swStart(f) \in SWType /\ swStart(f).pc \in {"each", "load"} /\ swStart(f).f = f
<1>1. <<>> \in Seq(Samples) /\ <<>> \in Seq(Leaf)
  OBVIOUS
<1>2. SWIdle \in SWType
  BY <1>1 DEF SWIdle, SWType, Errors
<1> QED BY <1>2 DEF swStart, SWType

\* The calls.
LEMMA ChainCalls ==
  ASSUME ChainInv, Calls
  PROVE  ChainInv'
<1>0. /\ Rd \in Threads /\ Ctl \in Threads \ {Rd} /\ Producers \subseteq Threads \ {Rd}
      /\ Producers = Framed \cup Direct
  BY WritersAssumption DEF Producers
<1>1. ASSUME NEW p \in Direct, WriteDirect(p) PROVE ChainInv'
  <2>1. p \in Producers /\ p \in Threads \ {Rd} /\ p \in Threads
    BY <1>0
  <2>2. PICK n \in Chunks[p] : /\ sw' = [sw EXCEPT ![p] = swStart(chunk(p, n))]
                               /\ given' = [given EXCEPT ![p] = @ + n]
    BY <1>1 DEF WriteDirect
  <2>3. UNCHANGED <<buf, ff, w, cl>>
    BY <1>1 DEF WriteDirect
  <2>4. chunk(p, n) \in Seq(Samples) /\ given' \in [Producers -> Nat]
    BY <2>1, <2>2, ChunkIs
  <2>5. swStart(chunk(p, n)) \in SWType /\ swStart(chunk(p, n)).pc # "called"
    BY <2>4, SwStartIs
  <2> QED BY <2>1, <2>2, <2>3, <2>4, <2>5, ChainTypes, ChainMoves
<1>2. ASSUME NEW p \in Framed, WriteFrames(p) PROVE ChainInv'
  <2>1. p \in Producers /\ p \in Threads \ {Rd} /\ p \in Threads
    BY <1>0
  <2>2. PICK n \in Chunks[p] :
          /\ ff' = [ff EXCEPT ![p] = [ff[p] EXCEPT !.pc = "lock", !.in = chunk(p, n)]]
          /\ given' = [given EXCEPT ![p] = @ + n]
    BY <1>2 DEF WriteFrames
  <2>3. UNCHANGED <<buf, sw, w, cl>>
    BY <1>2 DEF WriteFrames
  <2>4. chunk(p, n) \in Seq(Samples) /\ given' \in [Producers -> Nat]
    BY <2>1, <2>2, ChunkIs
  <2>5. [ff[p] EXCEPT !.pc = "lock", !.in = chunk(p, n)] \in FFType
    <3>1. ff[p] \in FFType
      BY <2>1, ChainTypes
    <3> QED BY <2>4, <3>1 DEF FFType
  <2> QED BY <2>1, <2>2, <2>3, <2>4, <2>5, ChainTypes, ChainMoves
<1>3. CASE CloseFrames
  <2>1. ff' = [ff EXCEPT ![Ctl] = [ff[Ctl] EXCEPT !.pc = "lock"]] /\ UNCHANGED <<buf, sw, w, cl, given>>
    BY <1>3 DEF CloseFrames
  <2>2. [ff[Ctl] EXCEPT !.pc = "lock"] \in FFType
    <3>1. ff[Ctl] \in FFType
      BY <1>0, ChainTypes
    <3> QED BY <3>1 DEF FFType
  <2> QED BY <1>0, <2>1, <2>2, ChainTypes, ChainMoves
<1>4. CASE Swap
  <2>1. /\ w' \in Targets \cup {<<>>} /\ UNCHANGED <<buf, ff, sw, given>>
        /\ \E old \in {w, <<>>} : cl' = [cl EXCEPT ![Ctl] = old]
    BY <1>4 DEF Swap
  <2>2. w' \in Seq(Leaf)
    <3>1. Targets \subseteq Seq(Leaf)
      BY WritersAssumption DEF Leaf
    <3>2. <<>> \in Seq(Leaf)
      OBVIOUS
    <3> QED BY <2>1, <3>1, <3>2
  <2>3. PICK old \in Seq(Leaf) : cl' = [cl EXCEPT ![Ctl] = old]
    <3>1. w \in Seq(Leaf) /\ <<>> \in Seq(Leaf)
      BY <1>0, ChainTypes
    <3> QED BY <2>1, <3>1
  <2>4. /\ ff[Ctl] \in FFType /\ sw[Ctl] \in SWType
        /\ ff' = [ff EXCEPT ![Ctl] = ff[Ctl]] /\ sw' = [sw EXCEPT ![Ctl] = sw[Ctl]]
        /\ buf' \in Seq(Samples) /\ given' \in [Producers -> Nat]
        /\ sw[Ctl].pc = "called" => sw[Ctl].ts # <<>>
    BY <1>0, <2>1, ChainTypes
  <2> QED BY <1>0, <2>2, <2>3, <2>4, ChainMoves
<1>5. CASE EnableDisable \/ CloseReader
  <2>1. UNCHANGED <<buf, ff, w, sw, cl, given>>
    BY <1>5 DEF EnableDisable, CloseReader
  <2> QED BY <2>1 DEF ChainInv, ChainTypeOK, CallHasTarget, ReaderOnly
<1> QED BY <1>1, <1>2, <1>3, <1>4, <1>5 DEF Calls

\* What a thread does inside a call.
LEMMA ChainRuns ==
  ASSUME ChainInv, PipeTypeOK, NEW t \in Threads, Running(t)
  PROVE  ChainInv'
<1>0. /\ ff[t] \in FFType /\ sw[t] \in SWType /\ cl[t] \in Seq(Leaf)
      /\ ff = [ff EXCEPT ![t] = ff[t]] /\ sw = [sw EXCEPT ![t] = sw[t]]
      /\ cl = [cl EXCEPT ![t] = cl[t]]
      /\ buf \in Seq(Samples) /\ w \in Seq(Leaf) /\ given \in [Producers -> Nat]
      /\ sw[t].pc = "called" => sw[t].ts # <<>>
      /\ ff[t].pc # "idle" \/ sw[t].pc # "idle" \/ cl[t] # <<>> => t # Rd
  BY ChainTypes
<1>1. <<>> \in Seq(Samples) /\ <<>> \in Seq(Leaf)
  OBVIOUS
<1>2. FFIdle \in FFType /\ SWIdle \in SWType /\ SWIdle.pc # "called" /\ None \in Errors
  BY <1>1 DEF FFIdle, SWIdle, FFType, SWType, Errors
<1>3. ff[t].in \in Seq(Samples) /\ ff[t].it \in Seq(Samples)
  BY <1>0 DEF FFType
<1>4. ASSUME NEW err \in Errors, sw[t].ts # <<>>
      PROVE  nextTarget(sw[t], err) \in SWType /\ nextTarget(sw[t], err).pc = "each"
  <2>1. Tail(sw[t].ts) \in Seq(Leaf)
    BY <1>0, <1>4, HeadTailProperties DEF SWType
  <2>2. (IF err # None THEN err ELSE sw[t].err) \in Errors
    BY <1>0 DEF SWType
  <2>3. nextTarget(sw[t], err) = [sw[t] EXCEPT !.pc = "each", !.ts = Tail(sw[t].ts),
                                  !.err = IF err # None THEN err ELSE sw[t].err]
    BY DEF nextTarget
  <2> QED BY <1>0, <2>1, <2>2, <2>3 DEF SWType
<1>5. ASSUME NEW s \in SWType, s.pc # "called", sw' = [sw EXCEPT ![t] = s],
             UNCHANGED <<buf, ff, w, cl, given>>, t # Rd
      PROVE  ChainInv'
  BY <1>0, <1>5, ChainMoves
<1>6. ASSUME NEW f \in FFType, ff' = [ff EXCEPT ![t] = f], t # Rd,
             buf' \in Seq(Samples), UNCHANGED <<sw, w, cl, given>>
      PROVE  ChainInv'
  <2>1. /\ t \in Threads \ {Rd} /\ sw[t] \in SWType /\ cl[t] \in Seq(Leaf)
        /\ sw' = [sw EXCEPT ![t] = sw[t]] /\ cl' = [cl EXCEPT ![t] = cl[t]]
        /\ w' \in Seq(Leaf) /\ given' \in [Producers -> Nat]
        /\ sw[t].pc = "called" => sw[t].ts # <<>>
    BY <1>0, <1>6
  <2> QED BY <1>6, <2>1, ChainMoves
<1>7. CASE PipeStep(t) /\ UNCHANGED chainVars
  <2>1. UNCHANGED <<buf, ff, w, sw, cl, given>>
    BY <1>7 DEF chainVars
  <2> QED BY <2>1 DEF ChainInv, ChainTypeOK, CallHasTarget, ReaderOnly
<1>8. CASE SwitchLoad(t)
  <2>1. /\ sw[t].pc = "load" /\ UNCHANGED <<buf, ff, w, cl, given>>
        /\ sw' = [sw EXCEPT ![t] = [sw[t] EXCEPT !.pc = "each", !.ts = w, !.to = w]]
    BY <1>8 DEF SwitchLoad
  <2>2. /\ [sw[t] EXCEPT !.pc = "each", !.ts = w, !.to = w] \in SWType
        /\ [sw[t] EXCEPT !.pc = "each", !.ts = w, !.to = w].pc # "called"
    BY <1>0 DEF SWType
  <2> QED BY <1>0, <1>5, <2>1, <2>2
<1>9. CASE WriteMem(t)
  <2>1. /\ sw[t].pc = "each" /\ sw[t].ts # <<>> /\ UNCHANGED <<buf, ff, w, cl, given>>
        /\ sw' = [sw EXCEPT ![t] = nextTarget(sw[t], None)]
    BY <1>9 DEF WriteMem
  <2> QED BY <1>0, <1>2, <1>4, <1>5, <2>1
<1>10. CASE WritePipe(t)
  <2> DEFINE s == [sw[t] EXCEPT !.pc = "called"]
  <2>1. /\ sw[t].pc = "each" /\ sw[t].ts # <<>> /\ UNCHANGED <<buf, ff, w, cl, given>>
        /\ sw' = [sw EXCEPT ![t] = s]
    BY <1>10 DEF WritePipe
  <2>2. s \in SWType /\ s.ts # <<>>
    BY <1>0, <2>1 DEF SWType
  <2> HIDE DEF s
  <2> QED BY <1>0, <2>1, <2>2, ChainMoves
<1>11. CASE WrittenPipe(t)
  <2>1. /\ sw[t].pc = "called" /\ UNCHANGED <<buf, ff, w, cl, given>>
        /\ sw' = [sw EXCEPT ![t] = nextTarget(sw[t], call[t].err)]
    BY <1>11 DEF WrittenPipe
  <2>2. call[t].err \in Errors
    BY DEF PipeTypeOK, CallType
  <2> QED BY <1>0, <1>4, <1>5, <2>1, <2>2
<1>12. CASE t \in Direct /\ WrittenDirect(t)
  <2>1. /\ sw[t].pc = "each" /\ sw' = [sw EXCEPT ![t] = SWIdle] /\ UNCHANGED <<buf, ff, w, cl, given>>
    BY <1>12 DEF WrittenDirect, SwitchEnd, swReturned
  <2> QED BY <1>0, <1>2, <1>5, <2>1
<1>13. CASE FramesLock(t)
  <2>1. /\ ff[t].pc = "lock" /\ buf' = buf \o ff[t].in /\ UNCHANGED <<sw, w, cl, given>>
        /\ ff' = [ff EXCEPT ![t] = [FFIdle EXCEPT !.pc = "flush", !.it = buf']]
    BY <1>13 DEF FramesLock
  <2>2. buf' \in Seq(Samples)
    BY <1>0, <1>3, <2>1, ConcatProperties
  <2>3. [FFIdle EXCEPT !.pc = "flush", !.it = buf'] \in FFType
    BY <1>2, <2>2 DEF FFType
  <2> QED BY <1>0, <1>6, <2>1, <2>2, <2>3
<1>14. CASE FlushWrite(t)
  <2> DEFINE n == flushLen(t)
             it == ff[t].it
             s == swStart(SubSeq(it, 1, n))
             g == [ff[t] EXCEPT !.pc = IF n = FrameSize THEN "frame" ELSE "tail",
                                !.it = itAfter(it, n)]
  <2>1. ff[t].pc = "flush" /\ n > 0 /\ UNCHANGED <<buf, w, cl, given>>
    BY <1>14 DEF FlushWrite
  <2>2. ff' = [ff EXCEPT ![t] = g] /\ sw' = [sw EXCEPT ![t] = s]
    BY <1>14 DEF FlushWrite
  <2>3. Len(it) \in Nat /\ FrameSize \in Nat /\ n \in Nat /\ n <= Len(it)
    <3>1. Len(it) \in Nat /\ FrameSize \in Nat
      BY <1>3, WritersAssumption, LenProperties
    <3> QED BY <3>1 DEF flushLen
  <2>4. SubSeq(it, 1, n) \in Seq(Samples)
    <3>1. it \in Seq(Samples) /\ 1 \in 1..Len(it) + 1 /\ n \in 0..Len(it) /\ 1 - 1 <= n
      BY <1>3, <2>3
    <3> HIDE DEF it, n
    <3> QED BY <3>1, SliceProperties
  <2>5. itAfter(it, n) \in Seq(Samples)
    <3>1. SubSeq(it, n + 1, Len(it)) \in Seq(Samples)
      <4> DEFINE a == n + 1
                 z == Len(it)
      <4>1. it \in Seq(Samples) /\ a \in 1..Len(it) + 1 /\ z \in 0..Len(it) /\ a - 1 <= z
        BY <1>3, <2>3
      <4> HIDE DEF it, a, z
      <4>2. SubSeq(it, a, z) \in Seq(Samples)
        BY <4>1, SliceProperties
      <4> QED BY <4>2 DEF a, z
    <3> QED BY <1>3, <3>1 DEF itAfter
  <2>6. s \in SWType /\ s.pc # "called"
    BY <2>4, SwStartIs
  <2>7. g \in FFType
    <3> HIDE DEF n, it
    <3> QED BY <1>0, <2>5 DEF FFType
  <2> HIDE DEF s, g
  <2> QED BY <1>0, <2>1, <2>2, <2>6, <2>7, ChainMoves
<1>15. CASE FlushWritten(t)
  <2> DEFINE g == IF sw[t].err # None THEN [ff[t] EXCEPT !.pc = "flushed", !.err = sw[t].err]
                  ELSE IF ff[t].pc = "tail" THEN [ff[t] EXCEPT !.pc = "flushed", !.it = <<>>]
                  ELSE [ff[t] EXCEPT !.pc = "flush"]
  <2>1. /\ ff[t].pc \in {"frame", "tail"} /\ sw' = [sw EXCEPT ![t] = SWIdle]
        /\ UNCHANGED <<buf, w, cl, given>>
    BY <1>15 DEF FlushWritten, SwitchEnd
  <2>2. ff' = [ff EXCEPT ![t] = g]
    BY <1>15 DEF FlushWritten
  <2>3. g \in FFType
    <3>1. sw[t].err \in Errors
      BY <1>0 DEF SWType
    <3>2. [ff[t] EXCEPT !.pc = "flushed", !.err = sw[t].err] \in FFType
      BY <1>0, <3>1 DEF FFType
    <3>3. [ff[t] EXCEPT !.pc = "flushed", !.it = <<>>] \in FFType
      BY <1>0, <1>1 DEF FFType
    <3>4. [ff[t] EXCEPT !.pc = "flush"] \in FFType
      BY <1>0 DEF FFType
    <3> QED BY <3>2, <3>3, <3>4
  <2> HIDE DEF g
  <2> QED BY <1>0, <1>2, <2>1, <2>2, <2>3, ChainMoves
<1>16. CASE FlushEnd(t)
  <2> DEFINE g == IF t = Ctl THEN [FFIdle EXCEPT !.pc = "close"] ELSE FFIdle
             c == IF t = Ctl THEN w ELSE cl[t]
  <2>1. /\ ff[t].pc \in {"flushed", "flush"} /\ buf' = ff[t].it /\ UNCHANGED <<w, sw, given>>
    BY <1>16 DEF FlushEnd
  <2>2. ff' = [ff EXCEPT ![t] = g]
    BY <1>16 DEF FlushEnd
  <2>3. cl' = [cl EXCEPT ![t] = c]
    BY <1>0, <1>16 DEF FlushEnd
  <2>4. g \in FFType /\ c \in Seq(Leaf)
    BY <1>0, <1>2 DEF FFType
  <2> HIDE DEF g, c
  <2> QED BY <1>0, <1>3, <2>1, <2>2, <2>3, <2>4, ChainMoves
<1>17. CASE t = Ctl /\ FramesClosed
  <2>1. /\ ff[t].pc = "close" /\ ff' = [ff EXCEPT ![t] = FFIdle] /\ UNCHANGED <<buf, sw, w, cl, given>>
    BY <1>17 DEF FramesClosed
  <2> QED BY <1>0, <1>2, <1>6, <2>1
<1>18. CASE CloseMem(t) \/ ClosePipe(t)
  <2> DEFINE c == Tail(cl[t])
  <2>1. /\ cl[t] # <<>> /\ cl' = [cl EXCEPT ![t] = c]
        /\ UNCHANGED <<buf, ff, sw, w, given>>
    BY <1>18 DEF CloseMem, ClosePipe
  <2>2. c \in Seq(Leaf)
    BY <1>0, <2>1, HeadTailProperties
  <2>3. /\ t \in Threads \ {Rd} /\ ff[t] \in FFType /\ sw[t] \in SWType
        /\ ff' = [ff EXCEPT ![t] = ff[t]] /\ sw' = [sw EXCEPT ![t] = sw[t]]
        /\ buf' \in Seq(Samples) /\ w' \in Seq(Leaf) /\ given' \in [Producers -> Nat]
        /\ sw[t].pc = "called" => sw[t].ts # <<>>
    BY <1>0, <2>1
  <2> HIDE DEF c
  <2> QED BY <2>1, <2>2, <2>3, ChainMoves
<1> QED BY <1>7, <1>8, <1>9, <1>10, <1>11, <1>12, <1>13, <1>14, <1>15, <1>16, <1>17, <1>18
        DEF Running

----------------------------------------------------------------------------
(* The chain drives the pipe.                                              *)

LEMMA ChainSteps ==
  ASSUME ChainInv, PipeTypeOK, [Next]_vars
  PROVE  ChainInv'
<1>1. CASE UNCHANGED chainVars
  <2>1. UNCHANGED <<buf, ff, w, sw, cl, given>>
    BY <1>1 DEF chainVars
  <2> QED BY <2>1 DEF ChainInv, ChainTypeOK, CallHasTarget, ReaderOnly
<1>2. UNCHANGED vars \/ ReadPipe => UNCHANGED chainVars
  BY DEF vars, ReadPipe
<1> QED BY <1>1, <1>2, ChainCalls, ChainRuns DEF Next

LEMMA PipeMoves ==
  ASSUME ChainInv, [Next]_vars
  PROVE  PipeMove
<1>1. CASE Calls
  BY <1>1 DEF Calls, WriteDirect, WriteFrames, CloseFrames, Swap, EnableDisable, CloseReader,
              PipeMove, pipeVars
<1>2. CASE ReadPipe
  <2>1. PICK n \in Buffers : Read(Rd, n)
    BY <1>2 DEF ReadPipe
  <2>2. n \in Nat
    BY WritersAssumption
  <2> QED BY <2>1, <2>2 DEF PipeMove
<1>3. ASSUME NEW t \in Threads, Running(t) PROVE PipeMove
  <2>1. CASE WritePipe(t)
    <3>1. sw[t].pc = "each" /\ Write(t, sw[t].f)
      BY <2>1 DEF WritePipe
    <3>2. t # Rd /\ sw[t].f \in Seq(Samples)
      BY <3>1, ChainTypes DEF SWType
    <3> QED BY <3>1, <3>2 DEF PipeMove
  <2>2. CASE ClosePipe(t)
    <3>1. cl[t] # <<>> /\ CloseWrite(t, None)
      BY <2>2 DEF ClosePipe
    <3>2. t # Rd
      BY <3>1, ChainTypes
    <3> QED BY <3>1, <3>2 DEF PipeMove
  <2>3. CASE PipeStep(t)
    BY <2>3 DEF PipeMove
  <2>4. CASE SwitchLoad(t) \/ WriteMem(t) \/ WrittenPipe(t) \/ WrittenDirect(t) \/ FramesLock(t)
    BY <2>4 DEF SwitchLoad, WriteMem, WrittenPipe, WrittenDirect, FramesLock, PipeMove, pipeVars
  <2>5. CASE FlushWrite(t) \/ FlushWritten(t) \/ FlushEnd(t) \/ FramesClosed \/ CloseMem(t)
    BY <2>5 DEF FlushWrite, FlushWritten, FlushEnd, FramesClosed, CloseMem, PipeMove, pipeVars
  <2> QED BY <1>3, <2>1, <2>2, <2>3, <2>4, <2>5 DEF Running
<1>4. CASE UNCHANGED vars
  BY <1>4 DEF vars, PipeMove
<1> QED BY <1>1, <1>2, <1>3, <1>4 DEF Next

(* Whatever the chunks, frames and read buffers, however many goroutines   *)
(* write, swap and close, and at whatever point an end of the pipe closes: *)
(* what readers copied is what the writers handed over, in the order in    *)
(* which they had wrMu, and a write that returned no error handed over all *)
(* it was given (pipe.write, pipe.read).                                   *)
THEOREM PipeFifoHolds == Spec => []PipeFifo
<1>1. Init => PipeInv /\ ChainInv
  BY PipeStarts, ChainStarts DEF Init
<1>2. PipeInv /\ ChainInv /\ [Next]_vars => (PipeInv /\ ChainInv)'
  <2> SUFFICES ASSUME PipeInv, ChainInv, [Next]_vars PROVE PipeInv' /\ ChainInv'
    OBVIOUS
  <2>1. PipeInv'
    BY PipeMoves, PipeSteps
  <2>2. ChainInv'
    BY ChainSteps DEF PipeInv
  <2> QED BY <2>1, <2>2
<1>3. PipeInv => PipeFifo
  BY DEF PipeInv
<1> QED BY <1>1, <1>2, <1>3, PTL DEF Spec

----------------------------------------------------------------------------
(* The errors of a closed pipe.                                            *)

SomeEndClosed == rerr # None \/ werr # None

\* An error is stored before done is closed, and the reader alone reads.
ErrInv ==
  /\ done => SomeEndClosed
  /\ \A t \in Threads : call[t].pc = "close" => SomeEndClosed
  /\ call[Rd].pc \in {"ret", "recv", "answer"}
  /\ \A t \in Threads \ {Rd} : call[t].pc \notin {"recv", "answer"}
  /\ CloseErrors

\* What no step does: it reopens nothing, replaces no error, and gives a call no
\* error but the one that its end sees when done is closed.
ErrMove ==
  /\ done => done'
  /\ done' => done \/ SomeEndClosed
  /\ rerr # None => rerr' = rerr
  /\ werr # None => werr' = werr
  /\ \A t \in Threads :
       \/ call'[t].err \in {None, call[t].err}
       \/ done /\ call'[t].err = IF t = Rd THEN readCloseError ELSE writeCloseError
  /\ \A t \in Threads : call'[t].pc = "close" => call[t].pc = "close" \/ SomeEndClosed'
  /\ call'[Rd].pc \in {"ret", "recv", "answer"}
  /\ \A t \in Threads \ {Rd} : call'[t].pc \notin {"recv", "answer"}

LEMMA ErrStarts == Init => ErrInv
<1> SUFFICES ASSUME Init PROVE ErrInv
  OBVIOUS
<1>1. done = FALSE /\ call = [t \in Threads |-> Idle] /\ Rd \in Threads
  BY WritersAssumption DEF Init, PipeInit
<1>2. Idle.pc = "ret" /\ Idle.err = None
  BY DEF Idle, Ret
<1> QED BY <1>1, <1>2 DEF ErrInv, CloseErrors

LEMMA ErrKept ==
  ASSUME ErrInv, ErrMove PROVE ErrInv'
<1>1. SomeEndClosed => SomeEndClosed'
  BY DEF ErrMove, SomeEndClosed
<1>2. /\ (done => SomeEndClosed)'
      /\ (\A t \in Threads : call[t].pc = "close" => SomeEndClosed)'
      /\ (call[Rd].pc \in {"ret", "recv", "answer"})'
      /\ (\A t \in Threads \ {Rd} : call[t].pc \notin {"recv", "answer"})'
  BY <1>1 DEF ErrInv, ErrMove
<1>3. CloseErrors'
  <2> SUFFICES ASSUME NEW t \in Threads, call'[t].err # None
               PROVE  /\ done'
                      /\ t = Rd => call'[t].err = IF call'[t].err = ErrClosedPipe /\ rerr' # None
                                                  THEN ErrClosedPipe ELSE werr'
                      /\ t # Rd => call'[t].err = IF call'[t].err = ErrClosedPipe /\ werr' # None
                                                  THEN ErrClosedPipe ELSE rerr'
    BY DEF CloseErrors
  <2>1. CASE call'[t].err = call[t].err
    <3>1. /\ done /\ SomeEndClosed
          /\ t = Rd => call[t].err = IF call[t].err = ErrClosedPipe /\ rerr # None
                                     THEN ErrClosedPipe ELSE werr
          /\ t # Rd => call[t].err = IF call[t].err = ErrClosedPipe /\ werr # None
                                     THEN ErrClosedPipe ELSE rerr
      BY <2>1 DEF ErrInv, CloseErrors
    <3> QED BY <2>1, <3>1 DEF ErrMove, SomeEndClosed
  <2>2. CASE done /\ call'[t].err = IF t = Rd THEN readCloseError ELSE writeCloseError
    <3>1. SomeEndClosed
      BY <2>2 DEF ErrInv
    <3> QED BY <2>2, <3>1 DEF ErrMove, SomeEndClosed, readCloseError, writeCloseError
  <2> QED BY <2>1, <2>2 DEF ErrMove
<1> QED BY <1>2, <1>3 DEF ErrInv

\* A step that changes the call of one thread.
LEMMA ErrOne ==
  ASSUME ErrInv, call \in [Threads -> CallType], NEW t \in Threads, NEW c,
         call' = [call EXCEPT ![t] = c], UNCHANGED <<done, rerr, werr>>,
         c.pc # "close", t = Rd => c.pc \in {"ret", "recv", "answer"},
         t # Rd => c.pc \notin {"recv", "answer"},
         \/ c.err \in {None, call[t].err}
         \/ done /\ c.err = IF t = Rd THEN readCloseError ELSE writeCloseError
  PROVE  ErrMove
<1>1. \A u \in Threads : call'[u] = IF u = t THEN c ELSE call[u]
  OBVIOUS
<1>2. Rd \in Threads
  BY WritersAssumption
<1> QED BY <1>1, <1>2 DEF ErrInv, ErrMove

\* A close: its thread has stored the error of its end.
LEMMA ErrClose ==
  ASSUME ErrInv, call \in [Threads -> CallType], NEW t \in Threads \ {Rd},
         call' = [call EXCEPT ![t] = [Idle EXCEPT !.pc = "close"]], UNCHANGED done,
         rerr # None => rerr' = rerr, werr # None => werr' = werr, SomeEndClosed'
  PROVE  ErrMove
<1>1. \A u \in Threads : call'[u] = IF u = t THEN [Idle EXCEPT !.pc = "close"] ELSE call[u]
  OBVIOUS
<1>2. [Idle EXCEPT !.pc = "close"].pc = "close" /\ [Idle EXCEPT !.pc = "close"].err = None
  BY DEF Idle, Ret
<1>3. Rd \in Threads
  BY WritersAssumption
<1> QED BY <1>1, <1>2, <1>3 DEF ErrInv, ErrMove

LEMMA ErrSteps ==
  ASSUME ErrInv, PipeTypeOK, PipeMove PROVE ErrInv'
<1>1. call \in [Threads -> CallType] /\ Rd \in Threads /\ RdCloser \in Threads \ {Rd}
  BY WritersAssumption DEF PipeTypeOK
<1>2. \A e : Ret(e).pc = "ret" /\ Ret(e).err = e /\ Idle = Ret(None)
  BY DEF Ret, Idle
<1>3. ASSUME NEW t \in Threads \ {Rd}, NEW b \in Seq(Samples), Write(t, b) PROVE ErrMove
  <2> DEFINE i == [Idle EXCEPT !.pc = "lock", !.b = b]
             c == IF done THEN Ret(writeCloseError) ELSE i
  <2>1. call' = [call EXCEPT ![t] = c] /\ UNCHANGED <<done, rerr, werr>>
    BY <1>3 DEF Write
  <2>2. i.pc = "lock" /\ i.err = None
    BY DEF Idle, Ret
  <2>3. c.pc \in {"ret", "lock"} /\ (c.err = None \/ (done /\ c.err = writeCloseError))
    BY <1>2, <2>2
  <2> HIDE DEF c
  <2> QED BY <1>1, <2>1, <2>3, ErrOne
<1>4. ASSUME NEW n \in Nat, Read(Rd, n) PROVE ErrMove
  <2> DEFINE i == [Idle EXCEPT !.pc = "recv", !.n = n]
             c == IF done THEN Ret(readCloseError) ELSE i
  <2>1. call' = [call EXCEPT ![Rd] = c] /\ UNCHANGED <<done, rerr, werr>>
    BY <1>4 DEF Read
  <2>2. i.pc = "recv" /\ i.err = None
    BY DEF Idle, Ret
  <2>3. c.pc \in {"ret", "recv"} /\ (c.err = None \/ (done /\ c.err = readCloseError))
    BY <1>2, <2>2
  <2> HIDE DEF c
  <2> QED BY <1>1, <2>1, <2>3, ErrOne
<1>5. ASSUME NEW err \in {None, "err"}, CloseRead(RdCloser, err) PROVE ErrMove
  <2>1. /\ call' = [call EXCEPT ![RdCloser] = [Idle EXCEPT !.pc = "close"]]
        /\ UNCHANGED <<done, werr>>
    BY <1>5 DEF CloseRead
  <2>2. rerr # None => rerr' = rerr
    BY <1>5 DEF CloseRead, Store
  <2>3. rerr' # None
    BY <1>5 DEF CloseRead, Store, None, ErrClosedPipe
  <2> QED BY <1>1, <2>1, <2>2, <2>3, ErrClose DEF SomeEndClosed
<1>6. ASSUME NEW t \in Threads \ {Rd}, CloseWrite(t, None) PROVE ErrMove
  <2>1. /\ call' = [call EXCEPT ![t] = [Idle EXCEPT !.pc = "close"]]
        /\ UNCHANGED <<done, rerr>>
    BY <1>6 DEF CloseWrite
  <2>2. werr # None => werr' = werr
    BY <1>6 DEF CloseWrite, Store
  <2>3. werr' # None
    BY <1>6 DEF CloseWrite, Store, None, EOF
  <2> QED BY <1>1, <2>1, <2>2, <2>3, ErrClose DEF SomeEndClosed
<1>7. ASSUME NEW t \in Threads, PipeStep(t) PROVE ErrMove
  <2>0. /\ call[t] \in CallType
        /\ t = Rd => call[t].pc \in {"ret", "recv", "answer"}
        /\ t # Rd => call[t].pc \notin {"recv", "answer"}
    BY <1>1 DEF ErrInv
  <2>1. CASE Lock(t)
    <3> DEFINE c == [call[t] EXCEPT !.pc = "send"]
    <3>1. call[t].pc = "lock" /\ call' = [call EXCEPT ![t] = c] /\ UNCHANGED <<done, rerr, werr>>
      BY <2>1 DEF Lock
    <3>2. c.pc = "send" /\ c.err = call[t].err
      BY <2>0 DEF CallType
    <3> HIDE DEF c
    <3> QED BY <1>1, <2>0, <3>1, <3>2, ErrOne
  <2>2. CASE WriteClosed(t)
    <3>1. /\ call[t].pc = "send" /\ done /\ call' = [call EXCEPT ![t] = Ret(writeCloseError)]
          /\ UNCHANGED <<done, rerr, werr>>
      BY <2>2 DEF WriteClosed
    <3> QED BY <1>1, <1>2, <2>0, <3>1, ErrOne
  <2>3. CASE ReadClosed(t)
    <3>1. /\ call[t].pc = "recv" /\ done /\ call' = [call EXCEPT ![t] = Ret(readCloseError)]
          /\ UNCHANGED <<done, rerr, werr>>
      BY <2>3 DEF ReadClosed
    <3> QED BY <1>1, <1>2, <2>0, <3>1, ErrOne
  <2>4. CASE CloseDone(t)
    <3>1. /\ call[t].pc = "close" /\ done' /\ call' = [call EXCEPT ![t] = Ret(None)]
          /\ UNCHANGED <<rerr, werr>>
      BY <2>4 DEF CloseDone
    <3>2. \A u \in Threads : call'[u] = IF u = t THEN Ret(None) ELSE call[u]
      BY <1>1, <3>1
    <3>3. SomeEndClosed
      BY <3>1 DEF ErrInv
    <3> QED BY <1>1, <1>2, <3>1, <3>2, <3>3 DEF ErrInv, ErrMove
  <2>5. ASSUME NEW r \in Threads \ {t}, Transfer(t, r) PROVE ErrMove
    <3> DEFINE d == SubSeq(rest(call[t]), 1, Min({call[r].n, Len(rest(call[t]))}))
    <3>1. /\ call[t].pc = "send" /\ call[r].pc = "recv" /\ UNCHANGED <<done, rerr, werr>>
          /\ call' = [call EXCEPT ![t].pc = "sent", ![r].pc = "answer", ![r].b = d]
      BY <2>5 DEF Transfer
    <3> HIDE DEF d
    <3>2. /\ call'[t].pc = "sent" /\ call'[t].err = call[t].err
          /\ call'[r].pc = "answer" /\ call'[r].err = call[r].err
          /\ \A u \in Threads \ {t, r} : call'[u] = call[u]
      BY <1>1, <3>1 DEF CallType
    <3>3. r = Rd /\ t # Rd
      BY <1>1, <3>1 DEF ErrInv
    <3> QED BY <1>1, <3>1, <3>2, <3>3 DEF ErrInv, ErrMove
  <2>6. ASSUME NEW r \in Threads \ {t}, Answer(t, r) PROVE ErrMove
    <3> DEFINE n == call[t].n + Len(call[r].b)
               c == IF n < Len(call[t].b) THEN [call[t] EXCEPT !.pc = "send", !.n = n] ELSE Idle
    <3>1. /\ call[t].pc = "sent" /\ call[r].pc = "answer" /\ UNCHANGED <<done, rerr, werr>>
          /\ call' = [call EXCEPT ![r] = Idle, ![t] = c]
      BY <2>6 DEF Answer
    <3>2. c.pc \in {"send", "ret"} /\ c.err \in {None, call[t].err}
      BY <1>2, <2>0 DEF CallType
    <3> HIDE DEF c, n
    <3>3. /\ call'[t] = c /\ call'[r] = Idle
          /\ \A u \in Threads \ {t, r} : call'[u] = call[u]
      BY <1>1, <3>1
    <3>4. r = Rd /\ t # Rd
      BY <1>1, <3>1 DEF ErrInv
    <3> QED BY <1>1, <1>2, <3>1, <3>2, <3>3, <3>4 DEF ErrInv, ErrMove
  <2> QED BY <1>7, <2>1, <2>2, <2>3, <2>4, <2>5, <2>6 DEF PipeStep
<1>8. ASSUME UNCHANGED pipeVars PROVE ErrMove
  <2>1. UNCHANGED <<done, rerr, werr, call>>
    BY <1>8 DEF pipeVars
  <2> QED BY <1>1, <2>1 DEF ErrInv, ErrMove
<1>9. ErrMove
  BY <1>3, <1>4, <1>5, <1>6, <1>7, <1>8 DEF PipeMove
<1> QED BY <1>9, ErrKept

(* However the two ends close, together, twice or while calls are on their *)
(* way: a call that failed finds done closed, and its error is the first   *)
(* one that the other end gave, or ErrClosedPipe once its own end is       *)
(* closed; a later close changes no error that was returned                *)
(* (readCloseError, writeCloseError, onceError.Store).                     *)
THEOREM CloseErrorsHolds == Spec => []CloseErrors
<1>1. Init => PipeInv /\ ChainInv /\ ErrInv
  <2> SUFFICES ASSUME Init PROVE PipeInv /\ ChainInv /\ ErrInv
    OBVIOUS
  <2> QED BY ErrStarts, PipeStarts, ChainStarts DEF Init
<1>2. PipeInv /\ ChainInv /\ ErrInv /\ [Next]_vars => (PipeInv /\ ChainInv /\ ErrInv)'
  <2> SUFFICES ASSUME PipeInv, ChainInv, ErrInv, [Next]_vars
               PROVE  PipeInv' /\ ChainInv' /\ ErrInv'
    OBVIOUS
  <2>1. PipeMove /\ PipeInv' /\ PipeTypeOK
    BY PipeMoves, PipeSteps DEF PipeInv
  <2>2. ChainInv'
    BY <2>1, ChainSteps
  <2>3. ErrInv'
    BY <2>1, ErrSteps
  <2> QED BY <2>1, <2>2, <2>3
<1>3. ErrInv => CloseErrors
  BY DEF ErrInv
<1> QED BY <1>1, <1>2, <1>3, PTL DEF Spec

----------------------------------------------------------------------------
(* Delivery of the frames.                                                 *)

MemType   == [buf : Seq(Samples), open : BOOLEAN]
EndedType == [f : Seq(Samples), to : Seq(Leaf), err : Errors]

\* A writer at the end of the chain has f, or has failed, or is closed.
Reached(g, m, leaf, f, err) ==
  \/ leaf = "pipe" /\ (err # None \/ contains(g, f))
  \/ leaf = "mem" /\ (~m.open \/ contains(m.buf, f))

\* The pipe call of a write of f: on its way, failed, or over and delivered.
InPipe(c, g, f) ==
  \/ c.pc \in {"lock", "send", "sent"} /\ c.b = f
  \/ c.pc = "ret" /\ (c.err # None \/ contains(g, f))

\* What is left of the loop over the writers is the end of what was loaded, and
\* the writers before it have the frame.
Passed(s, g, m) ==
  /\ Len(s.ts) <= Len(s.to)
  /\ \A i \in 1..Len(s.ts) : s.ts[i] = s.to[Len(s.to) - Len(s.ts) + i]
  /\ \A i \in 1..Len(s.to) - Len(s.ts) : Reached(g, m, s.to[i], s.f, s.err)

\* Who writes has nothing to close, so that nothing but the write moves its call.
Quiet ==
  /\ \A t \in Threads : cl[t] # <<>> => t = Ctl /\ ff[t].pc \in {"idle", "close"}
  /\ \A t \in Threads : sw[t].pc # "idle" => t \in Direct \/ ff[t].pc \in {"frame", "tail"}
  /\ ff[RdCloser].pc = "idle"

Delivery ==
  /\ mem \in MemType /\ ended \subseteq EndedType
  /\ \A t \in Threads : sw[t].pc = "called" =>
       Head(sw[t].ts) = "pipe" /\ InPipe(call[t], got, sw[t].f)
  /\ \A t \in Threads : sw[t].pc \in {"each", "called"} => Passed(sw[t], got, mem)
  /\ WriteDelivers

LEMMA DeliveryStarts == Init => Quiet /\ Delivery
<1> SUFFICES ASSUME Init PROVE Quiet /\ Delivery
  OBVIOUS
<1>1. /\ ff = [t \in Threads |-> FFIdle] /\ sw = [t \in Threads |-> SWIdle]
      /\ cl = [t \in Threads |-> <<>>] /\ ended = {}
      /\ mem = [buf |-> <<>>, open |-> TRUE] /\ RdCloser \in Threads
  BY WritersAssumption DEF Init
<1>2. SWIdle.pc = "idle" /\ FFIdle.pc = "idle" /\ <<>> \in Seq(Samples)
  BY DEF SWIdle, FFIdle
<1>3. Quiet
  BY <1>1, <1>2 DEF Quiet
<1>4. Delivery
  BY <1>1, <1>2 DEF Delivery, MemType, WriteDelivers
<1> QED BY <1>3, <1>4

LEMMA ContainsGrows ==
  ASSUME NEW S, NEW s \in Seq(S), NEW x \in Seq(S), NEW f \in Seq(S), contains(s, f)
  PROVE  contains(s \o x, f)
<1>1. PICK i \in 0..Len(s) - Len(f) : SubSeq(s, i + 1, i + Len(f)) = f
  BY DEF contains
<1>2. Len(s) \in Nat /\ Len(f) \in Nat /\ Len(x) \in Nat /\ Len(s \o x) = Len(s) + Len(x)
  OBVIOUS
<1>3. i \in Nat /\ i + Len(f) <= Len(s) /\ i \in 0..Len(s \o x) - Len(f)
  BY <1>1, <1>2
<1>4. SubSeq(s \o x, i + 1, i + Len(f)) = SubSeq(s, i + 1, i + Len(f))
  BY <1>2, <1>3
<1> QED BY <1>1, <1>3, <1>4 DEF contains

LEMMA ContainsLast ==
  ASSUME NEW S, NEW s \in Seq(S), NEW f \in Seq(S)
  PROVE  contains(s \o f, f)
<1>1. Len(s) \in Nat /\ Len(f) \in Nat /\ Len(s \o f) = Len(s) + Len(f) /\ s \o f \in Seq(S)
  OBVIOUS
<1>2. Len(s) \in 0..Len(s \o f) - Len(f)
  BY <1>1
<1>3. SubSeq(s \o f, Len(s) + 1, Len(s) + Len(f)) = f
  BY <1>1
<1> QED BY <1>2, <1>3 DEF contains

\* What is delivered stays delivered.
Grown ==
  /\ \E x \in Seq(Samples) : got' = got \o x
  /\ mem'.open => mem.open /\ \E x \in Seq(Samples) : mem'.buf = mem.buf \o x

LEMMA ReachedStays ==
  ASSUME got \in Seq(Samples), mem \in MemType, Grown, NEW leaf, NEW f \in Seq(Samples),
         NEW err, Reached(got, mem, leaf, f, err)
  PROVE  Reached(got', mem', leaf, f, err)
<1>1. contains(got, f) => contains(got', f)
  BY ContainsGrows DEF Grown
<1>2. mem.buf \in Seq(Samples)
  BY DEF MemType
<1>3. mem'.open /\ contains(mem.buf, f) => mem.open /\ contains(mem'.buf, f)
  BY <1>2, ContainsGrows DEF Grown
<1>4. mem'.open => mem.open
  BY DEF Grown
<1> QED BY <1>1, <1>3, <1>4 DEF Reached

LEMMA PassedStays ==
  ASSUME got \in Seq(Samples), mem \in MemType, Grown, NEW s \in SWType, Passed(s, got, mem)
  PROVE  Passed(s, got', mem')
<1>1. s.f \in Seq(Samples)
  BY DEF SWType
<1>2. \A i \in 1..Len(s.to) - Len(s.ts) : Reached(got', mem', s.to[i], s.f, s.err)
  BY <1>1, ReachedStays DEF Passed
<1> QED BY <1>2 DEF Passed

LEMMA InPipeStays ==
  ASSUME got \in Seq(Samples), Grown, NEW c, NEW f \in Seq(Samples), InPipe(c, got, f)
  PROVE  InPipe(c, got', f)
<1>1. contains(got, f) => contains(got', f)
  BY ContainsGrows DEF Grown
<1> QED BY <1>1 DEF InPipe

\* One thread moves its write, nothing that was delivered is taken back, and the
\* other threads' calls of the pipe are still theirs.
LEMMA DeliveryMoves ==
  ASSUME Delivery, got \in Seq(Samples), ChainTypeOK, Grown, mem' \in MemType,
         NEW t \in Threads, NEW s \in SWType, sw' = [sw EXCEPT ![t] = s],
         \A u \in Threads : u # t /\ sw[u].pc = "called" => InPipe(call'[u], got', sw[u].f),
         s.pc = "called" => Head(s.ts) = "pipe" /\ InPipe(call'[t], got', s.f),
         s.pc \in {"each", "called"} => Passed(s, got', mem'),
         ended' \subseteq EndedType,
         \A e \in ended' \ ended : \A leaf \in Elems(e.to) : Reached(got', mem', leaf, e.f, e.err)
  PROVE  Delivery'
<1>1. /\ sw \in [Threads -> SWType] /\ sw'[t] = s
      /\ \A u \in Threads : u # t => sw'[u] = sw[u]
  BY DEF ChainTypeOK
<1>2. (\A u \in Threads : sw[u].pc = "called" =>
         Head(sw[u].ts) = "pipe" /\ InPipe(call[u], got, sw[u].f))'
  BY <1>1 DEF Delivery
<1>3. (\A u \in Threads : sw[u].pc \in {"each", "called"} => Passed(sw[u], got, mem))'
  <2>1. ASSUME NEW u \in Threads, u # t, sw[u].pc \in {"each", "called"}
        PROVE  Passed(sw[u], got', mem')
    <3>1. sw[u] \in SWType /\ Passed(sw[u], got, mem) /\ mem \in MemType
      BY <1>1, <2>1 DEF Delivery
    <3> QED BY <3>1, PassedStays
  <2> QED BY <1>1, <2>1
<1>4. \A e \in ended' : \A leaf \in Elems(e.to) : Reached(got', mem', leaf, e.f, e.err)
  <2>1. ASSUME NEW e \in ended, NEW leaf \in Elems(e.to)
        PROVE  Reached(got', mem', leaf, e.f, e.err)
    <3>1. Reached(got, mem, leaf, e.f, e.err)
      BY DEF Delivery, WriteDelivers, Reached
    <3>2. e.f \in Seq(Samples) /\ mem \in MemType
      BY DEF Delivery, EndedType
    <3> QED BY <3>1, <3>2, ReachedStays
  <2> QED BY <2>1
<1>5. WriteDelivers'
  BY <1>4 DEF WriteDelivers, Reached
<1> QED BY <1>2, <1>3, <1>5 DEF Delivery

\* A step inside the pipe takes nothing back and keeps every write's call: it goes
\* on with the same frame, fails, or is over with the whole frame copied.
LEMMA PipeKeeps ==
  ASSUME PipeInv, NEW t \in Threads, PipeStep(t)
  PROVE  /\ \E x \in Seq(Samples) : got' = got \o x
         /\ \A u \in Threads, f \in Seq(Samples) :
              InPipe(call[u], got, f) => InPipe(call'[u], got', f)
<1>1. /\ PipeTypeOK /\ Locked /\ HandOver /\ PipeFifo /\ call \in [Threads -> CallType]
      /\ got \in Seq(Samples) /\ log \in Seq(Samples)
  BY DEF PipeInv, PipeTypeOK
<1>2. <<>> \in Seq(Samples) /\ got \o <<>> = got
  BY <1>1, ConcatEmptySeq
<1>3. \A e : Ret(e).pc = "ret" /\ Ret(e).err = e /\ Idle = Ret(None)
  BY DEF Ret, Idle
<1>4. ASSUME NEW c, call' = [call EXCEPT ![t] = c], got' = got,
             \A f \in Seq(Samples) : InPipe(call[t], got, f) => InPipe(c, got, f)
      PROVE  /\ \E x \in Seq(Samples) : got' = got \o x
             /\ \A u \in Threads, f \in Seq(Samples) :
                  InPipe(call[u], got, f) => InPipe(call'[u], got', f)
  <2>1. \A u \in Threads : call'[u] = IF u = t THEN c ELSE call[u]
    BY <1>1, <1>4
  <2> QED BY <1>2, <1>4, <2>1
<1>5. CASE Lock(t)
  <2> DEFINE c == [call[t] EXCEPT !.pc = "send"]
  <2>1. call[t].pc = "lock" /\ call' = [call EXCEPT ![t] = c] /\ got' = got
    BY <1>5 DEF Lock
  <2>2. c.pc = "send" /\ c.b = call[t].b
    BY <1>1 DEF CallType
  <2> HIDE DEF c
  <2>3. \A f \in Seq(Samples) : InPipe(call[t], got, f) => InPipe(c, got, f)
    BY <2>1, <2>2 DEF InPipe
  <2> QED BY <1>4, <2>1, <2>3
<1>6. CASE WriteClosed(t)
  <2>1. call' = [call EXCEPT ![t] = Ret(writeCloseError)] /\ got' = got
    BY <1>6 DEF WriteClosed
  <2>2. writeCloseError # None
    BY DEF writeCloseError, None, ErrClosedPipe
  <2>3. \A f \in Seq(Samples) : InPipe(Ret(writeCloseError), got, f)
    BY <1>3, <2>2 DEF InPipe
  <2> QED BY <1>4, <2>1, <2>3
<1>7. CASE ReadClosed(t)
  <2>1. call[t].pc = "recv" /\ call' = [call EXCEPT ![t] = Ret(readCloseError)] /\ got' = got
    BY <1>7 DEF ReadClosed
  <2>2. \A f \in Seq(Samples) : ~InPipe(call[t], got, f)
    BY <2>1 DEF InPipe
  <2> QED BY <1>4, <2>1, <2>2
<1>8. CASE CloseDone(t)
  <2>1. call[t].pc = "close" /\ call' = [call EXCEPT ![t] = Ret(None)] /\ got' = got
    BY <1>8 DEF CloseDone
  <2>2. \A f \in Seq(Samples) : ~InPipe(call[t], got, f)
    BY <2>1 DEF InPipe
  <2> QED BY <1>4, <2>1, <2>2
<1>9. ASSUME NEW r \in Threads \ {t}, Transfer(t, r)
      PROVE  /\ \E x \in Seq(Samples) : got' = got \o x
             /\ \A u \in Threads, f \in Seq(Samples) :
                  InPipe(call[u], got, f) => InPipe(call'[u], got', f)
  <2> DEFINE nr == Min({call[r].n, Len(rest(call[t]))})
             d == SubSeq(rest(call[t]), 1, nr)
  <2>1. /\ call[t].pc = "send" /\ call[r].pc = "recv" /\ got' = got \o d
        /\ call' = [call EXCEPT ![t].pc = "sent", ![r].pc = "answer", ![r].b = d]
    BY <1>9 DEF Transfer
  <2>2. d \in Seq(Samples)
    <3>1. PipeInv'
      BY <1>9, PipeTransferred
    <3>2. call'[r].b = d
      BY <1>1, <2>1 DEF CallType
    <3>3. call'[r] \in CallType
      BY <3>1 DEF PipeInv, PipeTypeOK
    <3> HIDE DEF d
    <3> QED BY <3>2, <3>3 DEF CallType
  <2> HIDE DEF d, nr
  <2>3. /\ call'[t].pc = "sent" /\ call'[t].b = call[t].b
        /\ \A u \in Threads \ {t, r} : call'[u] = call[u]
    BY <1>1, <2>1 DEF CallType
  <2>4. ASSUME NEW u \in Threads, NEW f \in Seq(Samples), InPipe(call[u], got, f)
        PROVE  InPipe(call'[u], got', f)
    <3>1. u # r
      BY <2>1, <2>4 DEF InPipe
    <3>2. contains(got, f) => contains(got', f)
      BY <1>1, <2>1, <2>2, ContainsGrows
    <3> QED BY <2>1, <2>3, <2>4, <3>1, <3>2 DEF InPipe
  <2> QED BY <2>1, <2>2, <2>4
<1>10. ASSUME NEW r \in Threads \ {t}, Answer(t, r)
       PROVE  /\ \E x \in Seq(Samples) : got' = got \o x
              /\ \A u \in Threads, f \in Seq(Samples) :
                   InPipe(call[u], got, f) => InPipe(call'[u], got', f)
  <2> DEFINE n == call[t].n + Len(call[r].b)
             b == call[t].b
             c == IF n < Len(b) THEN [call[t] EXCEPT !.pc = "send", !.n = n] ELSE Idle
  <2>1. /\ call[t].pc = "sent" /\ call[r].pc = "answer" /\ got' = got
        /\ call' = [call EXCEPT ![r] = Idle, ![t] = c]
    BY <1>10 DEF Answer
  <2>2. /\ call'[t] = c /\ \A u \in Threads \ {t, r} : call'[u] = call[u]
    BY <1>1, <2>1
  <2>3. CASE n < Len(b)
    <3>1. c.pc = "send" /\ c.b = b
      BY <1>1, <2>3 DEF CallType
    <3> HIDE DEF c, n
    <3> QED BY <1>2, <2>1, <2>2, <3>1 DEF InPipe
  <2>4. CASE ~(n < Len(b))
    <3>1. /\ wrMu' = None /\ log' = log \o SubSeq(b, 1, n)
          /\ short' = IF n = Len(b) THEN short ELSE short \cup {b}
      BY <1>10, <2>4 DEF Answer
    <3>2. PipeFifo'
      BY <1>10, PipeAnswered DEF PipeInv
    <3>3. b \in Seq(Samples) /\ Len(b) \in Nat
      BY <1>1 DEF CallType
    <3>4. n = Len(b)
      BY <3>1, <3>2 DEF PipeFifo
    <3>5. SubSeq(b, 1, n) = b
      <4> HIDE DEF b, n
      <4> QED BY <3>3, <3>4
    <3>6. log \o b \in Seq(Samples) /\ got' = (log \o b) \o <<>>
      <4>1. log' = log \o b /\ underway' = <<>>
        BY <3>1, <3>5 DEF underway
      <4>2. got' = log' \o underway'
        BY <3>2 DEF PipeFifo
      <4> HIDE DEF b
      <4> QED BY <1>1, <3>3, <4>1, <4>2
    <3>7. got' = log \o b
      BY <3>6, ConcatEmptySeq
    <3>8. contains(got', b)
      BY <1>1, <3>3, <3>7, ContainsLast
    <3>9. c = Idle /\ c.pc = "ret"
      BY <1>3, <2>4
    <3> HIDE DEF c, n, b
    <3> QED BY <1>2, <2>1, <2>2, <3>8, <3>9 DEF InPipe, b
  <2> QED BY <2>3, <2>4
<1> QED BY <1>5, <1>6, <1>7, <1>8, <1>9, <1>10 DEF PipeStep

----------------------------------------------------------------------------

LEMMA QuietMoves ==
  ASSUME Quiet, ChainTypeOK, NEW t \in Threads, NEW f, NEW s, NEW c,
         ff' = [ff EXCEPT ![t] = f], sw' = [sw EXCEPT ![t] = s], cl' = [cl EXCEPT ![t] = c],
         c # <<>> => t = Ctl /\ f.pc \in {"idle", "close"},
         s.pc # "idle" => t \in Direct \/ f.pc \in {"frame", "tail"},
         t = RdCloser => f.pc = "idle"
  PROVE  Quiet'
<1>1. \A u \in Threads : /\ ff'[u] = IF u = t THEN f ELSE ff[u]
                         /\ sw'[u] = IF u = t THEN s ELSE sw[u]
                         /\ cl'[u] = IF u = t THEN c ELSE cl[u]
  BY DEF ChainTypeOK
<1>2. RdCloser \in Threads
  BY WritersAssumption
<1> QED BY <1>1, <1>2 DEF Quiet

LEMMA QuietSteps ==
  ASSUME Quiet, ChainInv, [Next]_vars
  PROVE  Quiet'
<1>0. /\ Rd \in Threads /\ Ctl \in Threads /\ RdCloser \in Threads /\ Ctl \notin Direct
      /\ RdCloser \notin Framed \cup Direct \cup {Ctl} /\ Producers \subseteq Threads
      /\ Producers = Framed \cup Direct
  BY WritersAssumption DEF Producers
<1>1. ASSUME NEW t \in Threads
      PROVE  /\ ff = [ff EXCEPT ![t] = ff[t]] /\ sw = [sw EXCEPT ![t] = sw[t]]
             /\ cl = [cl EXCEPT ![t] = cl[t]]
             /\ cl[t] # <<>> => t = Ctl /\ ff[t].pc \in {"idle", "close"}
             /\ sw[t].pc # "idle" => t \in Direct \/ ff[t].pc \in {"frame", "tail"}
             /\ t = RdCloser => ff[t].pc = "idle"
             /\ ff[t] \in FFType /\ sw[t] \in SWType
  BY ChainTypes DEF Quiet
<1>2. ChainTypeOK
  BY DEF ChainInv
<1>3. CASE UNCHANGED <<ff, sw, cl>>
  BY <1>3 DEF Quiet
<1>4. ASSUME NEW t \in Threads, NEW f, NEW s, ff' = [ff EXCEPT ![t] = f],
             sw' = [sw EXCEPT ![t] = s], UNCHANGED cl,
             cl[t] # <<>> => f.pc \in {"idle", "close"},
             s.pc # "idle" => t \in Direct \/ f.pc \in {"frame", "tail"},
             t = RdCloser => f.pc = "idle"
      PROVE  Quiet'
  BY <1>1, <1>2, <1>4, QuietMoves
<1>5. SWIdle.pc = "idle" /\ FFIdle.pc = "idle"
  BY DEF SWIdle, FFIdle
<1>6. CASE Calls
  <2>1. ASSUME NEW p \in Direct, WriteDirect(p) PROVE Quiet'
    <3>1. PICK s : sw' = [sw EXCEPT ![p] = s] /\ UNCHANGED <<ff, cl>>
      BY <2>1 DEF WriteDirect
    <3>2. p \in Threads /\ ff' = [ff EXCEPT ![p] = ff[p]]
      BY <1>0, <1>1, <3>1
    <3> QED BY <1>1, <1>4, <3>1, <3>2
  <2>2. ASSUME NEW p \in Framed, WriteFrames(p) PROVE Quiet'
    <3>1. PICK f : ff' = [ff EXCEPT ![p] = f] /\ UNCHANGED <<sw, cl>>
      BY <2>2 DEF WriteFrames
    <3>2. p \in Threads /\ p # Ctl /\ p # RdCloser /\ sw' = [sw EXCEPT ![p] = sw[p]]
      BY <1>0, <1>1, <3>1, WritersAssumption
    <3>3. sw[p].pc # "idle" => p \in Direct
      BY <1>1, <1>5, <2>2, <3>2 DEF WriteFrames
    <3> QED BY <1>1, <1>4, <3>1, <3>2, <3>3
  <2>3. CASE CloseFrames
    <3>1. /\ ff' = [ff EXCEPT ![Ctl] = [ff[Ctl] EXCEPT !.pc = "lock"]] /\ UNCHANGED <<sw, cl>>
          /\ cl[Ctl] = <<>> /\ ff[Ctl].pc = "idle"
      BY <1>5, <2>3 DEF CloseFrames, closed
    <3>2. sw' = [sw EXCEPT ![Ctl] = sw[Ctl]] /\ sw[Ctl].pc = "idle"
      BY <1>0, <1>1, <3>1
    <3> QED BY <1>0, <1>4, <3>1, <3>2
  <2>4. CASE Swap
    <3>1. UNCHANGED <<ff, sw>> /\ ff[Ctl].pc = "idle"
      BY <1>5, <2>4 DEF Swap
    <3>2. PICK c : cl' = [cl EXCEPT ![Ctl] = c]
      BY <2>4 DEF Swap
    <3>3. ff' = [ff EXCEPT ![Ctl] = ff[Ctl]] /\ sw' = [sw EXCEPT ![Ctl] = sw[Ctl]]
      BY <1>0, <1>1, <3>1
    <3>4. sw[Ctl].pc = "idle"
      BY <1>0, <1>1, <3>1
    <3> QED BY <1>0, <1>2, <3>1, <3>2, <3>3, <3>4, QuietMoves
  <2>5. CASE EnableDisable \/ CloseReader
    BY <1>3, <2>5 DEF EnableDisable, CloseReader
  <2> QED BY <1>6, <2>1, <2>2, <2>3, <2>4, <2>5 DEF Calls
<1>7. ASSUME NEW t \in Threads, Running(t) PROVE Quiet'
  <2>1. CASE PipeStep(t) /\ UNCHANGED chainVars
    BY <1>3, <2>1 DEF chainVars
  <2>2. CASE SwitchLoad(t) \/ WriteMem(t) \/ WritePipe(t) \/ WrittenPipe(t)
    <3>1. PICK s : sw' = [sw EXCEPT ![t] = s] /\ UNCHANGED <<ff, cl>>
      <4>1. CASE SwitchLoad(t) \/ WritePipe(t)
        BY <4>1 DEF SwitchLoad, WritePipe
      <4>2. CASE WriteMem(t) \/ WrittenPipe(t)
        BY <4>2 DEF WriteMem, WrittenPipe
      <4> QED BY <2>2, <4>1, <4>2
    <3>2. sw[t].pc # "idle" /\ ff' = [ff EXCEPT ![t] = ff[t]]
      BY <1>1, <2>2, <3>1 DEF SwitchLoad, WriteMem, WritePipe, WrittenPipe
    <3> QED BY <1>1, <1>4, <3>1, <3>2
  <2>3. CASE WrittenDirect(t)
    <3>1. sw' = [sw EXCEPT ![t] = SWIdle] /\ UNCHANGED <<ff, cl>>
      BY <2>3 DEF WrittenDirect, SwitchEnd
    <3>2. ff' = [ff EXCEPT ![t] = ff[t]]
      BY <1>1, <3>1
    <3> QED BY <1>1, <1>4, <1>5, <3>1, <3>2
  <2>4. CASE FramesLock(t)
    <3>1. PICK f : ff' = [ff EXCEPT ![t] = f] /\ UNCHANGED <<sw, cl>>
      BY <2>4 DEF FramesLock
    <3>2. ff[t].pc = "lock" /\ sw' = [sw EXCEPT ![t] = sw[t]]
      BY <1>1, <2>4, <3>1 DEF FramesLock
    <3>3. cl[t] = <<>> /\ t # RdCloser /\ (sw[t].pc # "idle" => t \in Direct)
      BY <1>1, <3>2
    <3> QED BY <1>4, <3>1, <3>2, <3>3
  <2>5. CASE FlushWrite(t)
    <3>0. PICK i : i = itAfter(ff[t].it, flushLen(t))
      OBVIOUS
    <3> DEFINE f == [ff[t] EXCEPT !.pc = IF flushLen(t) = FrameSize THEN "frame" ELSE "tail",
                                  !.it = i]
    <3>1. ff' = [ff EXCEPT ![t] = f] /\ ff[t].pc = "flush" /\ UNCHANGED cl
      BY <2>5, <3>0 DEF FlushWrite
    <3>2. PICK s : sw' = [sw EXCEPT ![t] = s]
      BY <2>5 DEF FlushWrite
    <3>3. f.pc \in {"frame", "tail"}
      BY <1>1 DEF FFType
    <3>4. cl[t] = <<>> /\ t # RdCloser
      BY <1>1, <3>1
    <3> HIDE DEF f
    <3> QED BY <1>4, <3>1, <3>2, <3>3, <3>4
  <2>6. CASE FlushWritten(t)
    <3>1. /\ sw' = [sw EXCEPT ![t] = SWIdle] /\ ff[t].pc \in {"frame", "tail"} /\ UNCHANGED cl
      BY <2>6 DEF FlushWritten, SwitchEnd
    <3>2. PICK f : ff' = [ff EXCEPT ![t] = f]
      BY <2>6 DEF FlushWritten
    <3>3. cl[t] = <<>> /\ t # RdCloser
      BY <1>1, <3>1
    <3> QED BY <1>4, <1>5, <3>1, <3>2, <3>3
  <2>7. CASE FlushEnd(t)
    <3> DEFINE g == IF t = Ctl THEN [FFIdle EXCEPT !.pc = "close"] ELSE FFIdle
               c == IF t = Ctl THEN w ELSE cl[t]
    <3>1. ff[t].pc \in {"flushed", "flush"} /\ UNCHANGED sw
      BY <2>7 DEF FlushEnd
    <3>2. ff' = [ff EXCEPT ![t] = g]
      BY <2>7 DEF FlushEnd
    <3>3. cl' = [cl EXCEPT ![t] = c]
      BY <1>1, <2>7 DEF FlushEnd
    <3>4. g.pc \in {"idle", "close"} /\ (t # Ctl => c = cl[t])
      BY DEF FFIdle
    <3>5. cl[t] = <<>> /\ t # RdCloser /\ (sw[t].pc # "idle" => t \in Direct)
      BY <1>1, <3>1
    <3>6. sw' = [sw EXCEPT ![t] = sw[t]]
      BY <1>1, <3>1
    <3> HIDE DEF g, c
    <3> QED BY <1>2, <3>2, <3>3, <3>4, <3>5, <3>6, QuietMoves
  <2>8. CASE t = Ctl /\ FramesClosed
    <3>1. /\ ff[t].pc = "close" /\ ff' = [ff EXCEPT ![t] = FFIdle] /\ UNCHANGED <<sw, cl>>
      BY <2>8 DEF FramesClosed
    <3>2. sw' = [sw EXCEPT ![t] = sw[t]] /\ (sw[t].pc # "idle" => t \in Direct)
      BY <1>1, <3>1
    <3> QED BY <1>4, <1>5, <3>1, <3>2
  <2>9. CASE CloseMem(t) \/ ClosePipe(t)
    <3>1. cl[t] # <<>> /\ UNCHANGED <<ff, sw>>
      BY <2>9 DEF CloseMem, ClosePipe
    <3>2. PICK c : cl' = [cl EXCEPT ![t] = c]
      BY <2>9 DEF CloseMem, ClosePipe
    <3>3. ff' = [ff EXCEPT ![t] = ff[t]] /\ sw' = [sw EXCEPT ![t] = sw[t]]
      BY <1>1, <3>1
    <3>4. /\ t = Ctl /\ ff[t].pc \in {"idle", "close"} /\ (t = RdCloser => ff[t].pc = "idle")
          /\ sw[t].pc # "idle" => t \in Direct \/ ff[t].pc \in {"frame", "tail"}
      BY <1>1, <3>1
    <3> QED BY <1>2, <3>2, <3>3, <3>4, QuietMoves
  <2> QED BY <1>7, <2>1, <2>2, <2>3, <2>4, <2>5, <2>6, <2>7, <2>8, <2>9 DEF Running
<1>8. UNCHANGED vars \/ ReadPipe => UNCHANGED <<ff, sw, cl>>
  BY DEF vars, ReadPipe, chainVars
<1> QED BY <1>3, <1>6, <1>7, <1>8 DEF Next

\* The loop of MultiWriter goes on to the next writer.
LEMMA PassedNext ==
  ASSUME NEW s \in SWType, NEW g, NEW m, NEW err \in Errors, s.ts # <<>>, Passed(s, g, m),
         Reached(g, m, Head(s.ts), s.f, IF err # None THEN err ELSE s.err)
  PROVE  Passed(nextTarget(s, err), g, m)
<1> DEFINE e == IF err # None THEN err ELSE s.err
           ns == nextTarget(s, err)
           ts0 == s.ts
           to0 == s.to
           tl == Tail(ts0)
           a == Len(ts0)
           k == Len(to0) - Len(ts0)
<1>1. ns.ts = tl /\ ns.to = to0 /\ ns.f = s.f /\ ns.err = e
  BY DEF nextTarget, SWType
<1>2. ts0 \in Seq(Leaf) /\ to0 \in Seq(Leaf) /\ ts0 # <<>>
  BY DEF SWType
<1>3. /\ a \in Nat \ {0} /\ Len(tl) = a - 1 /\ Head(ts0) = ts0[1]
      /\ \A i \in 1..a - 1 : tl[i] = ts0[i + 1]
  <2> HIDE DEF ts0
  <2> QED BY <1>2
<1>4. Len(to0) \in Nat /\ a <= Len(to0) /\ k = Len(to0) - a
  BY <1>2 DEF Passed
<1>5. (\A i \in 1..a : ts0[i] = to0[k + i]) /\ (\A i \in 1..k : Reached(g, m, to0[i], s.f, s.err))
  BY DEF Passed
<1>6. Reached(g, m, Head(ts0), s.f, e)
  OBVIOUS
<1> HIDE DEF ts0, to0, tl, a, k, ns, e
<1>7. k \in Nat /\ Len(to0) = k + a
  BY <1>3, <1>4
<1>8. Len(tl) <= Len(to0) /\ Len(to0) - Len(tl) = k + 1
  BY <1>3, <1>7
<1>9. ASSUME NEW i \in 1..Len(tl) PROVE tl[i] = to0[k + 1 + i]
  <2>1. i + 1 \in 1..a /\ i \in 1..a - 1 /\ k + (i + 1) = k + 1 + i
    BY <1>3, <1>7
  <2>2. tl[i] = ts0[i + 1] /\ ts0[i + 1] = to0[k + (i + 1)]
    BY <1>3, <1>5, <2>1
  <2> QED BY <2>1, <2>2
<1>10. ASSUME NEW i \in 1..k + 1 PROVE Reached(g, m, to0[i], s.f, e)
  <2>1. CASE i = k + 1
    <3>1. 1 \in 1..a
      BY <1>3
    <3>2. to0[i] = Head(ts0)
      BY <1>3, <1>5, <2>1, <3>1
    <3> QED BY <1>6, <3>2
  <2>2. CASE i # k + 1
    <3>1. i \in 1..k
      BY <1>7, <2>2
    <3>2. Reached(g, m, to0[i], s.f, s.err)
      BY <1>5, <3>1
    <3> QED BY <3>2 DEF Reached, e
  <2> QED BY <2>1, <2>2
<1>11. Passed(ns, g, m)
  BY <1>1, <1>8, <1>9, <1>10 DEF Passed
<1> QED BY <1>11 DEF ns

LEMMA GrownKeeps ==
  ASSUME got \in Seq(Samples), mem \in MemType, UNCHANGED <<got, mem>>
  PROVE  Grown
<1>1. <<>> \in Seq(Samples) /\ mem.buf \in Seq(Samples)
  BY DEF MemType
<1>2. got' = got \o <<>> /\ mem'.buf = mem.buf \o <<>>
  BY <1>1, ConcatEmptySeq
<1> QED BY <1>1, <1>2 DEF Grown

\* The writes do not move: the pipe does, or nothing.
LEMMA DeliveryAside ==
  ASSUME Delivery, got \in Seq(Samples), ChainTypeOK, UNCHANGED <<sw, mem, ended>>,
         \E x \in Seq(Samples) : got' = got \o x,
         \A u \in Threads : sw[u].pc = "called" => InPipe(call'[u], got', sw[u].f)
  PROVE  Delivery'
<1>1. Rd \in Threads
  BY WritersAssumption
<1>2. sw[Rd] \in SWType /\ sw' = [sw EXCEPT ![Rd] = sw[Rd]] /\ mem \in MemType /\ ended' \subseteq EndedType
  BY <1>1 DEF ChainTypeOK, Delivery
<1>3. Grown
  <2>1. mem.buf \in Seq(Samples) /\ <<>> \in Seq(Samples)
    BY <1>2 DEF MemType
  <2>2. mem'.buf = mem.buf \o <<>>
    BY <2>1, ConcatEmptySeq
  <2> QED BY <2>1, <2>2 DEF Grown
<1>4. sw[Rd].pc \in {"each", "called"} => Passed(sw[Rd], got', mem')
  <2>1. sw[Rd].pc \in {"each", "called"} => Passed(sw[Rd], got, mem)
    BY <1>1 DEF Delivery
  <2> QED BY <1>2, <1>3, <2>1, PassedStays
<1>5. sw[Rd].pc = "called" => Head(sw[Rd].ts) = "pipe" /\ InPipe(call'[Rd], got', sw[Rd].f)
  BY <1>1 DEF Delivery
<1> QED BY <1>1, <1>2, <1>3, <1>4, <1>5, DeliveryMoves

\* One thread moves its write and leaves the pipe alone.
LEMMA DeliverySwitch ==
  ASSUME Delivery, got \in Seq(Samples), ChainTypeOK, UNCHANGED <<call, got, mem>>,
         NEW t \in Threads, NEW s \in SWType, sw' = [sw EXCEPT ![t] = s], s.pc # "called",
         s.pc = "each" => Passed(s, got, mem),
         ended' \subseteq EndedType,
         \A e \in ended' \ ended : \A leaf \in Elems(e.to) : Reached(got, mem, leaf, e.f, e.err)
  PROVE  Delivery'
<1>1. mem \in MemType /\ mem' \in MemType /\ Grown
  BY GrownKeeps DEF Delivery
<1>2. \A u \in Threads : u # t /\ sw[u].pc = "called" => InPipe(call'[u], got', sw[u].f)
  BY DEF Delivery
<1>3. s.pc \in {"each", "called"} => Passed(s, got', mem')
  OBVIOUS
<1>4. \A e \in ended' \ ended : \A leaf \in Elems(e.to) : Reached(got', mem', leaf, e.f, e.err)
  OBVIOUS
<1> QED BY <1>1, <1>2, <1>3, <1>4, DeliveryMoves

\* The steps of a write through the switch.
LEMMA DeliveryWrites ==
  ASSUME Delivery, Quiet, ChainInv, PipeInv, NEW t \in Threads,
         SwitchLoad(t) \/ WriteMem(t) \/ WritePipe(t) \/ WrittenPipe(t)
  PROVE  Delivery'
<1>1. /\ ChainTypeOK /\ got \in Seq(Samples) /\ mem \in MemType /\ ended \subseteq EndedType
      /\ call \in [Threads -> CallType]
  BY DEF ChainInv, PipeInv, PipeTypeOK, Delivery
<1>2. sw[t] \in SWType /\ sw[t].f \in Seq(Samples) /\ w \in Seq(Leaf)
  BY <1>1, ChainTypes DEF SWType
<1>3. sw[t].pc \in {"each", "called"} => Passed(sw[t], got, mem)
  BY DEF Delivery
<1>4. ASSUME NEW err \in Errors, sw[t].ts # <<>>
      PROVE  nextTarget(sw[t], err) \in SWType /\ nextTarget(sw[t], err).pc = "each"
  <2>1. Tail(sw[t].ts) \in Seq(Leaf)
    BY <1>2, <1>4, HeadTailProperties DEF SWType
  <2>2. (IF err # None THEN err ELSE sw[t].err) \in Errors
    BY <1>2 DEF SWType
  <2>3. nextTarget(sw[t], err) = [sw[t] EXCEPT !.pc = "each", !.ts = Tail(sw[t].ts),
                                  !.err = IF err # None THEN err ELSE sw[t].err]
    BY DEF nextTarget
  <2> QED BY <1>2, <2>1, <2>2, <2>3 DEF SWType
<1>5. CASE SwitchLoad(t)
  <2> DEFINE s == [sw[t] EXCEPT !.pc = "each", !.ts = w, !.to = w]
  <2>1. sw' = [sw EXCEPT ![t] = s] /\ UNCHANGED <<call, got, mem, ended>>
    BY <1>5 DEF SwitchLoad, pipeVars
  <2>2. s \in SWType /\ s.pc = "each" /\ s.ts = w /\ s.to = w
    BY <1>2 DEF SWType
  <2> HIDE DEF s
  <2>3. Passed(s, got, mem)
    <3>1. Len(w) \in Nat
      BY <1>2, LenProperties
    <3>2. Len(s.to) - Len(s.ts) = 0 /\ Len(s.ts) <= Len(s.to)
      BY <2>2, <3>1
    <3>3. \A i \in 1..Len(s.ts) : s.ts[i] = s.to[Len(s.to) - Len(s.ts) + i]
      BY <2>2, <3>1, <3>2
    <3>4. \A i \in 1..Len(s.to) - Len(s.ts) : Reached(got, mem, s.to[i], s.f, s.err)
      <4>1. 1..(Len(w) - Len(w)) = {}
        BY <3>1
      <4> QED BY <2>2, <4>1
    <3> QED BY <3>2, <3>3, <3>4 DEF Passed
  <2>4. ended' \subseteq EndedType /\ ended' \ ended = {}
    BY <1>1, <2>1
  <2> QED BY <1>1, <2>1, <2>2, <2>3, <2>4, DeliverySwitch
<1>6. CASE WriteMem(t)
  <2> DEFINE s == nextTarget(sw[t], None)
             f == sw[t].f
  <2>1. /\ sw[t].pc = "each" /\ sw[t].ts # <<>> /\ Head(sw[t].ts) = "mem"
        /\ mem' = memWrite(f) /\ sw' = [sw EXCEPT ![t] = s] /\ UNCHANGED <<call, got, ended>>
    BY <1>6 DEF WriteMem, pipeVars
  <2>2. None \in Errors
    BY DEF Errors
  <2>3. s \in SWType /\ s.pc = "each"
    BY <1>4, <2>1, <2>2
  <2>4. mem.buf \in Seq(Samples) /\ mem.open \in BOOLEAN /\ mem.buf \o f \in Seq(Samples)
    BY <1>1, <1>2, ConcatProperties DEF MemType
  <2>5. mem' \in MemType /\ mem'.open = mem.open /\ (mem.open => mem'.buf = mem.buf \o f)
    BY <1>1, <2>1, <2>4 DEF memWrite, MemType
  <2>6. Grown
    <3>1. <<>> \in Seq(Samples) /\ got' = got \o <<>>
      BY <1>1, <2>1, ConcatEmptySeq
    <3> QED BY <1>2, <2>5, <3>1 DEF Grown
  <2>7. Passed(s, got', mem')
    <3>1. Passed(sw[t], got', mem')
      BY <1>1, <1>2, <1>3, <2>1, <2>6, PassedStays
    <3>2. mem'.open => contains(mem'.buf, f)
      BY <1>2, <2>4, <2>5, ContainsLast
    <3>3. Reached(got', mem', Head(sw[t].ts), f, IF None # None THEN None ELSE sw[t].err)
      BY <2>1, <3>2 DEF Reached
    <3> QED BY <1>2, <2>1, <2>2, <3>1, <3>3, PassedNext
  <2>8. \A u \in Threads : u # t /\ sw[u].pc = "called" => InPipe(call'[u], got', sw[u].f)
    BY <2>1 DEF Delivery
  <2>9. ended' \subseteq EndedType /\ ended' \ ended = {}
    BY <1>1, <2>1
  <2> HIDE DEF s, f
  <2> QED BY <1>1, <2>1, <2>3, <2>5, <2>6, <2>7, <2>8, <2>9, DeliveryMoves
<1>7. CASE WritePipe(t)
  <2> DEFINE s == [sw[t] EXCEPT !.pc = "called"]
             i == [Idle EXCEPT !.pc = "lock", !.b = sw[t].f]
             c == IF done THEN Ret(writeCloseError) ELSE i
  <2>1. /\ sw[t].pc = "each" /\ sw[t].ts # <<>> /\ Head(sw[t].ts) = "pipe"
        /\ sw' = [sw EXCEPT ![t] = s] /\ UNCHANGED <<got, mem, ended>>
    BY <1>7 DEF WritePipe, Write
  <2>2. call' = [call EXCEPT ![t] = c]
    BY <1>7 DEF WritePipe, Write
  <2>3. s \in SWType /\ s.pc = "called" /\ s.ts = sw[t].ts /\ s.to = sw[t].to /\ s.f = sw[t].f
        /\ s.err = sw[t].err
    BY <1>2 DEF SWType
  <2>4. InPipe(c, got, sw[t].f)
    <3>1. writeCloseError # None
      BY DEF writeCloseError, None, ErrClosedPipe
    <3>2. Ret(writeCloseError).pc = "ret" /\ Ret(writeCloseError).err = writeCloseError
      BY DEF Ret
    <3>3. i.pc = "lock" /\ i.b = sw[t].f
      BY DEF Idle, Ret
    <3> HIDE DEF i
    <3> QED BY <3>1, <3>2, <3>3 DEF InPipe
  <2> HIDE DEF s, c, i
  <2>5. call'[t] = c /\ \A u \in Threads : u # t => call'[u] = call[u]
    BY <1>1, <2>2
  <2>6. \A u \in Threads : u # t /\ sw[u].pc = "called" => InPipe(call'[u], got', sw[u].f)
    BY <2>1, <2>5 DEF Delivery
  <2>7. Passed(s, got', mem')
    BY <1>3, <2>1, <2>3 DEF Passed
  <2>8. Grown /\ mem' \in MemType /\ ended' \subseteq EndedType /\ ended' \ ended = {}
    BY <1>1, <2>1, GrownKeeps
  <2>9. Head(s.ts) = "pipe" /\ InPipe(call'[t], got', s.f)
    BY <2>1, <2>3, <2>4, <2>5
  <2> QED BY <1>1, <2>1, <2>3, <2>6, <2>7, <2>8, <2>9, DeliveryMoves
<1>8. CASE WrittenPipe(t)
  <2> DEFINE s == nextTarget(sw[t], call[t].err)
  <2>1. /\ sw[t].pc = "called" /\ call[t].pc = "ret" /\ sw' = [sw EXCEPT ![t] = s]
        /\ UNCHANGED <<call, got, mem, ended>>
    BY <1>8 DEF WrittenPipe, free, pipeVars
  <2>2. call[t].err \in Errors /\ sw[t].ts # <<>>
    BY <1>1, <2>1, ChainTypes DEF CallType
  <2>3. s \in SWType /\ s.pc = "each"
    BY <1>4, <2>2
  <2>4. Head(sw[t].ts) = "pipe" /\ (call[t].err # None \/ contains(got, sw[t].f))
    BY <2>1 DEF Delivery, InPipe
  <2>5. Reached(got, mem, Head(sw[t].ts), sw[t].f,
                IF call[t].err # None THEN call[t].err ELSE sw[t].err)
    BY <2>4 DEF Reached
  <2>6. Passed(s, got, mem)
    BY <1>2, <1>3, <2>1, <2>2, <2>5, PassedNext
  <2>7. ended' \subseteq EndedType /\ ended' \ ended = {}
    BY <1>1, <2>1
  <2> HIDE DEF s
  <2> QED BY <1>1, <2>1, <2>3, <2>6, <2>7, DeliverySwitch
<1> QED BY <1>5, <1>6, <1>7, <1>8

\* A write returns: all it was for have been passed.
LEMMA DeliveryEnds ==
  ASSUME Delivery, ChainInv, PipeInv, NEW t \in Threads, SwitchEnd(t), UNCHANGED <<pipeVars, mem>>
  PROVE  Delivery'
<1>1. /\ ChainTypeOK /\ got \in Seq(Samples) /\ mem \in MemType /\ ended \subseteq EndedType
  BY DEF ChainInv, PipeInv, PipeTypeOK, Delivery
<1> DEFINE e == [f |-> sw[t].f, to |-> sw[t].to, err |-> sw[t].err]
<1>2. /\ sw[t].pc = "each" /\ sw[t].ts = <<>> /\ sw' = [sw EXCEPT ![t] = SWIdle]
      /\ ended' = ended \cup {e} /\ UNCHANGED <<call, got, mem>>
  BY DEF SwitchEnd, swReturned, pipeVars
<1>3. sw[t].f \in Seq(Samples) /\ sw[t].to \in Seq(Leaf) /\ sw[t].err \in Errors
  BY ChainTypes DEF SWType
<1>4. e \in EndedType /\ e.f = sw[t].f /\ e.to = sw[t].to /\ e.err = sw[t].err
  BY <1>3 DEF EndedType
<1>5. \A i \in 1..Len(sw[t].to) : Reached(got, mem, sw[t].to[i], sw[t].f, sw[t].err)
  <2>1. Passed(sw[t], got, mem)
    BY <1>2 DEF Delivery
  <2>2. Len(sw[t].ts) = 0 /\ Len(sw[t].to) \in Nat
    BY <1>2, <1>3, LenProperties
  <2>3. Len(sw[t].to) - Len(sw[t].ts) = Len(sw[t].to)
    BY <2>2
  <2> QED BY <2>1, <2>3 DEF Passed
<1> HIDE DEF e
<1>6. \A leaf \in Elems(e.to) : Reached(got, mem, leaf, e.f, e.err)
  <2>1. DOMAIN e.to = 1..Len(e.to)
    BY <1>3, <1>4
  <2> QED BY <1>4, <1>5, <2>1 DEF Elems
<1>7. SWIdle \in SWType /\ SWIdle.pc = "idle"
  <2>1. <<>> \in Seq(Samples) /\ <<>> \in Seq(Leaf)
    OBVIOUS
  <2> QED BY <2>1 DEF SWIdle, SWType, Errors
<1>8. /\ ended' \subseteq EndedType
      /\ \A x \in ended' \ ended : \A leaf \in Elems(x.to) : Reached(got, mem, leaf, x.f, x.err)
  BY <1>1, <1>2, <1>4, <1>6
<1> QED BY <1>1, <1>2, <1>7, <1>8, DeliverySwitch

LEMMA DeliverySteps ==
  ASSUME Delivery, Quiet, ChainInv, PipeInv, [Next]_vars
  PROVE  Delivery'
<1>1. /\ ChainTypeOK /\ got \in Seq(Samples) /\ mem \in MemType /\ ended \subseteq EndedType
      /\ call \in [Threads -> CallType]
  BY DEF ChainInv, PipeInv, PipeTypeOK, Delivery
<1>2. /\ Rd \in Threads /\ Ctl \in Threads /\ RdCloser \in Threads /\ Ctl \notin Direct
      /\ RdCloser \notin Framed \cup Direct \cup {Ctl} /\ Producers \subseteq Threads
      /\ Producers = Framed \cup Direct
  BY WritersAssumption DEF Producers
<1>3. <<>> \in Seq(Samples) /\ got \o <<>> = got
  BY <1>1, ConcatEmptySeq
<1>4. ASSUME NEW t \in Threads, NEW c, call' = [call EXCEPT ![t] = c], sw[t].pc # "called",
             UNCHANGED <<got, sw, mem, ended>>
      PROVE  Delivery'
  <2>1. \A u \in Threads : u # t => call'[u] = call[u]
    BY <1>1, <1>4
  <2>2. \A u \in Threads : sw[u].pc = "called" => InPipe(call'[u], got', sw[u].f)
    BY <1>4, <2>1 DEF Delivery
  <2>3. \E x \in Seq(Samples) : got' = got \o x
    BY <1>3, <1>4
  <2> QED BY <1>1, <1>4, <2>2, <2>3, DeliveryAside
<1>5. CASE UNCHANGED <<call, got, sw, mem, ended>>
  BY <1>5 DEF Delivery, WriteDelivers
<1>6. ASSUME NEW t \in Threads, NEW f \in Seq(Samples), sw' = [sw EXCEPT ![t] = swStart(f)],
             UNCHANGED <<call, got, mem, ended>>
      PROVE  Delivery'
  <2> DEFINE s == swStart(f)
  <2>1. s \in SWType /\ s.pc # "called"
    BY SwStartIs
  <2>2. s.ts = <<>> /\ s.to = <<>>
    BY DEF swStart, SWIdle
  <2> HIDE DEF s
  <2>3. Passed(s, got, mem)
    BY <2>2 DEF Passed
  <2>4. ended' \subseteq EndedType /\ ended' \ ended = {}
    BY <1>1, <1>6
  <2>5. sw' = [sw EXCEPT ![t] = s]
    BY <1>6 DEF s
  <2> QED BY <1>1, <1>6, <2>1, <2>3, <2>4, <2>5, DeliverySwitch
<1>7. CASE Calls
  <2>1. ASSUME NEW p \in Direct, WriteDirect(p) PROVE Delivery'
    <3>1. PICK n \in Chunks[p] : sw' = [sw EXCEPT ![p] = swStart(chunk(p, n))]
      BY <2>1 DEF WriteDirect
    <3>2. p \in Producers /\ p \in Threads /\ UNCHANGED <<call, got, mem, ended>>
      BY <1>2, <2>1 DEF WriteDirect, pipeVars
    <3>3. chunk(p, n) \in Seq(Samples)
      BY <3>2, ChunkIs
    <3> QED BY <1>6, <3>1, <3>2, <3>3
  <2>2. CASE (\E p \in Framed : WriteFrames(p)) \/ CloseFrames \/ Swap \/ EnableDisable
    BY <1>5, <2>2 DEF WriteFrames, CloseFrames, Swap, EnableDisable, pipeVars
  <2>3. CASE CloseReader
    <3>1. PICK err \in {None, "err"} : CloseRead(RdCloser, err)
      BY <2>3 DEF CloseReader
    <3>2. UNCHANGED <<got, sw, mem, ended>>
      BY <2>3, <3>1 DEF CloseReader, CloseRead
    <3>3. PICK c : call' = [call EXCEPT ![RdCloser] = c]
      BY <3>1 DEF CloseRead
    <3>4. sw[RdCloser].pc # "called"
      BY <1>2 DEF Quiet
    <3> QED BY <1>2, <1>4, <3>2, <3>3, <3>4
  <2> QED BY <1>7, <2>1, <2>2, <2>3 DEF Calls
<1>8. CASE ReadPipe
  <2>1. PICK n \in Buffers : Read(Rd, n)
    BY <1>8 DEF ReadPipe
  <2>2. UNCHANGED <<got, sw, mem, ended>>
    BY <1>8, <2>1 DEF ReadPipe, Read, chainVars
  <2>3. PICK c : call' = [call EXCEPT ![Rd] = c]
    BY <2>1 DEF Read
  <2>4. sw[Rd].pc # "called"
    BY DEF ChainInv, ReaderOnly
  <2> QED BY <1>2, <1>4, <2>2, <2>3, <2>4
<1>9. ASSUME NEW t \in Threads, Running(t) PROVE Delivery'
  <2>1. CASE PipeStep(t) /\ UNCHANGED chainVars
    <3>1. UNCHANGED <<sw, mem, ended>>
      BY <2>1 DEF chainVars
    <3>2. /\ \E x \in Seq(Samples) : got' = got \o x
          /\ \A u \in Threads, f \in Seq(Samples) :
               InPipe(call[u], got, f) => InPipe(call'[u], got', f)
      BY <2>1, PipeKeeps
    <3>3. ASSUME NEW u \in Threads, sw[u].pc = "called" PROVE InPipe(call'[u], got', sw[u].f)
      <4>1. sw[u].f \in Seq(Samples) /\ InPipe(call[u], got, sw[u].f)
        BY <3>3, ChainTypes DEF Delivery, SWType
      <4> QED BY <3>2, <4>1
    <3> QED BY <1>1, <3>1, <3>2, <3>3, DeliveryAside
  <2>2. CASE SwitchLoad(t) \/ WriteMem(t) \/ WritePipe(t) \/ WrittenPipe(t)
    BY <2>2, DeliveryWrites
  <2>3. CASE WrittenDirect(t) \/ FlushWritten(t)
    BY <2>3, DeliveryEnds DEF WrittenDirect, FlushWritten
  <2>4. CASE FlushWrite(t)
    <3> DEFINE n == flushLen(t)
               it == ff[t].it
               f == SubSeq(it, 1, n)
    <3>1. sw' = [sw EXCEPT ![t] = swStart(f)] /\ UNCHANGED <<call, got, mem, ended>>
      BY <2>4 DEF FlushWrite, pipeVars
    <3>2. it \in Seq(Samples)
      BY ChainTypes DEF FFType
    <3>3. Len(it) \in Nat /\ FrameSize \in Nat /\ n \in Nat /\ n <= Len(it)
      <4>1. Len(it) \in Nat /\ FrameSize \in Nat
        BY <3>2, WritersAssumption, LenProperties
      <4> QED BY <4>1 DEF flushLen
    <3>4. f \in Seq(Samples)
      <4>1. it \in Seq(Samples) /\ 1 \in 1..Len(it) + 1 /\ n \in 0..Len(it) /\ 1 - 1 <= n
        BY <3>2, <3>3
      <4> HIDE DEF it, n
      <4> QED BY <4>1, SliceProperties
    <3> HIDE DEF f
    <3> QED BY <1>6, <3>1, <3>4
  <2>5. CASE FramesLock(t) \/ FlushEnd(t) \/ FramesClosed
    BY <1>5, <2>5 DEF FramesLock, FlushEnd, FramesClosed, pipeVars
  <2>6. CASE CloseMem(t)
    <3>1. mem' = [mem EXCEPT !.open = FALSE] /\ UNCHANGED <<call, got, sw, ended>>
      BY <2>6 DEF CloseMem, pipeVars
    <3>2. mem' \in MemType /\ ~mem'.open
      BY <1>1, <3>1 DEF MemType
    <3>3. Grown
      BY <1>3, <3>1, <3>2 DEF Grown
    <3>4. sw[t] \in SWType /\ sw' = [sw EXCEPT ![t] = sw[t]]
      BY <3>1, ChainTypes
    <3>5. sw[t].pc \in {"each", "called"} => Passed(sw[t], got', mem')
      <4>1. sw[t].pc \in {"each", "called"} => Passed(sw[t], got, mem)
        BY DEF Delivery
      <4> QED BY <1>1, <3>3, <3>4, <4>1, PassedStays
    <3>6. \A u \in Threads : sw[u].pc = "called" =>
            Head(sw[u].ts) = "pipe" /\ InPipe(call'[u], got', sw[u].f)
      BY <3>1 DEF Delivery
    <3>7. ended' \subseteq EndedType /\ ended' \ ended = {}
      BY <1>1, <3>1
    <3> QED BY <1>1, <3>2, <3>3, <3>4, <3>5, <3>6, <3>7, DeliveryMoves
  <2>7. CASE ClosePipe(t)
    <3>1. UNCHANGED <<got, sw, mem, ended>> /\ cl[t] # <<>>
      BY <2>7 DEF ClosePipe, CloseWrite
    <3>2. PICK c : call' = [call EXCEPT ![t] = c]
      BY <2>7 DEF ClosePipe, CloseWrite
    <3>3. sw[t].pc # "called"
      BY <1>2, <3>1 DEF Quiet
    <3> QED BY <1>4, <3>1, <3>2, <3>3
  <2> QED BY <1>9, <2>1, <2>2, <2>3, <2>4, <2>5, <2>6, <2>7 DEF Running
<1>10. UNCHANGED vars => UNCHANGED <<call, got, sw, mem, ended>>
  BY DEF vars, pipeVars, chainVars
<1> QED BY <1>5, <1>7, <1>8, <1>9, <1>10 DEF Next

(* Whatever is swapped, disabled and closed while a frame is on its way:   *)
(* when a write through the switch has returned, every writer that was     *)
(* attached when it was loaded has the frame, whole and in one piece,      *)
(* except for a pipe whose failure the caller was told and a buffer that   *)
(* is closed; one writer's failure keeps the frame from no other           *)
(* (SwitchWriter, MultiWriter.WriteSample).                                *)
THEOREM WriteDeliversHolds == Spec => []WriteDelivers
<1>1. Init => PipeInv /\ ChainInv /\ Quiet /\ Delivery
  <2> SUFFICES ASSUME Init PROVE PipeInv /\ ChainInv /\ Quiet /\ Delivery
    OBVIOUS
  <2>1. PipeInv /\ ChainInv
    BY PipeStarts, ChainStarts DEF Init
  <2> QED BY <2>1, DeliveryStarts
<1>2. PipeInv /\ ChainInv /\ Quiet /\ Delivery /\ [Next]_vars
        => (PipeInv /\ ChainInv /\ Quiet /\ Delivery)'
  <2> SUFFICES ASSUME PipeInv, ChainInv, Quiet, Delivery, [Next]_vars
               PROVE  PipeInv' /\ ChainInv' /\ Quiet' /\ Delivery'
    OBVIOUS
  <2>1. PipeInv'
    BY PipeMoves, PipeSteps
  <2>2. ChainInv'
    BY ChainSteps DEF PipeInv
  <2>3. Quiet' /\ Delivery'
    BY QuietSteps, DeliverySteps
  <2> QED BY <2>1, <2>2, <2>3
<1>3. Delivery => WriteDelivers
  BY DEF Delivery
<1> QED BY <1>1, <1>2, <1>3, PTL DEF Spec

----------------------------------------------------------------------------
(* The order of the samples along the chain.                               *)

Before(x, y) == x[1] = y[1] => x[2] < y[2]

AllBefore(A, B) == \A x \in A, y \in B : Before(x, y)

Given == {x \in Samples : x[2] \in 1..given[x[1]]}

\* What FullFrames has taken and not yet handed to the switch, and the tail that it
\* keeps while the tail is written.
lane == IF mu = None \/ ff[mu].pc = "close" THEN buf ELSE ff[mu].it

\* Who works on the buffer has its mutex.
MuInv ==
  /\ mu \in Threads \cup {None}
  /\ \A t \in Threads : ff[t].pc \notin {"idle", "lock"} <=> mu = t
  /\ \A t \in Threads : ff[t].pc # "idle" => t \in Framed \cup {Ctl}

\* Each sample is its producer's.  Those of FullFrames are in order from the frame on
\* its way over the buffer to the calls that wait.
LaneInv ==
  /\ \A t \in Threads : /\ ff[t].pc # "lock" \/ t \notin Framed => ff[t].in = <<>>
                        /\ inOrder(ff[t].in)
                        /\ \A x \in Elems(ff[t].in) : x \in Given /\ x[1] = t
  /\ \A t \in Threads : /\ sw[t].pc = "idle" => sw[t].f = <<>>
                        /\ inOrder(sw[t].f)
                        /\ \A x \in Elems(sw[t].f) :
                             /\ x \in Given
                             /\ IF t \in Direct THEN x[1] = t ELSE x[1] \in Framed
  /\ inOrder(lane) /\ \A x \in Elems(lane) : x \in Given /\ x[1] \in Framed
  /\ \A t \in Threads : ff[t].pc = "frame" => AllBefore(Elems(sw[t].f), Elems(ff[t].it))
  /\ \A t \in Threads : ff[t].pc = "tail" => /\ t = Ctl /\ sw[t].f = ff[t].it
                                             /\ Len(sw[t].f) < FrameSize
  /\ \A t, u \in Threads : AllBefore(Elems(sw[u].f) \cup Elems(lane), Elems(ff[t].in))

\* Every sample given is in a place or was written, and is out of its place once it
\* was, but for a tail that failed.
Kept ==
  /\ \A x \in Given : x \in waiting \cup held \cup writing \/ settling(x) # {}
  /\ \A x \in waiting \cup held \cup writing : \A e \in settling(x) :
       e.err # None /\ Len(e.f) < FrameSize
  /\ \A e \in ended : Elems(e.f) \subseteq Given

\* t's write is still to give its frame to a writer.
ahead(t, leaf) ==
  \/ sw[t].pc = "load"
  \/ sw[t].pc \in {"each", "called"} /\ leaf \in Elems(sw[t].ts)
     /\ ~(leaf = "pipe" /\ sw[t].pc = "called")

\* A tail that has been with mem once will not be there again: it is closed next.
memOver ==
  \/ ff[Ctl].pc \in {"tail", "flushed"} /\ "mem" \in Elems(w)
  \/ ff[Ctl].pc = "close" /\ "mem" \in Elems(cl[Ctl])

\* What FullFrames has is on its way again, now or once a write has failed.
over(leaf) == IF leaf = "pipe" THEN ff[Ctl].pc = "tail" ELSE memOver

heldFor(leaf) == IF over(leaf) THEN {} ELSE Elems(lane)

\* The samples that a writer may still get, from calls to come.
comes(leaf) ==
  waiting \cup heldFor(leaf) \cup UNION {Elems(sw[t].f) : t \in {u \in Threads : ahead(u, leaf)}}

\* A write that the pipe has not answered.
live(c) == c.pc \in {"lock", "send", "sent"}

NoRepeat(s) == \A i, j \in DOMAIN s : s[i] = s[j] => i = j

TargetsInv ==
  /\ NoRepeat(w) /\ \A t \in Threads : NoRepeat(sw[t].ts)
  /\ sw[Ctl].pc \in {"each", "called"} => Elems(sw[Ctl].ts) \subseteq Elems(w)
  /\ \A t \in Threads : live(call[t]) =>
       sw[t].pc = "called" /\ call[t].b = sw[t].f
  /\ \A t \in Threads : sw[t].err # None => done

\* What a pipe write has handed over, the part included that a reader has copied and
\* not answered for.
taken(t) == call[t].n + IF call[t].pc = "sent" /\ call[Rd].pc = "answer"
                        THEN Len(call[Rd].b) ELSE 0

PipeOrder ==
  /\ Elems(got) \subseteq Given /\ inOrder(got)
  /\ \A t \in Threads : live(call[t]) =>
       \A x \in Elems(got), i \in taken(t) + 1..Len(call[t].b) : Before(x, call[t].b[i])
  /\ ~done => AllBefore(Elems(got), comes("pipe"))

MemOrder ==
  /\ Elems(mem.buf) \subseteq Given /\ inOrder(mem.buf)
  /\ mem.open => AllBefore(Elems(mem.buf), comes("mem"))

OrderInv == MuInv /\ LaneInv /\ Kept /\ TargetsInv /\ PipeOrder /\ MemOrder

LEMMA ElemsOf ==
  ASSUME NEW S, NEW s \in Seq(S)
  PROVE  /\ \A x : x \in Elems(s) <=> \E i \in 1..Len(s) : s[i] = x
         /\ Elems(s) \subseteq S
  BY DEF Elems

LEMMA NoElems == Elems(<<>>) = {} /\ inOrder(<<>>)
  BY DEF Elems, inOrder

LEMMA OrderIs ==
  ASSUME NEW s \in Seq(Samples)
  PROVE  inOrder(s) <=> \A i, j \in 1..Len(s) : i < j => Before(s[i], s[j])
  BY DEF inOrder, Before

\* Two sequences one after the other.
LEMMA ElemsConcat ==
  ASSUME NEW S, NEW s \in Seq(S), NEW u \in Seq(S)
  PROVE  s \o u \in Seq(S) /\ Elems(s \o u) = Elems(s) \cup Elems(u)
<1>1. /\ Len(s) \in Nat /\ Len(u) \in Nat /\ s \o u \in Seq(S)
      /\ Len(s \o u) = Len(s) + Len(u)
      /\ \A i \in 1..Len(s) + Len(u) : (s \o u)[i] = IF i <= Len(s) THEN s[i] ELSE u[i - Len(s)]
  BY ConcatProperties, LenProperties
<1>2. ASSUME NEW x \in Elems(s) PROVE x \in Elems(s \o u)
  <2>1. PICK i \in 1..Len(s) : s[i] = x
    BY ElemsOf
  <2>2. i \in 1..Len(s) + Len(u) /\ (s \o u)[i] = x
    BY <1>1, <2>1
  <2> QED BY <1>1, <2>2, ElemsOf
<1>3. ASSUME NEW x \in Elems(u) PROVE x \in Elems(s \o u)
  <2>1. PICK i \in 1..Len(u) : u[i] = x
    BY ElemsOf
  <2>2. Len(s) + i \in 1..Len(s) + Len(u) /\ ~(Len(s) + i <= Len(s)) /\ Len(s) + i - Len(s) = i
    BY <1>1
  <2>3. (s \o u)[Len(s) + i] = x
    BY <1>1, <2>1, <2>2
  <2> QED BY <1>1, <2>2, <2>3, ElemsOf
<1>4. ASSUME NEW x \in Elems(s \o u) PROVE x \in Elems(s) \cup Elems(u)
  <2>1. PICK i \in 1..Len(s) + Len(u) : (s \o u)[i] = x
    BY <1>1, ElemsOf
  <2>2. CASE i <= Len(s)
    <3>1. i \in 1..Len(s) /\ s[i] = x
      BY <1>1, <2>1, <2>2
    <3> QED BY <3>1, ElemsOf
  <2>3. CASE ~(i <= Len(s))
    <3>1. i - Len(s) \in 1..Len(u) /\ u[i - Len(s)] = x
      BY <1>1, <2>1, <2>3
    <3> QED BY <3>1, ElemsOf
  <2> QED BY <2>2, <2>3
<1> QED BY <1>1, <1>2, <1>3, <1>4

LEMMA OrderConcat ==
  ASSUME NEW s \in Seq(Samples), NEW u \in Seq(Samples), inOrder(s), inOrder(u),
         AllBefore(Elems(s), Elems(u))
  PROVE  inOrder(s \o u)
<1>1. /\ Len(s) \in Nat /\ Len(u) \in Nat /\ s \o u \in Seq(Samples)
      /\ Len(s \o u) = Len(s) + Len(u)
      /\ \A i \in 1..Len(s) + Len(u) : (s \o u)[i] = IF i <= Len(s) THEN s[i] ELSE u[i - Len(s)]
  BY ConcatProperties, LenProperties
<1>2. ASSUME NEW i \in 1..Len(s) + Len(u), NEW j \in 1..Len(s) + Len(u), i < j
      PROVE  Before((s \o u)[i], (s \o u)[j])
  <2>1. CASE j <= Len(s)
    <3>1. i \in 1..Len(s) /\ j \in 1..Len(s) /\ i <= Len(s)
      BY <1>1, <1>2, <2>1
    <3>2. Before(s[i], s[j])
      BY <1>2, <3>1, OrderIs
    <3> QED BY <1>1, <2>1, <3>1, <3>2
  <2>2. CASE i <= Len(s) /\ ~(j <= Len(s))
    <3>1. i \in 1..Len(s) /\ j - Len(s) \in 1..Len(u)
      BY <1>1, <1>2, <2>2
    <3>2. s[i] \in Elems(s) /\ u[j - Len(s)] \in Elems(u)
      BY <3>1, ElemsOf
    <3>3. Before(s[i], u[j - Len(s)])
      BY <3>2 DEF AllBefore
    <3> QED BY <1>1, <2>2, <3>3
  <2>3. CASE ~(i <= Len(s))
    <3>1. /\ i - Len(s) \in 1..Len(u) /\ j - Len(s) \in 1..Len(u) /\ i - Len(s) < j - Len(s)
          /\ ~(j <= Len(s))
      BY <1>1, <1>2, <2>3
    <3>2. Before(u[i - Len(s)], u[j - Len(s)])
      BY <3>1, OrderIs
    <3> QED BY <1>1, <2>3, <3>1, <3>2
  <2>4. j <= Len(s) => i <= Len(s)
    BY <1>1, <1>2
  <2> QED BY <2>1, <2>2, <2>3, <2>4
<1> QED BY <1>1, <1>2, OrderIs

\* A sequence cut in two.
LEMMA Cut ==
  ASSUME NEW S, NEW s \in Seq(S), NEW n \in 0..Len(s)
  PROVE  /\ SubSeq(s, 1, n) \in Seq(S) /\ SubSeq(s, n + 1, Len(s)) \in Seq(S)
         /\ Len(SubSeq(s, 1, n)) = n /\ Len(SubSeq(s, n + 1, Len(s))) = Len(s) - n
         /\ s = SubSeq(s, 1, n) \o SubSeq(s, n + 1, Len(s))
         /\ \A i \in 1..n : SubSeq(s, 1, n)[i] = s[i]
         /\ \A i \in 1..Len(s) - n : SubSeq(s, n + 1, Len(s))[i] = s[n + i]
<1>1. Len(s) \in Nat /\ n \in Nat /\ n <= Len(s) /\ s \in Seq(S)
  BY LenProperties
<1> DEFINE a == SubSeq(s, 1, n)
           b == SubSeq(s, n + 1, Len(s))
<1>2. a \in Seq(S) /\ Len(a) = n /\ \A i \in 1..n : a[i] = s[i]
  BY <1>1
<1>3. b \in Seq(S) /\ Len(b) = Len(s) - n /\ \A i \in 1..Len(s) - n : b[i] = s[n + i]
  <2>1. PICK k, z : k = n + 1 /\ z = Len(s)
    OBVIOUS
  <2>2. k \in 1..Len(s) + 1 /\ z \in 0..Len(s) /\ k - 1 <= z
    BY <1>1, <2>1
  <2>3. /\ SubSeq(s, k, z) \in Seq(S) /\ Len(SubSeq(s, k, z)) = z - k + 1
        /\ \A i \in 1..z - k + 1 : SubSeq(s, k, z)[i] = s[k + i - 1]
    BY <2>2, SliceProperties
  <2>4. z - k + 1 = Len(s) - n /\ \A i \in 1..Len(s) - n : k + i - 1 = n + i
    BY <1>1, <2>1
  <2>5. b = SubSeq(s, k, z)
    BY <2>1
  <2> HIDE DEF b
  <2> QED BY <2>3, <2>4, <2>5
<1> HIDE DEF a, b
<1>4. a \o b \in Seq(S) /\ Len(a \o b) = Len(s)
  <2>1. a \o b \in Seq(S) /\ Len(a \o b) = Len(a) + Len(b)
    BY <1>2, <1>3, ConcatProperties
  <2> QED BY <1>1, <1>2, <1>3, <2>1
<1>5. ASSUME NEW i \in 1..Len(s) PROVE (a \o b)[i] = s[i]
  <2>1. (a \o b)[i] = IF i <= n THEN a[i] ELSE b[i - n]
    BY <1>1, <1>2, <1>3, ConcatProperties
  <2>2. CASE i <= n
    BY <1>1, <1>2, <2>1, <2>2
  <2>3. CASE ~(i <= n)
    <3>1. i - n \in 1..Len(s) - n /\ n + (i - n) = i
      BY <1>1, <2>3
    <3> QED BY <1>3, <2>1, <2>3, <3>1
  <2> QED BY <2>2, <2>3
<1>6. a \o b = s
  BY <1>1, <1>4, <1>5, SeqEqual
<1> QED BY <1>2, <1>3, <1>6 DEF a, b

LEMMA OrderCut ==
  ASSUME NEW s \in Seq(Samples), NEW n \in 0..Len(s), inOrder(s)
  PROVE  /\ inOrder(SubSeq(s, 1, n)) /\ inOrder(SubSeq(s, n + 1, Len(s)))
         /\ AllBefore(Elems(SubSeq(s, 1, n)), Elems(SubSeq(s, n + 1, Len(s))))
         /\ Elems(s) = Elems(SubSeq(s, 1, n)) \cup Elems(SubSeq(s, n + 1, Len(s)))
<1>1. Len(s) \in Nat /\ n \in Nat /\ n <= Len(s)
  BY LenProperties
<1> DEFINE a == SubSeq(s, 1, n)
           b == SubSeq(s, n + 1, Len(s))
<1>2. /\ a \in Seq(Samples) /\ b \in Seq(Samples) /\ Len(a) = n /\ Len(b) = Len(s) - n
      /\ s = a \o b
      /\ \A i \in 1..n : a[i] = s[i]
      /\ \A i \in 1..Len(s) - n : b[i] = s[n + i]
  BY Cut
<1> HIDE DEF a, b
<1>3. \A i, j \in 1..Len(s) : i < j => Before(s[i], s[j])
  BY OrderIs
<1>4. inOrder(a)
  <2>1. ASSUME NEW i \in 1..Len(a), NEW j \in 1..Len(a), i < j PROVE Before(a[i], a[j])
    <3>1. i \in 1..n /\ j \in 1..n /\ i \in 1..Len(s) /\ j \in 1..Len(s)
      BY <1>1, <1>2
    <3> QED BY <1>2, <1>3, <2>1, <3>1
  <2> QED BY <1>2, <2>1, OrderIs
<1>5. inOrder(b)
  <2>1. ASSUME NEW i \in 1..Len(b), NEW j \in 1..Len(b), i < j PROVE Before(b[i], b[j])
    <3>1. /\ i \in 1..Len(s) - n /\ j \in 1..Len(s) - n /\ n + i \in 1..Len(s) /\ n + j \in 1..Len(s)
          /\ n + i < n + j
      BY <1>1, <1>2, <2>1
    <3> QED BY <1>2, <1>3, <3>1
  <2> QED BY <1>2, <2>1, OrderIs
<1>6. AllBefore(Elems(a), Elems(b))
  <2> SUFFICES ASSUME NEW x \in Elems(a), NEW y \in Elems(b) PROVE Before(x, y)
    BY DEF AllBefore
  <2>1. PICK i \in 1..n : a[i] = x
    BY <1>2, ElemsOf
  <2>2. PICK j \in 1..Len(s) - n : b[j] = y
    BY <1>2, ElemsOf
  <2>3. i \in 1..Len(s) /\ n + j \in 1..Len(s) /\ i < n + j
    BY <1>1
  <2> QED BY <1>2, <1>3, <2>1, <2>2, <2>3
<1>7. Elems(s) = Elems(a) \cup Elems(b)
  BY <1>2, ElemsConcat
<1> QED BY <1>4, <1>5, <1>6, <1>7 DEF a, b
\* Who works on the buffer of FullFrames has its mutex.
LEMMA MuMoves ==
  ASSUME MuInv, ChainTypeOK, NEW t \in Threads, NEW f, ff' = [ff EXCEPT ![t] = f],
         f.pc # "idle" => t \in Framed \cup {Ctl},
         \/ mu' = mu /\ (f.pc \notin {"idle", "lock"} <=> ff[t].pc \notin {"idle", "lock"})
         \/ mu = None /\ mu' = t /\ f.pc \notin {"idle", "lock"}
         \/ mu = t /\ mu' = None /\ f.pc = "idle"
  PROVE  MuInv'
<1>1. \A u \in Threads : ff'[u] = IF u = t THEN f ELSE ff[u]
  BY DEF ChainTypeOK
<1>2. None \notin Threads
  BY WritersAssumption
<1>3. mu' \in Threads \cup {None}
  BY DEF MuInv
<1>4. ASSUME NEW u \in Threads PROVE ff'[u].pc \notin {"idle", "lock"} <=> mu' = u
  <2>1. ff[u].pc \notin {"idle", "lock"} <=> mu = u
    BY DEF MuInv
  <2>2. ff[t].pc \notin {"idle", "lock"} <=> mu = t
    BY DEF MuInv
  <2> QED BY <1>1, <1>2, <2>1, <2>2
<1>5. \A u \in Threads : ff'[u].pc # "idle" => u \in Framed \cup {Ctl}
  BY <1>1 DEF MuInv
<1> QED BY <1>3, <1>4, <1>5 DEF MuInv

LEMMA MuSteps ==
  ASSUME MuInv, ChainInv, [Next]_vars
  PROVE  MuInv'
<1>0. ChainTypeOK /\ ff \in [Threads -> FFType] /\ Framed \cup {Ctl} \subseteq Threads
  BY WritersAssumption DEF ChainInv, ChainTypeOK
<1>1. CASE UNCHANGED <<ff, mu>>
  BY <1>1 DEF MuInv
<1>2. FFIdle.pc = "idle"
  BY DEF FFIdle
<1>3. CASE Calls
  <2>1. ASSUME NEW p \in Framed, WriteFrames(p) PROVE MuInv'
    <3>1. PICK i : ff' = [ff EXCEPT ![p] = [ff[p] EXCEPT !.pc = "lock", !.in = i]]
      BY <2>1 DEF WriteFrames
    <3>2. ff[p].pc = "idle" /\ mu' = mu
      BY <1>2, <2>1 DEF WriteFrames
    <3>3. [ff[p] EXCEPT !.pc = "lock", !.in = i].pc = "lock"
      BY <1>0 DEF FFType
    <3> QED BY <1>0, <3>1, <3>2, <3>3, MuMoves
  <2>2. CASE CloseFrames
    <3>1. /\ ff' = [ff EXCEPT ![Ctl] = [ff[Ctl] EXCEPT !.pc = "lock"]]
          /\ ff[Ctl].pc = "idle" /\ mu' = mu
      BY <1>2, <2>2 DEF CloseFrames
    <3>2. [ff[Ctl] EXCEPT !.pc = "lock"].pc = "lock"
      BY <1>0 DEF FFType
    <3> QED BY <1>0, <3>1, <3>2, MuMoves
  <2>3. CASE (\E p \in Direct : WriteDirect(p)) \/ Swap \/ EnableDisable \/ CloseReader
    BY <1>1, <2>3 DEF WriteDirect, Swap, EnableDisable, CloseReader
  <2> QED BY <1>3, <2>1, <2>2, <2>3 DEF Calls
<1>4. ASSUME NEW t \in Threads, Running(t) PROVE MuInv'
  <2>0. ff[t].pc # "idle" => t \in Framed \cup {Ctl}
    BY DEF MuInv
  <2>1. CASE PipeStep(t) /\ UNCHANGED chainVars
    BY <1>1, <2>1 DEF chainVars
  <2>2. CASE SwitchLoad(t) \/ WriteMem(t) \/ WritePipe(t) \/ WrittenPipe(t) \/ CloseMem(t) \/ ClosePipe(t)
    BY <1>1, <2>2 DEF SwitchLoad, WriteMem, WritePipe, WrittenPipe, CloseMem, ClosePipe
  <2>3. CASE WrittenDirect(t)
    BY <1>1, <2>3 DEF WrittenDirect
  <2>4. CASE FramesLock(t)
    <3>1. PICK i : ff' = [ff EXCEPT ![t] = [FFIdle EXCEPT !.pc = "flush", !.it = i]]
      BY <2>4 DEF FramesLock
    <3>2. ff[t].pc = "lock" /\ mu = None /\ mu' = t
      BY <2>4 DEF FramesLock
    <3>3. [FFIdle EXCEPT !.pc = "flush", !.it = i].pc = "flush"
      BY DEF FFIdle
    <3> QED BY <1>0, <2>0, <3>1, <3>2, <3>3, MuMoves
  <2>5. CASE FlushWrite(t)
    <3>1. PICK i : ff' = [ff EXCEPT ![t] =
                     [ff[t] EXCEPT !.pc = IF flushLen(t) = FrameSize THEN "frame" ELSE "tail",
                                   !.it = i]]
      BY <2>5 DEF FlushWrite
    <3> DEFINE f == [ff[t] EXCEPT !.pc = IF flushLen(t) = FrameSize THEN "frame" ELSE "tail",
                                  !.it = i]
    <3>2. ff[t].pc = "flush" /\ mu' = mu
      BY <2>5 DEF FlushWrite
    <3>3. f.pc \in {"frame", "tail"}
      BY <1>0 DEF FFType
    <3>4. ff' = [ff EXCEPT ![t] = f]
      BY <3>1
    <3> HIDE DEF f
    <3> QED BY <1>0, <2>0, <3>2, <3>3, <3>4, MuMoves
  <2>6. CASE FlushWritten(t)
    <3> DEFINE g == IF sw[t].err # None THEN [ff[t] EXCEPT !.pc = "flushed", !.err = sw[t].err]
                    ELSE IF ff[t].pc = "tail" THEN [ff[t] EXCEPT !.pc = "flushed", !.it = <<>>]
                    ELSE [ff[t] EXCEPT !.pc = "flush"]
    <3>1. ff[t].pc \in {"frame", "tail"} /\ mu' = mu
      BY <2>6 DEF FlushWritten
    <3>2. ff' = [ff EXCEPT ![t] = g]
      BY <2>6 DEF FlushWritten
    <3>3. g.pc \in {"flushed", "flush"}
      BY <1>0 DEF FFType
    <3> HIDE DEF g
    <3> QED BY <1>0, <2>0, <3>1, <3>2, <3>3, MuMoves
  <2>7. CASE FlushEnd(t)
    <3> DEFINE g == IF t = Ctl THEN [FFIdle EXCEPT !.pc = "close"] ELSE FFIdle
    <3>1. ff[t].pc \in {"flushed", "flush"} /\ mu' = IF t = Ctl THEN mu ELSE None
      BY <2>7 DEF FlushEnd
    <3>2. ff' = [ff EXCEPT ![t] = g]
      BY <2>7 DEF FlushEnd
    <3>3. g.pc = IF t = Ctl THEN "close" ELSE "idle"
      BY DEF FFIdle
    <3>4. mu = t
      BY <3>1 DEF MuInv
    <3> HIDE DEF g
    <3> QED BY <1>0, <2>0, <3>1, <3>2, <3>3, <3>4, MuMoves
  <2>8. CASE t = Ctl /\ FramesClosed
    <3>1. ff[t].pc = "close" /\ ff' = [ff EXCEPT ![t] = FFIdle] /\ mu' = None
      BY <2>8 DEF FramesClosed
    <3>2. mu = t
      BY <3>1 DEF MuInv
    <3> QED BY <1>0, <1>2, <3>1, <3>2, MuMoves
  <2> QED BY <1>4, <2>1, <2>2, <2>3, <2>4, <2>5, <2>6, <2>7, <2>8 DEF Running
<1>5. UNCHANGED vars \/ ReadPipe => UNCHANGED <<ff, mu>>
  BY DEF vars, ReadPipe, chainVars
<1> QED BY <1>1, <1>3, <1>4, <1>5 DEF Next
\* A step that moves no sample from its place.
Stay ==
  /\ \A t \in Threads : /\ ff'[t].in = ff[t].in /\ sw'[t].f = sw[t].f
                        /\ sw'[t].pc = "idle" <=> sw[t].pc = "idle"
                        /\ ff'[t].pc \in {"frame", "tail"} \/ ff[t].pc \in {"frame", "tail"}
                             => ff'[t] = ff[t]
                        /\ ff'[t].pc = "lock" <=> \/ ff[t].pc = "lock"
                                                  \/ t = Ctl /\ ff'[t].pc = "lock"
  /\ lane' = lane /\ given' = given /\ ended' = ended

LEMMA StayCalls ==
  ASSUME ChainInv, MuInv, LaneInv, CloseFrames \/ Swap \/ EnableDisable \/ CloseReader
  PROVE  Stay
<1>0. /\ ff \in [Threads -> FFType] /\ sw \in [Threads -> SWType] /\ Ctl \in Threads
      /\ None \notin Threads
  BY WritersAssumption DEF ChainInv, ChainTypeOK
<1>1. CASE CloseFrames
  <2>1. /\ ff' = [ff EXCEPT ![Ctl] = [ff[Ctl] EXCEPT !.pc = "lock"]] /\ ff[Ctl].pc = "idle"
        /\ UNCHANGED <<mu, buf, sw, given, ended>>
    BY <1>1 DEF CloseFrames, FFIdle
  <2>2. /\ [ff[Ctl] EXCEPT !.pc = "lock"].pc = "lock"
        /\ [ff[Ctl] EXCEPT !.pc = "lock"].in = ff[Ctl].in
    BY <1>0 DEF FFType
  <2>3. mu # Ctl
    BY <1>0, <2>1 DEF MuInv
  <2>4. lane' = lane
    BY <1>0, <2>1, <2>3 DEF lane, MuInv
  <2> QED BY <1>0, <2>1, <2>2, <2>4 DEF Stay
<1>2. CASE Swap \/ EnableDisable \/ CloseReader
  <2>1. UNCHANGED <<ff, sw, mu, buf, given, ended>>
    BY <1>2 DEF Swap, EnableDisable, CloseReader
  <2> QED BY <2>1 DEF Stay, lane
<1> QED BY <1>1, <1>2

\* The loop over the writers goes on, with the same frame.
LEMMA StayWrites ==
  ASSUME ChainInv, NEW t \in Threads,
         SwitchLoad(t) \/ WriteMem(t) \/ WritePipe(t) \/ WrittenPipe(t)
  PROVE  Stay
<1>0. ff \in [Threads -> FFType] /\ sw \in [Threads -> SWType]
  BY DEF ChainInv, ChainTypeOK
<1>1. UNCHANGED <<ff, mu, buf, given, ended>>
  BY DEF SwitchLoad, WriteMem, WritePipe, WrittenPipe
<1>2. ASSUME NEW s, sw' = [sw EXCEPT ![t] = s], s.f = sw[t].f, s.pc # "idle", sw[t].pc # "idle"
      PROVE  Stay
  BY <1>0, <1>1, <1>2 DEF Stay, lane
<1>3. CASE SwitchLoad(t)
  <2> DEFINE s == [sw[t] EXCEPT !.pc = "each", !.ts = w, !.to = w]
  <2>1. sw' = [sw EXCEPT ![t] = s] /\ sw[t].pc = "load"
    BY <1>3 DEF SwitchLoad
  <2>2. s.f = sw[t].f /\ s.pc = "each"
    BY <1>0 DEF SWType
  <2> HIDE DEF s
  <2> QED BY <1>2, <2>1, <2>2
<1>4. \A err : nextTarget(sw[t], err).f = sw[t].f /\ nextTarget(sw[t], err).pc = "each"
  BY <1>0 DEF nextTarget, SWType
<1>5. CASE WriteMem(t)
  BY <1>2, <1>4, <1>5 DEF WriteMem
<1>6. CASE WritePipe(t)
  <2> DEFINE s == [sw[t] EXCEPT !.pc = "called"]
  <2>1. sw' = [sw EXCEPT ![t] = s] /\ sw[t].pc = "each"
    BY <1>6 DEF WritePipe
  <2>2. s.f = sw[t].f /\ s.pc = "called"
    BY <1>0 DEF SWType
  <2> HIDE DEF s
  <2> QED BY <1>2, <2>1, <2>2
<1>7. CASE WrittenPipe(t)
  BY <1>2, <1>4, <1>7 DEF WrittenPipe
<1> QED BY <1>3, <1>5, <1>6, <1>7

\* What a flush has left is the buffer.
LEMMA StayEnds ==
  ASSUME ChainInv, MuInv, LaneInv, NEW t \in Threads,
         FlushEnd(t) \/ (t = Ctl /\ FramesClosed)
  PROVE  Stay
<1>0. ff \in [Threads -> FFType] /\ None \notin Threads
  BY WritersAssumption DEF ChainInv, ChainTypeOK
<1>1. UNCHANGED <<sw, given, ended>>
  BY DEF FlushEnd, FramesClosed
<1>2. PICK g : ff' = [ff EXCEPT ![t] = g] /\ g.in = <<>> /\ g.pc = (IF FlushEnd(t) /\ t = Ctl THEN "close" ELSE "idle")
  <2>1. [FFIdle EXCEPT !.pc = "close"].in = <<>> /\ [FFIdle EXCEPT !.pc = "close"].pc = "close"
    BY DEF FFIdle
  <2>2. FFIdle.in = <<>> /\ FFIdle.pc = "idle"
    BY DEF FFIdle
  <2>3. CASE FlushEnd(t)
    <3>1. ff' = [ff EXCEPT ![t] = IF t = Ctl THEN [FFIdle EXCEPT !.pc = "close"] ELSE FFIdle]
      BY <2>3 DEF FlushEnd
    <3> QED BY <2>1, <2>2, <2>3, <3>1
  <2>4. CASE ~FlushEnd(t)
    BY <2>2, <2>4 DEF FramesClosed
  <2> QED BY <2>3, <2>4
<1>3. ff[t].pc \in {"flush", "flushed", "close"}
  BY DEF FlushEnd, FramesClosed
<1>4. ff[t].in = <<>> /\ mu = t
  BY <1>3 DEF LaneInv, MuInv
<1>5. \A u \in Threads : ff'[u] = IF u = t THEN g ELSE ff[u]
  BY <1>0, <1>2
<1>6. lane' = lane
  <2>1. CASE FlushEnd(t)
    <3>1. buf' = ff[t].it /\ ff[t].pc # "close" /\ mu' = IF t = Ctl THEN mu ELSE None
      BY <2>1 DEF FlushEnd
    <3>2. lane = ff[t].it
      BY <1>0, <1>4, <3>1 DEF lane
    <3>3. lane' = buf'
      BY <1>2, <1>4, <1>5, <2>1, <3>1 DEF lane
    <3> QED BY <3>1, <3>2, <3>3
  <2>2. CASE ~FlushEnd(t)
    <3>1. buf' = buf /\ ff[t].pc = "close" /\ mu' = None
      BY <2>2 DEF FramesClosed
    <3> QED BY <1>4, <3>1 DEF lane
  <2> QED BY <2>1, <2>2
<1> QED BY <1>1, <1>2, <1>3, <1>4, <1>5, <1>6 DEF Stay

\* Every step keeps the samples in their places but those of producers, FramesLock,
\* FlushWrite, and the end of a write.
LEMMA Steps ==
  ASSUME ChainInv, MuInv, LaneInv, [Next]_vars
  PROVE  \/ Stay
         \/ \E p \in Direct : WriteDirect(p) \/ WrittenDirect(p)
         \/ \E p \in Framed : WriteFrames(p)
         \/ \E t \in Threads : FramesLock(t) \/ FlushWrite(t) \/ FlushWritten(t)
<1>1. UNCHANGED chainVars => Stay
  BY DEF chainVars, Stay, lane
<1>2. CASE Calls
  BY <1>2, StayCalls DEF Calls
<1>3. ReadPipe \/ UNCHANGED vars => UNCHANGED chainVars
  BY DEF ReadPipe, vars
<1>4. ASSUME NEW t \in Threads, Running(t)
      PROVE  \/ Stay
             \/ t \in Direct /\ WrittenDirect(t)
             \/ FramesLock(t) \/ FlushWrite(t) \/ FlushWritten(t)
  <2>1. CASE CloseMem(t) \/ ClosePipe(t)
    BY <2>1 DEF CloseMem, ClosePipe, Stay, lane
  <2>2. CASE SwitchLoad(t) \/ WriteMem(t) \/ WritePipe(t) \/ WrittenPipe(t)
    BY <2>2, StayWrites
  <2>3. CASE FlushEnd(t) \/ (t = Ctl /\ FramesClosed)
    BY <2>3, StayEnds
  <2>4. CASE PipeStep(t) /\ UNCHANGED chainVars
    BY <1>1, <2>4
  <2> QED BY <1>4, <2>1, <2>2, <2>3, <2>4 DEF Running
<1> QED BY <1>1, <1>2, <1>3, <1>4 DEF Next

LEMMA StayLane ==
  ASSUME LaneInv, Stay
  PROVE  LaneInv'
<1>1. Given' = Given
  BY DEF Stay, Given
<1>2. \A t \in Threads : (ff'[t].pc # "lock" \/ t \notin Framed => ff'[t].in = <<>>)
  BY WritersAssumption DEF Stay, LaneInv
<1>3. \A t \in Threads : /\ inOrder(ff'[t].in)
                         /\ \A x \in Elems(ff'[t].in) : x \in Given' /\ x[1] = t
  BY <1>1 DEF Stay, LaneInv
<1>4. \A t \in Threads : /\ sw'[t].pc = "idle" => sw'[t].f = <<>>
                         /\ inOrder(sw'[t].f)
                         /\ \A x \in Elems(sw'[t].f) :
                              /\ x \in Given'
                              /\ IF t \in Direct THEN x[1] = t ELSE x[1] \in Framed
  BY <1>1 DEF Stay, LaneInv
<1>5. inOrder(lane') /\ \A x \in Elems(lane') : x \in Given' /\ x[1] \in Framed
  BY <1>1 DEF Stay, LaneInv
<1>6. \A t \in Threads : ff'[t].pc = "frame" => AllBefore(Elems(sw'[t].f), Elems(ff'[t].it))
  BY DEF Stay, LaneInv
<1>7. \A t \in Threads : ff'[t].pc = "tail" => /\ t = Ctl /\ sw'[t].f = ff'[t].it
                                               /\ Len(sw'[t].f) < FrameSize
  BY DEF Stay, LaneInv
<1>8. \A t, u \in Threads : AllBefore(Elems(sw'[u].f) \cup Elems(lane'), Elems(ff'[t].in))
  BY DEF Stay, LaneInv
<1> QED BY <1>2, <1>3, <1>4, <1>5, <1>6, <1>7, <1>8 DEF LaneInv
\* What a producer gives follows all that was given.
LEMMA ChunkGiven ==
  ASSUME ChainInv, NEW p \in Producers, NEW n \in Chunks[p],
         given' = [given EXCEPT ![p] = @ + n]
  PROVE  /\ inOrder(chunk(p, n)) /\ Given \subseteq Given'
         /\ \A x \in Elems(chunk(p, n)) : x \in Given' /\ x \notin Given /\ x[1] = p
         /\ \A x \in Given, y \in Given' : y \notin Given => Before(x, y)
         /\ \A y \in Given' : y \in Given \/ y \in Elems(chunk(p, n))
<1>1. /\ n \in Nat /\ chunk(p, n) \in Seq(Samples) /\ given \in [Producers -> Nat]
      /\ given[p] \in Nat
  BY ChunkIs DEF ChainInv, ChainTypeOK
<1> DEFINE c == chunk(p, n)
<1>2. Len(c) = n /\ \A i \in 1..n : c[i] = <<p, given[p] + i>>
  BY <1>1 DEF chunk
<1>3. c \in Seq(Samples)
  BY <1>1
<1> HIDE DEF c
<1>4. \A x : x \in Given <=> x \in Samples /\ x[2] \in 1..given[x[1]]
  BY DEF Given
<1>5. \A x : x \in Given' <=> x \in Samples /\ x[2] \in 1..given'[x[1]]
  BY DEF Given
<1>6. \A q \in Producers : given'[q] = IF q = p THEN given[p] + n ELSE given[q]
  BY <1>1
<1>7. \A x \in Samples : x[1] \in Producers /\ x[2] \in Nat /\ x = <<x[1], x[2]>>
  BY DEF Samples
<1>8. inOrder(c)
  <2>1. ASSUME NEW i \in 1..n, NEW j \in 1..n, i < j PROVE Before(c[i], c[j])
    <3>1. given[p] + i < given[p] + j
      BY <1>1, <2>1
    <3> QED BY <1>2, <3>1 DEF Before
  <2> QED BY <1>2, <1>3, <2>1, OrderIs
<1>9. Given \subseteq Given'
  <2> SUFFICES ASSUME NEW x \in Given PROVE x \in Given'
    OBVIOUS
  <2>1. x \in Samples /\ x[2] \in 1..given[x[1]] /\ x[1] \in Producers
    BY <1>4, <1>7
  <2>2. given[x[1]] \in Nat /\ given'[x[1]] \in Nat /\ given[x[1]] <= given'[x[1]]
    BY <1>1, <1>6, <2>1
  <2>3. x[2] \in 1..given'[x[1]]
    BY <2>1, <2>2
  <2> QED BY <1>5, <2>1, <2>3
<1>10. ASSUME NEW x \in Elems(c) PROVE x \in Given' /\ x \notin Given /\ x[1] = p
  <2>1. PICK i \in 1..n : c[i] = x
    BY <1>2, <1>3, ElemsOf
  <2>2. x[1] = p /\ x[2] = given[p] + i /\ x \in Samples
    BY <1>2, <1>3, <2>1, ElemsOf
  <2>3. x[2] \in 1..given[p] + n /\ x[2] \notin 1..given[p]
    BY <1>1, <2>2
  <2> QED BY <1>4, <1>5, <1>6, <2>2, <2>3
<1>11. ASSUME NEW x \in Given, NEW y \in Given', y \notin Given PROVE Before(x, y)
  <2> SUFFICES ASSUME x[1] = y[1] PROVE x[2] < y[2]
    BY DEF Before
  <2>1. /\ x[1] \in Producers /\ given[x[1]] \in Nat /\ x[2] \in 1..given[x[1]]
        /\ y[2] \in Nat /\ y[2] \notin 1..given[x[1]]
        /\ y[2] \in 1..given'[x[1]]
    BY <1>1, <1>4, <1>5, <1>7, <1>11
  <2>2. given'[x[1]] \in Nat
    BY <1>1, <1>6, <2>1
  <2> QED BY <2>1, <2>2
<1>12. ASSUME NEW y \in Given', y \notin Given PROVE y \in Elems(c)
  <2>1. /\ y \in Samples /\ y[1] \in Producers /\ y[2] \in Nat /\ y[2] \in 1..given'[y[1]]
        /\ y[2] \notin 1..given[y[1]] /\ y = <<y[1], y[2]>>
    BY <1>4, <1>5, <1>7, <1>12
  <2>2. y[1] = p /\ y[2] \in 1..given[p] + n /\ y[2] \notin 1..given[p]
    BY <1>6, <2>1
  <2>3. PICK i \in 1..n : y[2] = given[p] + i
    <3>1. y[2] - given[p] \in 1..n /\ y[2] = given[p] + (y[2] - given[p])
      BY <1>1, <2>1, <2>2
    <3> QED BY <3>1
  <2>4. c[i] = y
    BY <1>2, <2>1, <2>2, <2>3
  <2> QED BY <1>2, <1>3, <2>4, ElemsOf
<1> QED BY <1>8, <1>9, <1>10, <1>11, <1>12 DEF c

LEMMA LaneGiven ==
  ASSUME ChainInv, MuInv, LaneInv, NEW p \in Producers,
         (p \in Direct /\ WriteDirect(p)) \/ (p \in Framed /\ WriteFrames(p))
  PROVE  LaneInv'
<1>0. /\ ff \in [Threads -> FFType] /\ sw \in [Threads -> SWType] /\ p \in Threads
      /\ Framed \cap Direct = {} /\ p # Ctl
  BY WritersAssumption DEF ChainInv, ChainTypeOK, Producers
<1>1. PICK n \in Chunks[p] :
        /\ given' = [given EXCEPT ![p] = @ + n]
        /\ p \in Direct => sw' = [sw EXCEPT ![p] = swStart(chunk(p, n))] /\ ff' = ff
        /\ p \notin Direct => /\ ff' = [ff EXCEPT ![p] = [ff[p] EXCEPT !.pc = "lock", !.in = chunk(p, n)]]
                              /\ sw' = sw /\ p \in Framed
  <2>1. CASE p \in Direct /\ WriteDirect(p)
    BY <2>1 DEF WriteDirect
  <2>2. CASE p \in Framed /\ WriteFrames(p)
    BY <1>0, <2>2 DEF WriteFrames
  <2> QED BY <2>1, <2>2
<1> DEFINE s == swStart(chunk(p, n))
           f == [ff[p] EXCEPT !.pc = "lock", !.in = chunk(p, n)]
<1>2. PICK c : c = chunk(p, n)
  OBVIOUS
<1>3. /\ c \in Seq(Samples) /\ inOrder(c) /\ Given \subseteq Given'
      /\ \A x \in Elems(c) : x \in Given' /\ x \notin Given /\ x[1] = p
      /\ \A x \in Given, y \in Given' : y \notin Given => Before(x, y)
  <2>1. /\ inOrder(chunk(p, n)) /\ Given \subseteq Given'
        /\ \A x \in Elems(chunk(p, n)) : x \in Given' /\ x \notin Given /\ x[1] = p
        /\ \A x \in Given, y \in Given' : y \notin Given => Before(x, y)
    BY <1>1, ChunkGiven
  <2>2. chunk(p, n) \in Seq(Samples)
    BY ChunkIs
  <2> QED BY <1>2, <2>1, <2>2
<1>4. s.f = c /\ s.pc # "idle"
  BY <1>2, <1>3, SwStartIs
<1>5. f.pc = "lock" /\ f.in = c
  BY <1>0, <1>2 DEF FFType
<1>6. p \notin Direct => ff[p].pc = "idle" /\ ff' = [ff EXCEPT ![p] = f] /\ sw' = sw
  <2>1. p \notin Direct => WriteFrames(p)
    OBVIOUS
  <2>2. WriteFrames(p) => ff[p].pc = "idle"
    <3>1. FFIdle.pc = "idle"
      BY DEF FFIdle
    <3>2. WriteFrames(p) => ff[p] = FFIdle
      BY DEF WriteFrames
    <3> QED BY <3>1, <3>2
  <2>3. p \notin Direct => ff' = [ff EXCEPT ![p] = f] /\ sw' = sw
    BY <1>1
  <2> QED BY <2>1, <2>2, <2>3
<1>7. p \in Direct => sw' = [sw EXCEPT ![p] = s] /\ ff' = ff
  BY <1>1
<1> HIDE DEF s, f
<1>8. lane' = lane
  <2>1. mu' = mu /\ buf' = buf
    BY DEF WriteDirect, WriteFrames
  <2>2. \A t \in Threads : ff'[t] = ff[t] \/ ff[t].pc = "idle"
    BY <1>0, <1>6, <1>7
  <2>3. mu \in Threads => ff'[mu] = ff[mu]
    BY <2>2 DEF MuInv
  <2> QED BY <2>1, <2>3 DEF lane, MuInv
<1>9. \A t \in Threads :
        /\ sw'[t].f = IF t = p /\ p \in Direct THEN c ELSE sw[t].f
        /\ sw'[t].pc = "idle" <=> sw[t].pc = "idle" /\ ~(t = p /\ p \in Direct)
        /\ ff'[t].in = IF t = p /\ p \notin Direct THEN c ELSE ff[t].in
        /\ ff'[t].pc = IF t = p /\ p \notin Direct THEN "lock" ELSE ff[t].pc
        /\ t # p => ff'[t] = ff[t]
  BY <1>0, <1>4, <1>5, <1>6, <1>7
<1>10. \A t \in Threads : ff'[t].pc \in {"frame", "tail"} => ff'[t] = ff[t] /\ sw'[t] = sw[t]
  <2> SUFFICES ASSUME NEW t \in Threads, ff'[t].pc \in {"frame", "tail"}
               PROVE ff'[t] = ff[t] /\ sw'[t] = sw[t]
    OBVIOUS
  <2>1. ff[t].pc \in {"frame", "tail"} /\ ~(t = p /\ p \notin Direct)
    BY <1>9
  <2>2. t \notin Direct
    BY <1>0, <2>1, WritersAssumption DEF MuInv
  <2> QED BY <1>0, <1>6, <1>7, <2>1, <2>2
<1>11. \A t \in Threads : /\ ff'[t].pc # "lock" \/ t \notin Framed => ff'[t].in = <<>>
                         /\ inOrder(ff'[t].in)
                         /\ \A x \in Elems(ff'[t].in) : x \in Given' /\ x[1] = t
  BY <1>1, <1>3, <1>9 DEF LaneInv
<1>12. \A t \in Threads : /\ sw'[t].pc = "idle" => sw'[t].f = <<>>
                         /\ inOrder(sw'[t].f)
                         /\ \A x \in Elems(sw'[t].f) :
                              /\ x \in Given'
                              /\ IF t \in Direct THEN x[1] = t ELSE x[1] \in Framed
  BY <1>1, <1>3, <1>9 DEF LaneInv
<1>13. inOrder(lane') /\ \A x \in Elems(lane') : x \in Given' /\ x[1] \in Framed
  BY <1>3, <1>8 DEF LaneInv
<1>14. \A t \in Threads : ff'[t].pc = "frame" => AllBefore(Elems(sw'[t].f), Elems(ff'[t].it))
  BY <1>10 DEF LaneInv
<1>15. \A t \in Threads : ff'[t].pc = "tail" => /\ t = Ctl /\ sw'[t].f = ff'[t].it
                                                /\ Len(sw'[t].f) < FrameSize
  BY <1>10 DEF LaneInv
<1>16. ASSUME NEW t \in Threads, NEW u \in Threads,
              NEW x \in Elems(sw'[u].f) \cup Elems(lane'), NEW y \in Elems(ff'[t].in)
       PROVE  Before(x, y)
  <2>1. CASE x \in Elems(sw[u].f) \cup Elems(lane)
    <3>1. x \in Given
      BY <2>1 DEF LaneInv
    <3>2. CASE y \in Elems(ff[t].in)
      BY <2>1, <3>2 DEF LaneInv, AllBefore
    <3>3. CASE y \notin Elems(ff[t].in)
      BY <1>3, <1>9, <1>16, <3>1, <3>3
    <3> QED BY <3>2, <3>3
  <2>2. CASE x \notin Elems(sw[u].f) \cup Elems(lane)
    <3>1. p \in Direct /\ x \in Elems(c)
      BY <1>8, <1>9, <1>16, <2>2
    <3>2. x[1] \in Direct
      BY <1>3, <3>1
    <3>3. y[1] = t /\ t \in Framed
      BY <1>0, <1>11, <1>16, NoElems
    <3> QED BY <1>0, <3>2, <3>3 DEF Before
  <2> QED BY <2>1, <2>2
<1>17. \A t, u \in Threads : AllBefore(Elems(sw'[u].f) \cup Elems(lane'), Elems(ff'[t].in))
  BY <1>16 DEF AllBefore
<1> QED BY <1>11, <1>12, <1>13, <1>14, <1>15, <1>17 DEF LaneInv

LEMMA LaneLock ==
  ASSUME ChainInv, MuInv, LaneInv, NEW t \in Threads, FramesLock(t)
  PROVE  LaneInv' /\ Elems(lane') = Elems(lane) \cup Elems(ff[t].in)
<1>0. /\ ff \in [Threads -> FFType] /\ buf \in Seq(Samples) /\ ff[t].in \in Seq(Samples)
      /\ None \notin Threads
  BY WritersAssumption DEF ChainInv, ChainTypeOK, FFType
<1>1. /\ ff[t].pc = "lock" /\ mu = None /\ mu' = t /\ buf' = buf \o ff[t].in
      /\ ff' = [ff EXCEPT ![t] = [FFIdle EXCEPT !.pc = "flush", !.it = buf']]
      /\ UNCHANGED <<sw, given>>
  BY DEF FramesLock
<1> DEFINE g == [FFIdle EXCEPT !.pc = "flush", !.it = buf']
<1>2. g.pc = "flush" /\ g.it = buf' /\ g.in = <<>>
  BY DEF FFIdle
<1>3. \A u \in Threads : ff'[u] = IF u = t THEN g ELSE ff[u]
  BY <1>0, <1>1
<1> HIDE DEF g
<1>4. lane = buf /\ lane' = buf \o ff[t].in
  BY <1>0, <1>1, <1>2, <1>3 DEF lane
<1>5. Elems(lane') = Elems(lane) \cup Elems(ff[t].in)
  BY <1>0, <1>4, ElemsConcat
<1>6. inOrder(lane')
  BY <1>0, <1>4, OrderConcat DEF LaneInv, AllBefore
<1>7. Given' = Given
  BY <1>1 DEF Given
<1>8. \A x \in Elems(lane') : x \in Given' /\ x[1] \in Framed
  BY <1>5, <1>7, NoElems DEF LaneInv
<1>9. \A u \in Threads : /\ ff'[u].pc # "lock" \/ u \notin Framed => ff'[u].in = <<>>
                         /\ inOrder(ff'[u].in)
                         /\ \A x \in Elems(ff'[u].in) : x \in Given' /\ x[1] = u
  <2> SUFFICES ASSUME NEW u \in Threads
               PROVE  /\ ff'[u].pc # "lock" \/ u \notin Framed => ff'[u].in = <<>>
                      /\ inOrder(ff'[u].in)
                      /\ \A x \in Elems(ff'[u].in) : x \in Given' /\ x[1] = u
    OBVIOUS
  <2>1. CASE u = t
    BY <1>2, <1>3, <2>1, NoElems
  <2>2. CASE u # t
    <3>1. ff'[u] = ff[u]
      BY <1>3, <2>2
    <3> QED BY <1>7, <3>1 DEF LaneInv
  <2> QED BY <2>1, <2>2
<1>10. \A u \in Threads : ff'[u].pc \notin {"frame", "tail"}
  BY <1>0, <1>1, <1>2, <1>3 DEF MuInv
<1>11. ASSUME NEW v \in Threads, NEW u \in Threads,
              NEW x \in Elems(sw'[u].f) \cup Elems(lane'), NEW y \in Elems(ff'[v].in)
       PROVE  Before(x, y)
  <2>1. v # t /\ ff'[v].in = ff[v].in /\ sw' = sw
    BY <1>1, <1>2, <1>3, <1>11, NoElems
  <2>2. CASE x \in Elems(sw[u].f) \cup Elems(lane)
    BY <1>11, <2>1, <2>2 DEF LaneInv, AllBefore
  <2>3. CASE x \in Elems(ff[t].in)
    BY <1>11, <2>1, <2>3 DEF LaneInv, Before
  <2> QED BY <1>5, <1>11, <2>1, <2>2, <2>3
<1>12. \A v, u \in Threads : AllBefore(Elems(sw'[u].f) \cup Elems(lane'), Elems(ff'[v].in))
  BY <1>11 DEF AllBefore
<1>13. \A u \in Threads : /\ sw'[u].pc = "idle" => sw'[u].f = <<>>
                          /\ inOrder(sw'[u].f)
                          /\ \A x \in Elems(sw'[u].f) :
                               /\ x \in Given'
                               /\ IF u \in Direct THEN x[1] = u ELSE x[1] \in Framed
  BY <1>1, <1>7 DEF LaneInv
<1> QED BY <1>5, <1>6, <1>8, <1>9, <1>10, <1>12, <1>13 DEF LaneInv
\* The next frame of a flush, or the tail.
LEMMA FlushCuts ==
  ASSUME ChainInv, MuInv, LaneInv, NEW t \in Threads, FlushWrite(t)
  PROVE  \E n \in 1..Len(ff[t].it), i \in Seq(Samples), f \in Seq(Samples),
            pc \in {"frame", "tail"} :
           /\ f = SubSeq(ff[t].it, 1, n)
           /\ ff' = [ff EXCEPT ![t] = [ff[t] EXCEPT !.pc = pc, !.it = i]]
           /\ sw' = [sw EXCEPT ![t] = swStart(f)]
           /\ \/ pc = "frame" /\ n = FrameSize /\ i = SubSeq(ff[t].it, n + 1, Len(ff[t].it))
              \/ /\ pc = "tail" /\ n < FrameSize /\ t = Ctl
                 /\ i = ff[t].it /\ f = ff[t].it
<1>0. ff[t].it \in Seq(Samples) /\ Len(ff[t].it) \in Nat /\ FrameSize \in Nat
  BY ChainTypes, LenProperties, WritersAssumption DEF FFType
<1> DEFINE it == ff[t].it
           n == flushLen(t)
           f == SubSeq(it, 1, n)
           i == itAfter(it, n)
           pc == IF n = FrameSize THEN "frame" ELSE "tail"
<1>1. /\ n > 0 /\ ff' = [ff EXCEPT ![t] = [ff[t] EXCEPT !.pc = pc, !.it = i]]
      /\ sw' = [sw EXCEPT ![t] = swStart(f)]
  BY DEF FlushWrite
<1>2. /\ n \in 1..Len(it)
      /\ n # FrameSize => n = Len(it) /\ t = Ctl /\ n < FrameSize
  BY <1>0, <1>1 DEF flushLen, force
<1>3. f \in Seq(Samples) /\ SubSeq(it, n + 1, Len(it)) \in Seq(Samples)
  <2>1. it \in Seq(Samples) /\ n \in 0..Len(it)
    BY <1>0, <1>2
  <2> HIDE DEF it, n
  <2> QED BY <2>1, Cut
<1>4. n # FrameSize => f = it
  <2>1. it \in Seq(Samples) /\ Len(it) \in Nat
    BY <1>0
  <2> HIDE DEF it, n
  <2>2. SubSeq(it, 1, Len(it)) = it
    BY <2>1
  <2> QED BY <1>2, <2>2
<1>5. i = IF n = FrameSize THEN SubSeq(it, n + 1, Len(it)) ELSE it
  BY DEF itAfter
<1>6. i \in Seq(Samples)
  BY <1>0, <1>3, <1>5
<1>7. pc = IF n = FrameSize THEN "frame" ELSE "tail"
  OBVIOUS
<1>8. f = SubSeq(ff[t].it, 1, n) /\ it = ff[t].it
  OBVIOUS
<1> HIDE DEF it, n, f, i, pc
<1> QED BY <1>1, <1>2, <1>3, <1>4, <1>5, <1>6, <1>7, <1>8

LEMMA LaneWrite ==
  ASSUME ChainInv, MuInv, LaneInv, NEW t \in Threads, FlushWrite(t)
  PROVE  /\ LaneInv' /\ sw'[t].f \in Seq(Samples)
         /\ sw' = [sw EXCEPT ![t] = sw'[t]] /\ UNCHANGED <<given, ended>>
         /\ \A u \in Threads : ff'[u].in = ff[u].in
         /\ Elems(lane) = Elems(sw'[t].f) \cup Elems(lane')
         /\ ff'[t].pc \in {"frame", "tail"} /\ t \notin Direct /\ ff[t].pc = "flush"
<1>0. /\ ff \in [Threads -> FFType] /\ sw \in [Threads -> SWType] /\ None \notin Threads
      /\ Framed \cap Direct = {} /\ Ctl \notin Direct /\ t \in Threads
  BY WritersAssumption DEF ChainInv, ChainTypeOK
<1>1. ff[t].pc = "flush" /\ UNCHANGED <<mu, given, ended>>
  BY DEF FlushWrite
<1>2. PICK n \in 1..Len(ff[t].it), i \in Seq(Samples), f \in Seq(Samples),
            pc \in {"frame", "tail"} :
           /\ f = SubSeq(ff[t].it, 1, n)
           /\ ff' = [ff EXCEPT ![t] = [ff[t] EXCEPT !.pc = pc, !.it = i]]
           /\ sw' = [sw EXCEPT ![t] = swStart(f)]
           /\ \/ pc = "frame" /\ n = FrameSize /\ i = SubSeq(ff[t].it, n + 1, Len(ff[t].it))
              \/ /\ pc = "tail" /\ n < FrameSize /\ t = Ctl
                 /\ i = ff[t].it /\ f = ff[t].it
  BY FlushCuts
<1>3. PICK it \in Seq(Samples) : it = ff[t].it
  BY <1>0 DEF FFType
<1>4. mu = t /\ t \notin Direct /\ lane = it
  BY <1>0, <1>1, <1>3 DEF MuInv, lane
<1>5. \A u \in Threads : /\ ff'[u].in = ff[u].in
                         /\ u # t => ff'[u] = ff[u] /\ sw'[u] = sw[u]
  BY <1>0, <1>2 DEF FFType
<1>6. /\ ff'[t].pc = pc /\ ff'[t].it = i /\ sw'[t].f = f /\ sw'[t].pc # "idle"
      /\ pc \in {"frame", "tail"} /\ sw'[t] = swStart(f)
  <2>1. ff'[t] = [ff[t] EXCEPT !.pc = pc, !.it = i] /\ sw'[t] = swStart(f)
    BY <1>0, <1>2
  <2>2. ff'[t].pc = pc /\ ff'[t].it = i
    BY <1>0, <2>1 DEF FFType
  <2>3. swStart(f).f = f /\ swStart(f).pc # "idle"
    BY SwStartIs
  <2> QED BY <2>1, <2>2, <2>3
<1>7. lane' = i
  BY <1>0, <1>1, <1>4, <1>6 DEF lane
<1>8. inOrder(it) /\ \A x \in Elems(it) : x \in Given /\ x[1] \in Framed
  BY <1>4 DEF LaneInv
<1>9. /\ inOrder(f) /\ inOrder(i) /\ Elems(it) = Elems(f) \cup Elems(i)
      /\ pc = "frame" => AllBefore(Elems(f), Elems(i))
  <2>1. CASE pc = "frame"
    <3>1. n \in 0..Len(it) /\ f = SubSeq(it, 1, n) /\ i = SubSeq(it, n + 1, Len(it))
      BY <1>2, <1>3, <2>1
    <3> QED BY <1>8, <3>1, OrderCut
  <2>2. CASE pc # "frame"
    BY <1>2, <1>3, <1>8, <2>2
  <2> QED BY <2>1, <2>2
<1>10. pc = "tail" => t = Ctl /\ f = i /\ Len(f) < FrameSize
  <2>1. pc = "tail" => t = Ctl /\ f = i /\ n < FrameSize /\ f = SubSeq(it, 1, n)
    BY <1>2, <1>3
  <2>2. n \in 0..Len(it)
    BY <1>2, <1>3
  <2>3. Len(SubSeq(it, 1, n)) = n
    BY <2>2, Cut
  <2> QED BY <2>1, <2>3
<1>11. Given' = Given
  BY <1>1 DEF Given
<1>12. \A u \in Threads : /\ ff'[u].pc # "lock" \/ u \notin Framed => ff'[u].in = <<>>
                          /\ inOrder(ff'[u].in)
                          /\ \A x \in Elems(ff'[u].in) : x \in Given' /\ x[1] = u
  BY <1>1, <1>5, <1>11 DEF LaneInv
<1>13. \A u \in Threads : /\ sw'[u].pc = "idle" => sw'[u].f = <<>>
                          /\ inOrder(sw'[u].f)
                          /\ \A x \in Elems(sw'[u].f) :
                               /\ x \in Given'
                               /\ IF u \in Direct THEN x[1] = u ELSE x[1] \in Framed
  <2>1. CASE TRUE
    <3> SUFFICES ASSUME NEW u \in Threads
                 PROVE /\ sw'[u].pc = "idle" => sw'[u].f = <<>>
                       /\ inOrder(sw'[u].f)
                       /\ \A x \in Elems(sw'[u].f) :
                               /\ x \in Given'
                               /\ IF u \in Direct THEN x[1] = u ELSE x[1] \in Framed
      OBVIOUS
    <3>1. CASE u = t
      BY <1>4, <1>6, <1>8, <1>9, <1>11, <3>1
    <3>2. CASE u # t
      BY <1>5, <1>11, <3>2 DEF LaneInv
    <3> QED BY <3>1, <3>2
  <2> QED BY <2>1
<1>14. inOrder(lane') /\ \A x \in Elems(lane') : x \in Given' /\ x[1] \in Framed
  BY <1>7, <1>8, <1>9, <1>11
<1>15. \A u \in Threads : u # t => ff'[u].pc \notin {"frame", "tail"}
  BY <1>4, <1>5 DEF MuInv
<1>16. /\ \A u \in Threads : ff'[u].pc = "frame" => AllBefore(Elems(sw'[u].f), Elems(ff'[u].it))
       /\ \A u \in Threads : ff'[u].pc = "tail" => /\ u = Ctl /\ sw'[u].f = ff'[u].it
                                                   /\ Len(sw'[u].f) < FrameSize
  BY <1>6, <1>9, <1>10, <1>15
<1>17. ASSUME NEW v \in Threads, NEW u \in Threads,
              NEW x \in Elems(sw'[u].f) \cup Elems(lane'), NEW y \in Elems(ff'[v].in)
       PROVE  Before(x, y)
  <2>1. y \in Elems(ff[v].in)
    BY <1>5
  <2>2. x \in Elems(sw[u].f) \cup Elems(lane)
    BY <1>4, <1>5, <1>6, <1>7, <1>9
  <2> QED BY <2>1, <2>2 DEF LaneInv, AllBefore
<1>18. \A v, u \in Threads : AllBefore(Elems(sw'[u].f) \cup Elems(lane'), Elems(ff'[v].in))
  BY <1>17 DEF AllBefore
<1>19. LaneInv'
  BY <1>12, <1>13, <1>14, <1>16, <1>18 DEF LaneInv
<1>20. Elems(lane) = Elems(sw'[t].f) \cup Elems(lane')
  BY <1>4, <1>6, <1>7, <1>9
<1>21. sw' = [sw EXCEPT ![t] = sw'[t]]
  BY <1>2, <1>6
<1> QED BY <1>1, <1>2, <1>4, <1>5, <1>6, <1>19, <1>20, <1>21

\* The end of a write through the switch: its frame leaves its place.
LEMMA LaneEnd ==
  ASSUME ChainInv, MuInv, LaneInv, NEW t \in Threads,
         (t \in Direct /\ WrittenDirect(t)) \/ FlushWritten(t)
  PROVE  /\ LaneInv' /\ given' = given /\ sw'[t].f = <<>>
         /\ \A u \in Threads : /\ ff'[u].in = ff[u].in
                               /\ u # t => sw'[u] = sw[u]
         /\ lane' = lane \/ (lane' = <<>> /\ ff[t].pc = "tail" /\ sw[t].err = None)
         /\ lane' = <<>> \/ sw[t].err # None \/ ff[t].pc # "tail"
         /\ t \in Direct => ff' = ff
         /\ t \notin Direct => /\ ff[t].pc \in {"frame", "tail"} /\ mu' = mu /\ mu = t
                               /\ ff'[t].pc \notin {"frame", "tail", "close", "idle", "lock"}
                               /\ ff'[t].pc = "flush" => ff[t].pc = "frame"
<1>0. /\ ff \in [Threads -> FFType] /\ sw \in [Threads -> SWType] /\ None \notin Threads
      /\ Framed \cap Direct = {} /\ Ctl \notin Direct /\ t \in Threads
  BY WritersAssumption DEF ChainInv, ChainTypeOK
<1>1. sw' = [sw EXCEPT ![t] = SWIdle] /\ UNCHANGED <<mu, buf, given>>
  BY DEF WrittenDirect, FlushWritten, SwitchEnd
<1>2. SWIdle.f = <<>> /\ SWIdle.pc = "idle"
  BY DEF SWIdle
<1> DEFINE g == IF sw[t].err # None THEN [ff[t] EXCEPT !.pc = "flushed", !.err = sw[t].err]
                ELSE IF ff[t].pc = "tail" THEN [ff[t] EXCEPT !.pc = "flushed", !.it = <<>>]
                ELSE [ff[t] EXCEPT !.pc = "flush"]
<1>3. t \in Direct => ff' = ff
  <2>1. CASE WrittenDirect(t)
    BY <2>1 DEF WrittenDirect
  <2>2. CASE FlushWritten(t)
    <3>1. ff[t].pc # "idle"
      BY <2>2 DEF FlushWritten
    <3> QED BY <1>0, <3>1 DEF MuInv
  <2> QED BY <2>1, <2>2
<1>4. t \notin Direct => ff[t].pc \in {"frame", "tail"} /\ ff' = [ff EXCEPT ![t] = g]
  BY DEF FlushWritten
<1>5. /\ g.in = ff[t].in /\ g.pc \in {"flushed", "flush"}
      /\ g.pc = "flush" => ff[t].pc # "tail"
      /\ g.it = IF sw[t].err = None /\ ff[t].pc = "tail" THEN <<>> ELSE ff[t].it
  BY <1>0 DEF FFType
<1> HIDE DEF g
<1>6. t \notin Direct => mu = t
  BY <1>4 DEF MuInv
<1>7. \A u \in Threads : /\ ff'[u].in = ff[u].in
                         /\ u # t => sw'[u] = sw[u] /\ ff'[u] = ff[u]
                         /\ sw'[u].f = IF u = t THEN <<>> ELSE sw[u].f
                         /\ sw'[u].pc = IF u = t THEN "idle" ELSE sw[u].pc
                         /\ ff'[u].pc = "lock" <=> ff[u].pc = "lock"
  BY <1>0, <1>1, <1>2, <1>3, <1>4, <1>5
<1>8. lane' = IF t \notin Direct /\ sw[t].err = None /\ ff[t].pc = "tail" THEN <<>> ELSE lane
  <2>1. CASE t \in Direct
    BY <1>1, <1>3, <2>1 DEF lane
  <2>2. CASE t \notin Direct
    <3>1. ff'[t] = g /\ ff[t].pc # "close" /\ mu = t /\ mu' = t
      BY <1>0, <1>1, <1>4, <1>6, <2>2
    <3> QED BY <1>0, <1>5, <2>2, <3>1 DEF lane
  <2> QED BY <2>1, <2>2
<1>9. Given' = Given
  BY <1>1 DEF Given
<1>10. \A u \in Threads : ff'[u].pc \in {"frame", "tail"} => ff'[u] = ff[u] /\ sw'[u] = sw[u]
  <2> SUFFICES ASSUME NEW u \in Threads, ff'[u].pc \in {"frame", "tail"}
               PROVE  ff'[u] = ff[u] /\ sw'[u] = sw[u]
    OBVIOUS
  <2>1. CASE u # t
    BY <1>7, <2>1
  <2>2. CASE u = t
    <3>1. t \notin Direct => ff'[t].pc = g.pc
      BY <1>0, <1>4
    <3>2. t \in Direct => ff'[t].pc = "idle"
      BY <1>0, <1>3 DEF MuInv
    <3> QED BY <1>5, <2>2, <3>1, <3>2
  <2> QED BY <2>1, <2>2
<1>11. \A u \in Threads : /\ ff'[u].pc # "lock" \/ u \notin Framed => ff'[u].in = <<>>
                          /\ inOrder(ff'[u].in)
                          /\ \A x \in Elems(ff'[u].in) : x \in Given' /\ x[1] = u
  BY <1>7, <1>9 DEF LaneInv
<1>12. \A u \in Threads : /\ sw'[u].pc = "idle" => sw'[u].f = <<>>
                          /\ inOrder(sw'[u].f)
                          /\ \A x \in Elems(sw'[u].f) :
                               /\ x \in Given'
                               /\ IF u \in Direct THEN x[1] = u ELSE x[1] \in Framed
  BY <1>7, <1>9, NoElems DEF LaneInv
<1>13. inOrder(lane') /\ \A x \in Elems(lane') : x \in Given' /\ x[1] \in Framed
  BY <1>8, <1>9, NoElems DEF LaneInv
<1>14. /\ \A u \in Threads : ff'[u].pc = "frame" => AllBefore(Elems(sw'[u].f), Elems(ff'[u].it))
       /\ \A u \in Threads : ff'[u].pc = "tail" => /\ u = Ctl /\ sw'[u].f = ff'[u].it
                                                   /\ Len(sw'[u].f) < FrameSize
  BY <1>10 DEF LaneInv
<1>15. ASSUME NEW v \in Threads, NEW u \in Threads,
              NEW x \in Elems(sw'[u].f) \cup Elems(lane'), NEW y \in Elems(ff'[v].in)
       PROVE  Before(x, y)
  <2>1. y \in Elems(ff[v].in)
    BY <1>7
  <2>2. x \in Elems(sw[u].f) \cup Elems(lane)
    BY <1>7, <1>8, NoElems
  <2> QED BY <2>1, <2>2 DEF LaneInv, AllBefore
<1>16. \A v, u \in Threads : AllBefore(Elems(sw'[u].f) \cup Elems(lane'), Elems(ff'[v].in))
  BY <1>15 DEF AllBefore
<1>17. LaneInv'
  BY <1>11, <1>12, <1>13, <1>14, <1>16 DEF LaneInv
<1>18. t \notin Direct => ff'[t].pc = g.pc
  BY <1>0, <1>4
<1>19. sw'[t].f = <<>> /\ given' = given
  BY <1>1, <1>7
<1>20. /\ lane' = lane \/ (lane' = <<>> /\ ff[t].pc = "tail" /\ sw[t].err = None)
       /\ lane' = <<>> \/ sw[t].err # None \/ ff[t].pc # "tail"
  <2>1. t \in Direct => ff[t].pc # "tail"
    BY <1>0 DEF MuInv
  <2> QED BY <1>8, <2>1
<1>21. t \notin Direct => /\ ff[t].pc \in {"frame", "tail"} /\ mu' = mu /\ mu = t
                          /\ ff'[t].pc \notin {"frame", "tail", "close", "idle", "lock"}
                          /\ ff'[t].pc = "flush" => ff[t].pc = "frame"
  BY <1>1, <1>4, <1>5, <1>6, <1>18
<1> QED BY <1>3, <1>7, <1>17, <1>19, <1>20, <1>21

LEMMA LaneSteps ==
  ASSUME ChainInv, MuInv, LaneInv, [Next]_vars
  PROVE  LaneInv'
<1>1. Direct \cup Framed \subseteq Threads /\ Direct \cup Framed = Producers
  BY WritersAssumption DEF Producers
<1> QED BY <1>1, Steps, StayLane, LaneGiven, LaneLock, LaneWrite, LaneEnd

\* The frames on their way are of different producers.
LEMMA Apart ==
  ASSUME Quiet, MuInv, LaneInv, NEW t \in Threads, NEW u \in Threads, t # u,
         NEW x \in Elems(sw[t].f), NEW y \in Elems(sw[u].f)
  PROVE  x[1] # y[1]
<1>1. \A v \in Threads : sw[v].f # <<>> => v \in Direct \/ mu = v
  BY DEF Quiet, MuInv, LaneInv
<1>2. sw[t].f # <<>> /\ sw[u].f # <<>>
  BY NoElems
<1>3. t \in Direct \/ u \in Direct
  BY <1>1, <1>2
<1>4. Framed \cap Direct = {}
  BY WritersAssumption
<1> QED BY <1>3, <1>4 DEF LaneInv

LEMMA HeldIs ==
  ASSUME MuInv, LaneInv
  PROVE  held = IF ff[Ctl].pc = "tail" THEN {} ELSE Elems(lane)
<1>1. Ctl \in Threads /\ None \notin Threads
  BY WritersAssumption
<1>2. CASE mu = None \/ ff[mu].pc = "close"
  <2>1. ff[Ctl].pc # "tail"
    BY <1>1, <1>2 DEF MuInv
  <2> QED BY <1>2, <2>1 DEF held, lane
<1>3. CASE ~(mu = None \/ ff[mu].pc = "close")
  <2>1. mu \in Threads
    BY <1>3 DEF MuInv
  <2>2. ff[mu].pc = "tail" <=> ff[Ctl].pc = "tail"
    BY <1>1, <2>1 DEF MuInv, LaneInv
  <2> QED BY <1>3, <2>2 DEF held, lane
<1> QED BY <1>2, <1>3

LEMMA PlacesAre ==
  ASSUME MuInv, LaneInv
  PROVE  /\ \A x : x \in waiting <=> \E t \in Threads : x \in Elems(ff[t].in)
         /\ \A x : x \in writing <=> \E t \in Threads : x \in Elems(sw[t].f)
         /\ \A x : x \in held <=> x \in Elems(lane) /\ ff[Ctl].pc # "tail"
         /\ waiting \cup held \cup writing \subseteq Given
<1>1. /\ \A x : x \in waiting <=> \E t \in Threads : x \in Elems(ff[t].in)
      /\ \A x : x \in writing <=> \E t \in Threads : x \in Elems(sw[t].f)
  BY DEF waiting, writing
<1>2. \A x : x \in held <=> x \in Elems(lane) /\ ff[Ctl].pc # "tail"
  BY HeldIs
<1>3. waiting \cup held \cup writing \subseteq Given
  BY <1>1, <1>2 DEF LaneInv
<1> QED BY <1>1, <1>2, <1>3

LEMMA HeldStands ==
  MuInv /\ LaneInv => (\A x : x \in held <=> x \in Elems(lane) /\ ff[Ctl].pc # "tail")
BY PlacesAre

LEMMA HeldThen ==
  (MuInv /\ LaneInv)' => (\A x : x \in held <=> x \in Elems(lane) /\ ff[Ctl].pc # "tail")'
BY HeldStands, PTL

LEMMA PlacesThen ==
  ASSUME MuInv', LaneInv'
  PROVE  /\ \A x : x \in waiting' <=> \E t \in Threads : x \in Elems(ff'[t].in)
         /\ \A x : x \in writing' <=> \E t \in Threads : x \in Elems(sw'[t].f)
         /\ \A x : x \in held' <=> x \in Elems(lane') /\ ff'[Ctl].pc # "tail"
  BY HeldThen DEF waiting, writing

\* A step that loses nothing: what was given is in a place, and what is in a place
\* was in one or has just been given.
LEMMA KeptMoves ==
  ASSUME Kept, LaneInv', ended' = ended, Given \subseteq Given',
         waiting \cup held \cup writing \subseteq waiting' \cup held' \cup writing',
         \A x \in waiting' \cup held' \cup writing' :
            x \in waiting \cup held \cup writing \/ x \notin Given,
         \A x \in Given' : x \in Given \/ x \in waiting' \cup held' \cup writing'
  PROVE  Kept'
<1>1. \A x : settling(x)' = settling(x)
  BY DEF settling
<1>2. \A x \in Given' : x \in waiting' \cup held' \cup writing' \/ settling(x)' # {}
  BY <1>1 DEF Kept
<1>3. ASSUME NEW x \in waiting' \cup held' \cup writing', NEW e \in settling(x)'
      PROVE  e.err # None /\ Len(e.f) < FrameSize
  <2>1. e \in settling(x) /\ e \in ended /\ x \in Elems(e.f)
    BY <1>1 DEF settling
  <2>2. x \in Given
    BY <2>1 DEF Kept
  <2>3. x \in waiting \cup held \cup writing
    BY <2>2
  <2> QED BY <2>1, <2>3 DEF Kept
<1>4. \A e \in ended' : Elems(e.f) \subseteq Given'
  BY DEF Kept
<1> QED BY <1>2, <1>3, <1>4 DEF Kept

LEMMA KeptStay ==
  ASSUME Kept, MuInv, LaneInv, MuInv', LaneInv', Stay
  PROVE  Kept'
<1>1. Given' = Given /\ ended' = ended
  BY DEF Given, Stay
<1>2. waiting' = waiting /\ writing' = writing
  BY DEF waiting, writing, Stay
<1>3. held' = held
  <2>1. Ctl \in Threads
    BY WritersAssumption
  <2>2. ff'[Ctl].pc = "tail" <=> ff[Ctl].pc = "tail"
    BY <2>1 DEF Stay
  <2>3. held = IF ff[Ctl].pc = "tail" THEN {} ELSE Elems(lane)
    BY HeldIs
  <2>4. \A x : x \in held' <=> x \in Elems(lane') /\ ff'[Ctl].pc # "tail"
    BY PlacesThen
  <2> QED BY <2>2, <2>3, <2>4 DEF Stay
<1> QED BY <1>1, <1>2, <1>3, KeptMoves

LEMMA KeptGiven ==
  ASSUME ChainInv, MuInv, LaneInv, Kept, MuInv', LaneInv', NEW p \in Producers,
         (p \in Direct /\ WriteDirect(p)) \/ (p \in Framed /\ WriteFrames(p))
  PROVE  Kept'
<1>0. /\ ff \in [Threads -> FFType] /\ sw \in [Threads -> SWType] /\ p \in Threads
      /\ p # Ctl /\ Ctl \in Threads
  BY WritersAssumption DEF ChainInv, ChainTypeOK, Producers
<1>1. PICK n \in Chunks[p] :
        /\ given' = [given EXCEPT ![p] = @ + n]
        /\ \/ /\ sw' = [sw EXCEPT ![p] = swStart(chunk(p, n))] /\ ff' = ff
              /\ sw[p] = SWIdle
           \/ /\ ff' = [ff EXCEPT ![p] = [ff[p] EXCEPT !.pc = "lock", !.in = chunk(p, n)]]
              /\ sw' = sw /\ ff[p] = FFIdle
  BY DEF WriteDirect, WriteFrames
<1>2. ended' = ended /\ mu' = mu /\ buf' = buf
  BY DEF WriteDirect, WriteFrames
<1>3. PICK c : c = chunk(p, n)
  OBVIOUS
<1>4. /\ Given \subseteq Given' /\ \A x \in Elems(c) : x \in Given' /\ x \notin Given
      /\ \A y \in Given' : y \in Given \/ y \in Elems(c)
  <2>1. /\ Given \subseteq Given'
        /\ \A x \in Elems(chunk(p, n)) : x \in Given' /\ x \notin Given
        /\ \A y \in Given' : y \in Given \/ y \in Elems(chunk(p, n))
    BY <1>1, ChunkGiven
  <2> QED BY <1>3, <2>1
<1>5. /\ c \in Seq(Samples) /\ swStart(c).f = c /\ SWIdle.f = <<>>
      /\ FFIdle.in = <<>> /\ FFIdle.pc = "idle"
  <2>1. chunk(p, n) \in Seq(Samples)
    BY ChunkIs
  <2>2. c \in Seq(Samples)
    BY <1>3, <2>1
  <2>3. swStart(c).f = c
    BY <2>2, SwStartIs
  <2> QED BY <2>2, <2>3 DEF SWIdle, FFIdle
<1>6. lane' = lane /\ ff'[Ctl] = ff[Ctl]
  <2>1. ff'[Ctl] = ff[Ctl] /\ \A t \in Threads : ff'[t] = ff[t] \/ ff[t].pc = "idle"
    BY <1>0, <1>1, <1>5
  <2>2. mu \in Threads => ff'[mu] = ff[mu]
    BY <2>1 DEF MuInv
  <2> QED BY <1>2, <2>1, <2>2 DEF lane, MuInv
<1>7. \A x : x \in waiting' \cup writing' <=> x \in waiting \cup writing \/ x \in Elems(c)
  <2>1. CASE /\ sw' = [sw EXCEPT ![p] = swStart(chunk(p, n))] /\ ff' = ff
             /\ sw[p] = SWIdle
    <3>1. \A t \in Threads : sw'[t].f = IF t = p THEN c ELSE sw[t].f
      BY <1>0, <1>3, <1>5, <2>1
    <3>2. Elems(sw[p].f) = {}
      BY <1>5, <2>1, NoElems
    <3>3. waiting' = waiting
      BY <2>1 DEF waiting
    <3>4. \A x : x \in writing' <=> \E t \in Threads : x \in Elems(sw'[t].f)
      BY PlacesThen
    <3>5. \A x : x \in writing <=> \E t \in Threads : x \in Elems(sw[t].f)
      BY PlacesAre
    <3>6. \A x : x \in writing' <=> x \in writing \/ x \in Elems(c)
      BY <1>0, <3>1, <3>2, <3>4, <3>5
    <3> QED BY <3>3, <3>6
  <2>2. CASE /\ ff' = [ff EXCEPT ![p] = [ff[p] EXCEPT !.pc = "lock", !.in = chunk(p, n)]]
             /\ sw' = sw /\ ff[p] = FFIdle
    <3>1. \A t \in Threads : ff'[t].in = IF t = p THEN c ELSE ff[t].in
      BY <1>0, <1>3, <2>2 DEF FFType
    <3>2. Elems(ff[p].in) = {}
      BY <1>5, <2>2, NoElems
    <3>3. writing' = writing
      BY <2>2 DEF writing
    <3>4. \A x : x \in waiting' <=> \E t \in Threads : x \in Elems(ff'[t].in)
      BY PlacesThen
    <3>5. \A x : x \in waiting <=> \E t \in Threads : x \in Elems(ff[t].in)
      BY PlacesAre
    <3>6. \A x : x \in waiting' <=> x \in waiting \/ x \in Elems(c)
      BY <1>0, <3>1, <3>2, <3>4, <3>5
    <3> QED BY <3>3, <3>6
  <2> QED BY <1>1, <2>1, <2>2
<1>8. \A x : x \in held' <=> x \in held
  <2>1. \A x : x \in held' <=> x \in Elems(lane') /\ ff'[Ctl].pc # "tail"
    BY PlacesThen
  <2>2. \A x : x \in held <=> x \in Elems(lane) /\ ff[Ctl].pc # "tail"
    BY PlacesAre
  <2> QED BY <1>6, <2>1, <2>2
<1>9. waiting \cup held \cup writing \subseteq waiting' \cup held' \cup writing'
  BY <1>7, <1>8
<1>10. \A x \in waiting' \cup held' \cup writing' :
         x \in waiting \cup held \cup writing \/ x \notin Given
  BY <1>4, <1>7, <1>8
<1>11. \A x \in Given' : x \in Given \/ x \in waiting' \cup held' \cup writing'
  BY <1>4, <1>7
<1> QED BY <1>2, <1>4, <1>9, <1>10, <1>11, KeptMoves

LEMMA KeptFrames ==
  ASSUME ChainInv, Quiet, MuInv, LaneInv, Kept, MuInv', LaneInv', NEW t \in Threads,
         FramesLock(t) \/ FlushWrite(t)
  PROVE  Kept'
<1>0. /\ ff \in [Threads -> FFType] /\ sw \in [Threads -> SWType] /\ None \notin Threads
      /\ Ctl \in Threads
  BY WritersAssumption DEF ChainInv, ChainTypeOK
<1>1. given' = given /\ ended' = ended
  BY DEF FramesLock, FlushWrite
<1>2. Given' = Given
  BY <1>1 DEF Given
<1>3. /\ \A x : x \in waiting' <=> \E u \in Threads : x \in Elems(ff'[u].in)
      /\ \A x : x \in writing' <=> \E u \in Threads : x \in Elems(sw'[u].f)
      /\ \A x : x \in held' <=> x \in Elems(lane') /\ ff'[Ctl].pc # "tail"
  BY PlacesThen
<1>4. /\ \A x : x \in waiting <=> \E u \in Threads : x \in Elems(ff[u].in)
      /\ \A x : x \in writing <=> \E u \in Threads : x \in Elems(sw[u].f)
      /\ \A x : x \in held <=> x \in Elems(lane) /\ ff[Ctl].pc # "tail"
  BY PlacesAre
<1>5. CASE FramesLock(t)
  <2>1. /\ mu = None /\ ff[t].pc = "lock" /\ sw' = sw
        /\ ff' = [ff EXCEPT ![t] = [FFIdle EXCEPT !.pc = "flush", !.it = buf']]
    BY <1>5 DEF FramesLock
  <2> DEFINE g == [FFIdle EXCEPT !.pc = "flush", !.it = buf']
  <2>2. g.pc = "flush" /\ g.in = <<>>
    BY DEF FFIdle
  <2>3. \A u \in Threads : ff'[u] = IF u = t THEN g ELSE ff[u]
    BY <1>0, <2>1
  <2> HIDE DEF g
  <2>4. Elems(lane') = Elems(lane) \cup Elems(ff[t].in)
    BY <1>5, LaneLock
  <2>5. ff[Ctl].pc # "tail" /\ ff'[Ctl].pc # "tail"
    BY <1>0, <2>1, <2>2, <2>3 DEF MuInv
  <2>6. \A x : x \in waiting <=> x \in waiting' \/ x \in Elems(ff[t].in)
    BY <1>3, <1>4, <2>2, <2>3, NoElems
  <2>7. \A x : x \in held' <=> x \in held \/ x \in Elems(ff[t].in)
    BY <1>3, <1>4, <2>4, <2>5
  <2>8. writing' = writing
    BY <2>1 DEF writing
  <2>9. \A x : x \in waiting \cup held \cup writing <=> x \in waiting' \cup held' \cup writing'
    BY <2>6, <2>7, <2>8
  <2> QED BY <1>1, <1>2, <2>9, KeptMoves
<1>6. CASE FlushWrite(t)
  <2>1. /\ sw' = [sw EXCEPT ![t] = sw'[t]]
        /\ \A u \in Threads : ff'[u].in = ff[u].in
        /\ Elems(lane) = Elems(sw'[t].f) \cup Elems(lane')
        /\ t \notin Direct /\ ff[t].pc = "flush"
    BY <1>6, LaneWrite
  <2>2. mu = t /\ mu' = mu
    BY <1>6, <2>1 DEF MuInv, FlushWrite
  <2>3. ff[Ctl].pc # "tail"
    BY <1>0, <2>1, <2>2 DEF MuInv
  <2>4. sw[t].f = <<>>
    BY <2>1 DEF Quiet, LaneInv
  <2>5. \A u \in Threads : u # t => sw'[u] = sw[u]
    BY <1>0, <2>1
  <2>6. \A x : x \in writing' <=> x \in writing \/ x \in Elems(sw'[t].f)
    BY <1>3, <1>4, <2>4, <2>5, NoElems
  <2>7. \A x : x \in waiting' <=> x \in waiting
    BY <1>3, <1>4, <2>1
  <2>8. ff'[Ctl].pc = "tail" => Elems(sw'[t].f) = Elems(lane')
    <3> SUFFICES ASSUME ff'[Ctl].pc = "tail" PROVE Elems(sw'[t].f) = Elems(lane')
      OBVIOUS
    <3>1. t = Ctl
      BY <1>0, <2>2 DEF MuInv
    <3>2. sw'[t].f = ff'[t].it
      BY <3>1 DEF LaneInv
    <3>3. lane' = ff'[t].it
      BY <1>0, <2>2, <3>1 DEF lane
    <3> QED BY <3>2, <3>3
  <2>9. \A x : x \in held \cup writing <=> x \in held' \cup writing'
    BY <1>3, <1>4, <2>1, <2>3, <2>6, <2>8
  <2>10. \A x : x \in waiting \cup held \cup writing <=> x \in waiting' \cup held' \cup writing'
    BY <2>7, <2>9
  <2> QED BY <1>1, <1>2, <2>10, KeptMoves
<1> QED BY <1>5, <1>6

\* The frame whose write ends is in no place any more, unless it is a tail that failed.
LEMMA KeptEnd ==
  ASSUME ChainInv, Quiet, MuInv, LaneInv, Kept, MuInv', LaneInv', NEW t \in Threads,
         (t \in Direct /\ WrittenDirect(t)) \/ FlushWritten(t)
  PROVE  Kept'
<1>0. /\ ff \in [Threads -> FFType] /\ sw \in [Threads -> SWType] /\ None \notin Threads
      /\ Ctl \in Threads /\ Framed \cap Direct = {}
  BY WritersAssumption DEF ChainInv, ChainTypeOK
<1> DEFINE e == [f |-> sw[t].f, to |-> sw[t].to, err |-> sw[t].err]
<1>1. ended' = ended \cup {e}
  BY DEF WrittenDirect, FlushWritten, SwitchEnd
<1>2. e.f = sw[t].f /\ e.err = sw[t].err
  OBVIOUS
<1> HIDE DEF e
<1>3. /\ given' = given /\ sw'[t].f = <<>>
      /\ \A u \in Threads : /\ ff'[u].in = ff[u].in
                            /\ u # t => sw'[u] = sw[u]
      /\ lane' = lane \/ (lane' = <<>> /\ ff[t].pc = "tail" /\ sw[t].err = None)
      /\ lane' = <<>> \/ sw[t].err # None \/ ff[t].pc # "tail"
      /\ t \in Direct => ff' = ff
      /\ t \notin Direct => /\ ff[t].pc \in {"frame", "tail"} /\ mu' = mu /\ mu = t
                            /\ ff'[t].pc \notin {"frame", "tail", "close", "idle", "lock"}
  BY LaneEnd
<1>4. Given' = Given
  BY <1>3 DEF Given
<1>5. /\ \A x : x \in waiting' <=> \E u \in Threads : x \in Elems(ff'[u].in)
      /\ \A x : x \in writing' <=> \E u \in Threads : x \in Elems(sw'[u].f)
      /\ \A x : x \in held' <=> x \in Elems(lane') /\ ff'[Ctl].pc # "tail"
  BY PlacesThen
<1>6. /\ \A x : x \in waiting <=> \E u \in Threads : x \in Elems(ff[u].in)
      /\ \A x : x \in writing <=> \E u \in Threads : x \in Elems(sw[u].f)
      /\ \A x : x \in held <=> x \in Elems(lane) /\ ff[Ctl].pc # "tail"
  BY PlacesAre
<1>7. \A x : x \in waiting' <=> x \in waiting
  BY <1>3, <1>5, <1>6
<1>8. \A x : x \in writing => x \in writing' \/ x \in Elems(sw[t].f)
  BY <1>3, <1>5, <1>6
<1>9. \A x : x \in writing' => \E u \in Threads : u # t /\ x \in Elems(sw[u].f)
  BY <1>3, <1>5, NoElems
<1>10. t \notin Direct => ff'[Ctl].pc # "tail" /\ (ff[Ctl].pc = "tail" => t = Ctl)
  <2>1. ff[Ctl].pc = "tail" => mu = Ctl
    BY <1>0 DEF MuInv
  <2>2. ff'[Ctl].pc = "tail" => mu' = Ctl
    BY <1>0 DEF MuInv
  <2>3. t \notin Direct => mu' = mu /\ mu = t /\ ff'[t].pc # "tail"
    BY <1>3
  <2> QED BY <2>1, <2>2, <2>3
<1>11. \A x : x \in held => x \in held'
  <2> SUFFICES ASSUME NEW x \in held PROVE x \in held'
    OBVIOUS
  <2>1. x \in Elems(lane) /\ ff[Ctl].pc # "tail"
    BY <1>6
  <2>2. ff[t].pc # "tail"
    BY <2>1 DEF LaneInv
  <2>3. lane' = lane
    BY <1>3, <2>2
  <2>4. ff'[Ctl].pc # "tail"
    <3>1. t \in Direct => ff' = ff
      BY <1>3
    <3> QED BY <1>10, <2>1, <3>1
  <2> QED BY <1>5, <2>1, <2>3, <2>4
<1>12. \A x : x \in held' => x \in Elems(lane) /\ (ff[Ctl].pc # "tail" \/ sw[t].err # None)
  BY <1>3, <1>5, <1>6, <1>10, NoElems
<1>13. \A x \in Given : x \in waiting' \cup held' \cup writing' \/ settling(x)' # {}
  <2> SUFFICES ASSUME NEW x \in Given, x \notin waiting' \cup held' \cup writing'
               PROVE  settling(x)' # {}
    OBVIOUS
  <2>1. x \in Elems(sw[t].f) => e \in settling(x)'
    BY <1>1, <1>2 DEF settling
  <2>2. settling(x) \subseteq settling(x)'
    BY <1>1 DEF settling
  <2>3. x \in waiting \cup held \cup writing => x \in Elems(sw[t].f)
    BY <1>7, <1>8, <1>11
  <2>4. x \in waiting \cup held \cup writing \/ settling(x) # {}
    BY DEF Kept
  <2> QED BY <2>1, <2>2, <2>3, <2>4
<1>14. ASSUME NEW x \in waiting' \cup held' \cup writing', NEW d \in settling(x)'
       PROVE  d.err # None /\ Len(d.f) < FrameSize
  <2>1. CASE d = e
    <3>1. x \in Elems(sw[t].f)
      BY <1>2, <2>1 DEF settling
    <3>2. IF t \in Direct THEN x[1] = t ELSE x[1] \in Framed
      BY <3>1 DEF LaneInv
    <3>3. x \notin writing'
      BY <1>9, <3>1, Apart
    <3>4. x \notin waiting
      <4> SUFFICES ASSUME x \in waiting PROVE FALSE
        OBVIOUS
      <4>1. PICK u \in Threads : x \in Elems(ff[u].in)
        BY <1>6
      <4>2. Before(x, x) /\ x \in Given
        BY <3>1, <4>1 DEF LaneInv, AllBefore
      <4>3. x[2] \in Nat
        BY <4>2 DEF Given, Samples
      <4> QED BY <4>2, <4>3 DEF Before
    <3>5. x \in Elems(lane) /\ (ff[Ctl].pc # "tail" \/ sw[t].err # None)
      BY <1>7, <1>12, <3>3, <3>4
    <3>6. t \notin Direct
      <4>1. x[1] \in Framed
        BY <3>5 DEF LaneInv
      <4> QED BY <1>0, <3>2, <4>1
    <3>7. ff[t].pc # "frame"
      <4> SUFFICES ASSUME ff[t].pc = "frame" PROVE FALSE
        OBVIOUS
      <4>1. lane = ff[t].it
        BY <1>0, <1>3, <3>6 DEF lane
      <4>2. Before(x, x) /\ x \in Given
        BY <3>1, <3>5, <4>1 DEF LaneInv, AllBefore
      <4>3. x[2] \in Nat
        BY <4>2 DEF Given, Samples
      <4> QED BY <4>2, <4>3 DEF Before
    <3>8. ff[t].pc = "tail"
      BY <1>3, <3>6, <3>7
    <3>9. Len(sw[t].f) < FrameSize /\ t = Ctl
      BY <3>8 DEF LaneInv
    <3> QED BY <1>2, <2>1, <3>5, <3>8, <3>9
  <2>2. CASE d # e
    <3>1. d \in settling(x) /\ d \in ended /\ x \in Elems(d.f)
      BY <1>1, <1>14, <2>2 DEF settling
    <3>2. CASE x \in waiting \cup held \cup writing
      BY <3>1, <3>2 DEF Kept
    <3>3. CASE x \notin waiting \cup held \cup writing
      <4>1. x \in held' /\ x \notin held /\ x \notin writing
        BY <1>6, <1>7, <1>9, <3>3
      <4>2. x \in Elems(lane) /\ ff[Ctl].pc = "tail"
        BY <1>6, <1>12, <4>1
      <4>3. mu = Ctl
        BY <1>0, <4>2 DEF MuInv
      <4>4. lane = sw[Ctl].f
        BY <1>0, <4>2, <4>3 DEF lane, LaneInv
      <4>5. x \in writing
        BY <1>0, <1>6, <4>2, <4>4
      <4> QED BY <4>1, <4>5
    <3> QED BY <3>2, <3>3
  <2> QED BY <2>1, <2>2
<1>15. \A d \in ended' : Elems(d.f) \subseteq Given'
  BY <1>1, <1>2, <1>4 DEF Kept, LaneInv
<1> QED BY <1>4, <1>13, <1>14, <1>15 DEF Kept

LEMMA KeptSteps ==
  ASSUME ChainInv, Quiet, MuInv, LaneInv, Kept, [Next]_vars
  PROVE  Kept'
<1>1. Direct \cup Framed \subseteq Threads /\ Direct \cup Framed = Producers
  BY WritersAssumption DEF Producers
<1>2. MuInv' /\ LaneInv'
  BY MuSteps, LaneSteps
<1> QED BY <1>1, <1>2, Steps, KeptStay, KeptGiven, KeptFrames, KeptEnd

\* What a step of the pipe leaves of the writes that are under way.
LiveStays ==
  \A u \in Threads : live(call'[u]) =>
     live(call[u]) /\ call'[u].b = call[u].b /\ taken(u)' = taken(u)

LEMMA LiveOne ==
  ASSUME PipeInv, NEW t \in Threads, NEW c, call' = [call EXCEPT ![t] = c],
         c.pc # "answer", call[t].pc # "answer",
         live(c) => /\ live(call[t]) /\ c.b = call[t].b /\ c.n = call[t].n
                    /\ c.pc # "sent" /\ call[t].pc # "sent"
  PROVE  LiveStays
<1>1. Rd \in Threads
  BY WritersAssumption
<1>2. \A u \in Threads : call'[u] = IF u = t THEN c ELSE call[u]
  BY DEF PipeInv, PipeTypeOK
<1>3. call'[Rd].pc = "answer" \/ call[Rd].pc = "answer" => call'[Rd] = call[Rd]
  BY <1>1, <1>2
<1> SUFFICES ASSUME NEW u \in Threads, live(call'[u])
             PROVE  live(call[u]) /\ call'[u].b = call[u].b /\ taken(u)' = taken(u)
  BY DEF LiveStays
<1>4. CASE u = t
  <2>1. call'[t] = c
    BY <1>2
  <2>2. live(call[t]) /\ c.b = call[t].b /\ c.n = call[t].n /\ c.pc # "sent" /\ call[t].pc # "sent"
    BY <1>4, <2>1
  <2>3. taken(t)' = c.n + 0 /\ taken(t) = call[t].n + 0
    BY <2>1, <2>2 DEF taken
  <2> QED BY <1>4, <2>1, <2>2, <2>3
<1>5. CASE u # t
  <2>1. call'[u] = call[u]
    BY <1>2, <1>5
  <2>2. taken(u)' = taken(u)
    BY <1>3, <2>1 DEF taken
  <2> QED BY <2>1, <2>2
<1> QED BY <1>4, <1>5

LEMMA LiveAnswer ==
  ASSUME PipeInv, ErrInv, NEW t \in Threads, NEW r \in Threads \ {t}, Answer(t, r)
  PROVE  LiveStays
<1>1. Rd \in Threads /\ call \in [Threads -> CallType]
  BY WritersAssumption DEF PipeInv, PipeTypeOK
<1>2. r = Rd /\ call[t].pc = "sent" /\ call[r].pc = "answer"
  BY DEF Answer, ErrInv
<1> DEFINE n == call[t].n + Len(call[r].b)
           c == IF n < Len(call[t].b) THEN [call[t] EXCEPT !.pc = "send", !.n = n] ELSE Idle
<1>3. call' = [call EXCEPT ![r] = Idle, ![t] = c]
  BY DEF Answer
<1>4. /\ live(c) => c.n = n /\ c.b = call[t].b /\ c.pc = "send"
      /\ Idle.pc = "ret"
  <2>1. Idle.pc = "ret"
    BY DEF Idle, Ret
  <2>2. CASE n < Len(call[t].b)
    <3>1. c = [call[t] EXCEPT !.pc = "send", !.n = n]
      BY <2>2
    <3> HIDE DEF c, n
    <3>2. c.n = n /\ c.b = call[t].b /\ c.pc = "send"
      BY <1>1, <3>1 DEF CallType
    <3> QED BY <2>1, <3>2
  <2>3. CASE ~(n < Len(call[t].b))
    <3>1. c = Idle
      BY <2>3
    <3> HIDE DEF c, n
    <3> QED BY <2>1, <3>1 DEF live
  <2> QED BY <2>2, <2>3
<1>5. taken(t) = n
  BY <1>2 DEF taken
<1> HIDE DEF n, c
<1>6. /\ call'[t] = c /\ call'[r] = Idle
      /\ \A u \in Threads : u # t /\ u # r => call'[u] = call[u]
  BY <1>1, <1>3
<1> SUFFICES ASSUME NEW u \in Threads, live(call'[u])
             PROVE  live(call[u]) /\ call'[u].b = call[u].b /\ taken(u)' = taken(u)
  BY DEF LiveStays
<1>7. call'[Rd].pc = "ret" /\ taken(u)' = call'[u].n + 0
  <2>1. call'[Rd].pc = "ret"
    BY <1>2, <1>4, <1>6
  <2> QED BY <2>1 DEF taken
<1>8. CASE u = t
  <2>1. n \in Nat
    BY <1>1 DEF CallType, n
  <2>2. live(call[t]) /\ c.b = call[t].b /\ c.n = n
    BY <1>2, <1>4, <1>6, <1>8 DEF live
  <2> QED BY <1>5, <1>6, <1>7, <1>8, <2>1, <2>2
<1>9. CASE u # t
  <2>1. u # r
    BY <1>4, <1>6 DEF live
  <2>2. call'[u] = call[u] /\ call[u].n \in Nat
    BY <1>1, <1>6, <1>9, <2>1 DEF CallType
  <2>3. call[u].pc # "sent"
    BY <1>2, <1>9 DEF PipeInv, Locked
  <2>4. taken(u) = call[u].n + 0
    BY <2>3 DEF taken
  <2> QED BY <1>7, <2>2, <2>4
<1> QED BY <1>8, <1>9

\* Everything but a transfer and a write that begins leaves them as they are.
LEMMA LiveSteps ==
  ASSUME PipeInv, ErrInv,
         \/ \E t \in Threads : \/ Lock(t) \/ WriteClosed(t) \/ ReadClosed(t) \/ CloseDone(t)
                               \/ \E r \in Threads \ {t} : Answer(t, r)
         \/ \E n \in Nat : Read(Rd, n)
         \/ \E err \in {None, "err"} : CloseRead(RdCloser, err)
         \/ \E t \in Threads : CloseWrite(t, None)
         \/ UNCHANGED pipeVars
  PROVE  LiveStays /\ got' = got
<1>1. call \in [Threads -> CallType] /\ Rd \in Threads /\ RdCloser \in Threads
  BY WritersAssumption DEF PipeInv, PipeTypeOK
<1>2. \A e : Ret(e).pc = "ret" /\ [Idle EXCEPT !.pc = "close"].pc = "close"
  BY DEF Ret, Idle
<1>3. ASSUME NEW t \in Threads, Lock(t) PROVE LiveStays /\ got' = got
  <2> DEFINE c == [call[t] EXCEPT !.pc = "send"]
  <2>1. call[t].pc = "lock" /\ call' = [call EXCEPT ![t] = c] /\ got' = got
    BY <1>3 DEF Lock
  <2>2. c.pc = "send" /\ c.b = call[t].b /\ c.n = call[t].n
    BY <1>1 DEF CallType
  <2> HIDE DEF c
  <2> QED BY <2>1, <2>2, LiveOne DEF live
<1>4. ASSUME NEW t \in Threads, WriteClosed(t) PROVE LiveStays /\ got' = got
  <2>1. call[t].pc = "send" /\ call' = [call EXCEPT ![t] = Ret(writeCloseError)] /\ got' = got
    BY <1>4 DEF WriteClosed
  <2> QED BY <1>2, <2>1, LiveOne DEF live
<1>5. ASSUME NEW t \in Threads, ReadClosed(t) PROVE LiveStays /\ got' = got
  <2>1. call[t].pc = "recv" /\ call' = [call EXCEPT ![t] = Ret(readCloseError)] /\ got' = got
    BY <1>5 DEF ReadClosed
  <2> QED BY <1>2, <2>1, LiveOne DEF live
<1>6. ASSUME NEW t \in Threads, CloseDone(t) PROVE LiveStays /\ got' = got
  <2>1. call[t].pc = "close" /\ call' = [call EXCEPT ![t] = Ret(None)] /\ got' = got
    BY <1>6 DEF CloseDone
  <2> QED BY <1>2, <2>1, LiveOne DEF live
<1>7. ASSUME NEW t \in Threads, NEW r \in Threads \ {t}, Answer(t, r) PROVE LiveStays /\ got' = got
  <2>1. got' = got
    BY <1>7 DEF Answer
  <2> QED BY <1>7, <2>1, LiveAnswer
<1>8. ASSUME NEW n \in Nat, Read(Rd, n) PROVE LiveStays /\ got' = got
  <2> DEFINE c == IF done THEN Ret(readCloseError) ELSE [Idle EXCEPT !.pc = "recv", !.n = n]
  <2>1. call[Rd].pc = "ret" /\ call' = [call EXCEPT ![Rd] = c] /\ got' = got
    BY <1>8 DEF Read, free
  <2>2. c.pc \in {"ret", "recv"}
    <3>1. [Idle EXCEPT !.pc = "recv", !.n = n].pc = "recv"
      BY DEF Idle, Ret
    <3> QED BY <1>2, <3>1
  <2> HIDE DEF c
  <2> QED BY <1>1, <2>1, <2>2, LiveOne DEF live
<1>9. ASSUME NEW t \in Threads, NEW err \in {None, "err"}, CloseRead(t, err) \/ CloseWrite(t, err)
      PROVE LiveStays /\ got' = got
  <2>1. /\ call[t].pc = "ret" /\ call' = [call EXCEPT ![t] = [Idle EXCEPT !.pc = "close"]]
        /\ got' = got
    BY <1>9 DEF CloseRead, CloseWrite, free
  <2> QED BY <1>2, <2>1, LiveOne DEF live
<1>10. CASE UNCHANGED pipeVars
  BY <1>10 DEF pipeVars, LiveStays, taken
<1> QED BY <1>1, <1>3, <1>4, <1>5, <1>6, <1>7, <1>8, <1>9, <1>10

\* What a transfer hands over comes next in the write under wrMu.
LEMMA LiveTransfer ==
  ASSUME PipeInv, ErrInv, NEW t \in Threads, NEW r \in Threads \ {t}, Transfer(t, r)
  PROVE  /\ live(call[t]) /\ call'[t].b = call[t].b
         /\ \E k \in Nat : /\ taken(t) + k <= Len(call[t].b) /\ taken(t)' = taken(t) + k
                           /\ got' = got \o SubSeq(call[t].b, taken(t) + 1, taken(t) + k)
         /\ \A u \in Threads : live(call'[u]) =>
              live(call[u]) /\ call'[u].b = call[u].b /\ (u # t => taken(u)' = taken(u))
<1>1. call \in [Threads -> CallType] /\ Rd \in Threads /\ PipeInv'
  BY WritersAssumption, PipeTransferred DEF PipeInv, PipeTypeOK
<1> DEFINE d == SubSeq(rest(call[t]), 1, Min({call[r].n, Len(rest(call[t]))}))
<1>2. /\ call[t].pc = "send" /\ call[r].pc = "recv" /\ got' = got \o d
      /\ call' = [call EXCEPT ![t].pc = "sent", ![r].pc = "answer", ![r].b = d]
  BY DEF Transfer
<1> HIDE DEF d
<1>3. r = Rd
  BY <1>2 DEF ErrInv
<1>4. /\ call'[t].pc = "sent" /\ call'[t].b = call[t].b /\ call'[t].n = call[t].n
      /\ call'[r].pc = "answer" /\ call'[r].b = d
      /\ \A u \in Threads : u # t /\ u # r => call'[u] = call[u]
  BY <1>1, <1>2 DEF CallType
<1>5. wrMu' = t /\ r \in answering'
  <2>1. wrMu' = t
    BY <1>1, <1>4 DEF PipeInv, Locked
  <2> QED BY <1>4, <2>1 DEF answering
<1>6. Copied(r)'
  BY <1>1, <1>5 DEF PipeInv, HandOver
<1>7. /\ call[t].n + Len(d) <= Len(call[t].b)
      /\ d = SubSeq(call[t].b, call[t].n + 1, call[t].n + Len(d))
  BY <1>4, <1>5, <1>6 DEF Copied
<1>8. call[t].n \in Nat /\ Len(d) \in Nat
  <2>1. call'[r] \in CallType
    BY <1>1 DEF PipeInv, PipeTypeOK
  <2>2. d \in Seq(Samples)
    BY <1>4, <2>1 DEF CallType
  <2> QED BY <1>1, <2>2, LenProperties DEF CallType
<1>9. taken(t) = call[t].n /\ taken(t)' = call[t].n + Len(d)
  <2>1. taken(t) = call[t].n + 0
    BY <1>2 DEF taken
  <2>2. taken(t)' = call'[t].n + Len(call'[Rd].b)
    BY <1>3, <1>4 DEF taken
  <2> QED BY <1>3, <1>4, <1>8, <2>1, <2>2
<1>10. ASSUME NEW u \in Threads, live(call'[u])
       PROVE  live(call[u]) /\ call'[u].b = call[u].b /\ (u # t => taken(u)' = taken(u))
  <2>1. CASE u = t
    BY <1>2, <1>4, <2>1 DEF live
  <2>2. CASE u # t
    <3>1. u # r
      BY <1>4, <1>10 DEF live
    <3>2. call'[u] = call[u] /\ call[u].n \in Nat
      BY <1>1, <1>4, <2>2, <3>1 DEF CallType
    <3>3. call[u].pc # "sent"
      BY <1>2, <2>2 DEF PipeInv, Locked
    <3>4. taken(u) = call[u].n + 0 /\ taken(u)' = call[u].n + 0
      BY <3>2, <3>3 DEF taken
    <3> QED BY <1>10, <3>2, <3>4
  <2> QED BY <2>1, <2>2
<1>11. live(call[t])
  BY <1>2 DEF live
<1>12. \E k \in Nat : /\ taken(t) + k <= Len(call[t].b) /\ taken(t)' = taken(t) + k
                      /\ got' = got \o SubSeq(call[t].b, taken(t) + 1, taken(t) + k)
  <2>1. PICK k \in Nat : k = Len(d)
    BY <1>8
  <2> QED BY <1>2, <1>7, <1>9, <2>1
<1> QED BY <1>4, <1>10, <1>11, <1>12

----------------------------------------------------------------------------
(* No writer twice in one round of the loop.                               *)

LEMMA RestIs ==
  ASSUME NEW s \in Seq(Leaf), s # <<>>
  PROVE  /\ Tail(s) \in Seq(Leaf) /\ Elems(Tail(s)) \subseteq Elems(s)
         /\ Head(s) \in Elems(s)
         /\ \A x \in Elems(s) : x = Head(s) \/ x \in Elems(Tail(s))
         /\ NoRepeat(s) => NoRepeat(Tail(s)) /\ Head(s) \notin Elems(Tail(s))
<1>1. /\ Tail(s) \in Seq(Leaf) /\ Len(s) \in Nat /\ Len(s) >= 1 /\ Len(Tail(s)) = Len(s) - 1
      /\ \A i \in 1..Len(s) - 1 : Tail(s)[i] = s[i + 1]
      /\ Head(s) = s[1]
  OBVIOUS
<1>2. DOMAIN s = 1..Len(s) /\ DOMAIN Tail(s) = 1..Len(s) - 1
  BY <1>1
<1> DEFINE u == Tail(s)
<1>3. /\ u \in Seq(Leaf) /\ Len(u) = Len(s) - 1 /\ \A i \in 1..Len(s) - 1 : u[i] = s[i + 1]
      /\ DOMAIN u = 1..Len(s) - 1
  BY <1>1, <1>2
<1> HIDE DEF u
<1>4. ASSUME NoRepeat(s) PROVE NoRepeat(u) /\ s[1] \notin Elems(u)
  <2>1. \A i, j \in 1..Len(s) : s[i] = s[j] => i = j
    BY <1>2, <1>4 DEF NoRepeat
  <2>2. ASSUME NEW i \in 1..Len(s) - 1, NEW j \in 1..Len(s) - 1, u[i] = u[j] PROVE i = j
    <3>1. i + 1 \in 1..Len(s) /\ j + 1 \in 1..Len(s) /\ s[i + 1] = s[j + 1]
      BY <1>1, <1>3, <2>2
    <3>2. i + 1 = j + 1
      BY <2>1, <3>1
    <3> QED BY <3>2
  <2>3. ASSUME NEW i \in 1..Len(s) - 1 PROVE u[i] # s[1]
    <3>1. i + 1 \in 1..Len(s) /\ u[i] = s[i + 1] /\ i + 1 # 1 /\ 1 \in 1..Len(s)
      BY <1>1, <1>3
    <3> QED BY <2>1, <3>1
  <2> QED BY <1>3, <2>2, <2>3 DEF NoRepeat, Elems
<1>5. ASSUME NEW x \in Elems(u) PROVE x \in Elems(s)
  <2>1. PICK i \in 1..Len(s) - 1 : u[i] = x
    BY <1>3 DEF Elems
  <2>2. i + 1 \in 1..Len(s) /\ s[i + 1] = x
    BY <1>1, <1>3, <2>1
  <2> QED BY <1>2, <2>2 DEF Elems
<1>6. s[1] \in Elems(s)
  BY <1>1, <1>2 DEF Elems
<1>7. ASSUME NEW x \in Elems(s), x # s[1] PROVE x \in Elems(u)
  <2>1. PICK i \in 1..Len(s) : s[i] = x
    BY <1>2 DEF Elems
  <2>2. i - 1 \in 1..Len(s) - 1 /\ (i - 1) + 1 = i
    BY <1>1, <1>7, <2>1
  <2>3. u[i - 1] = x
    BY <1>3, <2>1, <2>2
  <2> QED BY <1>3, <2>2, <2>3 DEF Elems
<1>8. Head(s) = s[1]
  BY <1>1
<1> QED BY <1>3, <1>4, <1>5, <1>6, <1>7, <1>8 DEF u

LEMMA TargetsMoves ==
  ASSUME TargetsInv, ChainInv, NEW t \in Threads, NEW s, sw' = [sw EXCEPT ![t] = s], w' = w,
         NoRepeat(s.ts),
         t = Ctl /\ s.pc \in {"each", "called"} => Elems(s.ts) \subseteq Elems(w),
         \A u \in Threads : live(call'[u]) =>
            \/ u # t /\ live(call[u]) /\ call'[u].b = call[u].b
            \/ u = t /\ s.pc = "called" /\ call'[u].b = s.f,
         s.err # None => done', done => done'
  PROVE  TargetsInv'
<1>1. /\ Ctl \in Threads
      /\ \A u \in Threads : sw'[u] = IF u = t THEN s ELSE sw[u]
  BY WritersAssumption DEF ChainInv, ChainTypeOK
<1>2. NoRepeat(w') /\ \A u \in Threads : NoRepeat(sw'[u].ts)
  BY <1>1 DEF TargetsInv
<1>3. sw'[Ctl].pc \in {"each", "called"} => Elems(sw'[Ctl].ts) \subseteq Elems(w')
  BY <1>1 DEF TargetsInv
<1>4. \A u \in Threads : live(call'[u]) => sw'[u].pc = "called" /\ call'[u].b = sw'[u].f
  BY <1>1 DEF TargetsInv
<1>5. \A u \in Threads : sw'[u].err # None => done'
  BY <1>1 DEF TargetsInv
<1> QED BY <1>2, <1>3, <1>4, <1>5 DEF TargetsInv

LEMMA TargetsStay ==
  ASSUME TargetsInv, sw' = sw, NoRepeat(w'),
         w' = w \/ sw[Ctl].pc \notin {"each", "called"},
         \A u \in Threads : live(call'[u]) => live(call[u]) /\ call'[u].b = call[u].b,
         done => done'
  PROVE  TargetsInv'
  BY DEF TargetsInv

\* The pipe's own steps, whoever takes them.
LEMMA TargetsPipe ==
  ASSUME TargetsInv, PipeInv, ErrInv, UNCHANGED <<sw, w>>,
         \/ \E t \in Threads : PipeStep(t)
         \/ \E n \in Nat : Read(Rd, n)
         \/ \E err \in {None, "err"} : CloseRead(RdCloser, err)
         \/ \E t \in Threads : CloseWrite(t, None)
         \/ UNCHANGED pipeVars
  PROVE  TargetsInv'
<1>1. done => done'
  BY DEF PipeStep, Lock, WriteClosed, ReadClosed, CloseDone, Transfer, Answer, Read, CloseRead,
         CloseWrite, pipeVars
<1>2. \A u \in Threads : live(call'[u]) => live(call[u]) /\ call'[u].b = call[u].b
  <2>1. CASE \E t \in Threads, r \in Threads : r # t /\ Transfer(t, r)
    BY <2>1, LiveTransfer
  <2>2. CASE LiveStays
    BY <2>2 DEF LiveStays
  <2> QED BY <2>1, <2>2, LiveSteps DEF PipeStep
<1>3. NoRepeat(w')
  BY DEF TargetsInv
<1> QED BY <1>1, <1>2, <1>3, TargetsStay

LEMMA TargetsSteps ==
  ASSUME \A v \in Targets : NoRepeat(v), PipeInv, ChainInv, ErrInv, Quiet, Delivery, MuInv,
         TargetsInv, [Next]_vars
  PROVE  TargetsInv'
<1>0. /\ Ctl \in Threads /\ Ctl \notin Direct /\ Producers \subseteq Threads
      /\ Direct \subseteq Producers /\ sw \in [Threads -> SWType] /\ None \notin Threads
  BY WritersAssumption DEF ChainInv, ChainTypeOK, Producers
<1>1. NoRepeat(<<>>) /\ Elems(<<>>) = {}
  BY NoElems DEF NoRepeat
<1>2. \A f \in Seq(Samples) :
        swStart(f).ts = <<>> /\ swStart(f).err = None /\ swStart(f).pc \in {"each", "load"}
  <2>1. SWIdle.ts = <<>> /\ SWIdle.err = None /\ SWIdle.pc = "idle"
    BY DEF SWIdle
  <2> TAKE f \in Seq(Samples)
  <2>2. swStart(f).ts = <<>> /\ swStart(f).err = None
    BY DEF swStart, SWIdle
  <2> QED BY <2>2, SwStartIs
<1>3. \A u \in Threads : live(call[u]) => sw[u].pc = "called"
  BY DEF TargetsInv
<1>4. ASSUME NEW t \in Threads, NEW f \in Seq(Samples), sw' = [sw EXCEPT ![t] = swStart(f)],
             UNCHANGED <<pipeVars, w>>, sw[t].pc = "idle"
      PROVE  TargetsInv'
  <2>1. call' = call /\ done' = done
    BY <1>4 DEF pipeVars
  <2> DEFINE s == swStart(f)
  <2>2. s.ts = <<>> /\ s.err = None
    BY <1>2
  <2>3. sw' = [sw EXCEPT ![t] = s]
    BY <1>4
  <2> HIDE DEF s
  <2>4. \A u \in Threads : live(call'[u]) => u # t /\ live(call[u]) /\ call'[u].b = call[u].b
    BY <1>3, <1>4, <2>1
  <2>5. NoRepeat(s.ts) /\ Elems(s.ts) \subseteq Elems(w)
    BY <1>1, <2>2
  <2>6. w' = w /\ (s.err # None => done') /\ (done => done')
    BY <1>4, <2>1, <2>2
  <2> QED BY <2>3, <2>4, <2>5, <2>6, TargetsMoves
<1>5. CASE Calls
  <2>1. ASSUME NEW p \in Direct, WriteDirect(p) PROVE TargetsInv'
    <3>1. PICK n \in Chunks[p] : sw' = [sw EXCEPT ![p] = swStart(chunk(p, n))]
      BY <2>1 DEF WriteDirect
    <3>2. sw[p].pc = "idle" /\ UNCHANGED <<pipeVars, w>>
      BY <2>1 DEF WriteDirect, SWIdle
    <3>3. chunk(p, n) \in Seq(Samples) /\ p \in Threads
      BY <1>0, ChunkIs
    <3> QED BY <1>4, <3>1, <3>2, <3>3
  <2>2. CASE (\E p \in Framed : WriteFrames(p)) \/ CloseFrames \/ EnableDisable
    <3>1. UNCHANGED <<pipeVars, sw, w>>
      BY <2>2 DEF WriteFrames, CloseFrames, EnableDisable
    <3> QED BY <3>1, TargetsPipe
  <2>3. CASE Swap
    <3>1. sw' = sw /\ UNCHANGED pipeVars /\ w' \in Targets \cup {<<>>} /\ ff[Ctl] = FFIdle
      BY <2>3 DEF Swap
    <3>2. FFIdle.pc = "idle"
      BY DEF FFIdle
    <3>3. sw[Ctl].pc = "idle"
      BY <1>0, <3>1, <3>2 DEF Quiet
    <3>4. call' = call /\ done' = done /\ NoRepeat(w')
      BY <1>1, <3>1 DEF pipeVars
    <3> QED BY <3>1, <3>3, <3>4, TargetsStay
  <2>4. CASE CloseReader
    BY <2>4, TargetsPipe DEF CloseReader
  <2> QED BY <1>5, <2>1, <2>2, <2>3, <2>4 DEF Calls
<1>6. CASE ReadPipe
  <2>1. Buffers \subseteq Nat
    BY WritersAssumption
  <2> QED BY <1>6, <2>1, TargetsPipe DEF ReadPipe, chainVars
<1>7. CASE UNCHANGED vars
  BY <1>7, TargetsPipe DEF vars, chainVars
<1>8. ASSUME NEW t \in Threads, Running(t) PROVE TargetsInv'
  <2>0. /\ sw[t] \in SWType /\ NoRepeat(sw[t].ts)
        /\ t = Ctl /\ sw[t].pc \in {"each", "called"} => Elems(sw[t].ts) \subseteq Elems(w)
        /\ sw[t].err # None => done
    BY <1>0 DEF TargetsInv
  <2>1. CASE PipeStep(t) /\ UNCHANGED chainVars
    BY <2>1, TargetsPipe DEF chainVars
  <2>2. CASE ClosePipe(t)
    BY <2>2, TargetsPipe DEF ClosePipe
  <2>3. CASE FramesLock(t) \/ FlushEnd(t) \/ (t = Ctl /\ FramesClosed) \/ CloseMem(t)
    <3>1. UNCHANGED <<pipeVars, sw, w>>
      BY <2>3 DEF FramesLock, FlushEnd, FramesClosed, CloseMem
    <3> QED BY <3>1, TargetsPipe
  <2>4. CASE SwitchLoad(t)
    <3> DEFINE s == [sw[t] EXCEPT !.pc = "each", !.ts = w, !.to = w]
    <3>1. sw[t].pc = "load" /\ sw' = [sw EXCEPT ![t] = s] /\ UNCHANGED <<pipeVars, w>>
      BY <2>4 DEF SwitchLoad
    <3>2. s.ts = w /\ s.err = sw[t].err
      BY <2>0 DEF SWType
    <3> HIDE DEF s
    <3>3. call' = call /\ done' = done
      BY <3>1 DEF pipeVars
    <3>4. \A u \in Threads : live(call'[u]) => u # t /\ live(call[u]) /\ call'[u].b = call[u].b
      BY <1>3, <3>1, <3>3
    <3>5. NoRepeat(w)
      BY DEF TargetsInv
    <3> QED BY <2>0, <3>1, <3>2, <3>3, <3>4, <3>5, TargetsMoves
  <2>5. ASSUME NEW e \in Errors, sw' = [sw EXCEPT ![t] = nextTarget(sw[t], e)],
               UNCHANGED <<pipeVars, w>>, sw[t].pc \in {"each", "called"}, ~live(call[t]),
               sw[t].ts # <<>>, e # None => done
        PROVE  TargetsInv'
    <3> DEFINE s == nextTarget(sw[t], e)
    <3>1. s.ts = Tail(sw[t].ts) /\ s.err = IF e # None THEN e ELSE sw[t].err
      BY <2>0 DEF nextTarget, SWType
    <3>2. sw' = [sw EXCEPT ![t] = s]
      BY <2>5
    <3> HIDE DEF s
    <3>3. call' = call /\ done' = done
      BY <2>5 DEF pipeVars
    <3>4. \A u \in Threads : live(call'[u]) => u # t /\ live(call[u]) /\ call'[u].b = call[u].b
      BY <2>5, <3>3
    <3>5. sw[t].ts \in Seq(Leaf)
      BY <2>0 DEF SWType
    <3>6. NoRepeat(s.ts) /\ Elems(s.ts) \subseteq Elems(sw[t].ts)
      BY <2>0, <2>5, <3>1, <3>5, RestIs
    <3>7. s.err # None => done'
      BY <2>0, <2>5, <3>1, <3>3
    <3> QED BY <2>0, <2>5, <3>2, <3>3, <3>4, <3>6, <3>7, TargetsMoves
  <2>6. CASE WriteMem(t)
    <3>1. /\ sw' = [sw EXCEPT ![t] = nextTarget(sw[t], None)] /\ UNCHANGED <<pipeVars, w>>
          /\ sw[t].pc = "each" /\ sw[t].ts # <<>>
      BY <2>6 DEF WriteMem
    <3>2. ~live(call[t]) /\ None \in Errors
      BY <1>3, <3>1 DEF Errors
    <3> QED BY <2>5, <3>1, <3>2
  <2>7. CASE WrittenPipe(t)
    <3>1. /\ sw' = [sw EXCEPT ![t] = nextTarget(sw[t], call[t].err)] /\ UNCHANGED <<pipeVars, w>>
          /\ sw[t].pc = "called" /\ call[t].pc = "ret"
      BY <2>7 DEF WrittenPipe, free
    <3>2. sw[t].ts # <<>> /\ ~live(call[t])
      BY <3>1, ChainTypes DEF live
    <3>3. call[t].err \in Errors
      BY DEF PipeInv, PipeTypeOK, CallType
    <3>4. call[t].err # None => done
      BY DEF ErrInv, CloseErrors
    <3> QED BY <2>5, <3>1, <3>2, <3>3, <3>4
  <2>8. CASE WritePipe(t)
    <3> DEFINE s == [sw[t] EXCEPT !.pc = "called"]
               c == IF done THEN Ret(writeCloseError)
                    ELSE [Idle EXCEPT !.pc = "lock", !.b = sw[t].f]
    <3>1. /\ sw[t].pc = "each" /\ sw' = [sw EXCEPT ![t] = s] /\ w' = w
          /\ call' = [call EXCEPT ![t] = c] /\ done' = done
      BY <2>8 DEF WritePipe, Write
    <3>2. s.ts = sw[t].ts /\ s.err = sw[t].err /\ s.f = sw[t].f /\ s.pc = "called"
      BY <2>0 DEF SWType
    <3>3. live(c) => c.b = sw[t].f
      BY DEF Idle, Ret, live
    <3> HIDE DEF s, c
    <3>4. \A u \in Threads : call'[u] = IF u = t THEN c ELSE call[u]
      BY <3>1 DEF PipeInv, PipeTypeOK
    <3>5. \A u \in Threads : live(call'[u]) =>
            \/ u # t /\ live(call[u]) /\ call'[u].b = call[u].b
            \/ u = t /\ s.pc = "called" /\ call'[u].b = s.f
      BY <3>2, <3>3, <3>4
    <3> QED BY <2>0, <3>1, <3>2, <3>5, TargetsMoves
  <2>9. CASE (t \in Direct /\ WrittenDirect(t)) \/ FlushWritten(t)
    <3>1. sw' = [sw EXCEPT ![t] = SWIdle] /\ UNCHANGED <<pipeVars, w>> /\ sw[t].pc = "each"
      BY <2>9 DEF WrittenDirect, FlushWritten, SwitchEnd, swReturned
    <3>2. SWIdle.ts = <<>> /\ SWIdle.err = None /\ SWIdle.pc = "idle"
      BY DEF SWIdle
    <3>3. call' = call /\ done' = done
      BY <3>1 DEF pipeVars
    <3>4. \A u \in Threads : live(call'[u]) => u # t /\ live(call[u]) /\ call'[u].b = call[u].b
      BY <1>3, <3>1, <3>3
    <3> QED BY <1>1, <3>1, <3>2, <3>3, <3>4, TargetsMoves
  <2>10. CASE FlushWrite(t)
    <3>1. /\ ff[t].pc = "flush" /\ UNCHANGED <<pipeVars, w>>
          /\ sw' = [sw EXCEPT ![t] = swStart(SubSeq(ff[t].it, 1, flushLen(t)))]
      BY <2>10 DEF FlushWrite
    <3>2. t \notin Direct
      <4>1. t \in Framed \cup {Ctl}
        BY <3>1 DEF MuInv
      <4> QED BY <4>1, WritersAssumption
    <3>3. sw[t].pc = "idle"
      BY <3>1, <3>2 DEF Quiet
    <3>4. SubSeq(ff[t].it, 1, flushLen(t)) \in Seq(Samples)
      <4>1. ff[t].it \in Seq(Samples) /\ flushLen(t) \in 0..Len(ff[t].it)
        <5>1. ff[t].it \in Seq(Samples) /\ Len(ff[t].it) \in Nat /\ FrameSize \in Nat
          BY ChainTypes, LenProperties, WritersAssumption DEF FFType
        <5> QED BY <5>1 DEF flushLen
      <4> QED BY <4>1, Cut
    <3> QED BY <1>4, <3>1, <3>3, <3>4
  <2> QED BY <1>8, <2>1, <2>2, <2>3, <2>4, <2>6, <2>7, <2>8, <2>9, <2>10 DEF Running
<1> QED BY <1>5, <1>6, <1>7, <1>8 DEF Next

----------------------------------------------------------------------------
(* What a writer at the end may still get.                                 *)

LEMMA ComesIs ==
  \A leaf, y : y \in comes(leaf) <=>
     \/ \E t \in Threads : y \in Elems(ff[t].in)
     \/ y \in Elems(lane) /\ ~over(leaf)
     \/ \E t \in Threads : ahead(t, leaf) /\ y \in Elems(sw[t].f)
BY DEF comes, heldFor, waiting

LEMMA ComesThen ==
  (\A leaf, y : y \in comes(leaf) <=>
     \/ \E t \in Threads : y \in Elems(ff[t].in)
     \/ y \in Elems(lane) /\ ~over(leaf)
     \/ \E t \in Threads : ahead(t, leaf) /\ y \in Elems(sw[t].f))'
BY ComesIs, PTL

\* What comes next was to come already, or has just been given, unless the writer
\* is closed.
ComesFrom(leaf) ==
  \A y \in comes(leaf)' : \/ y \in comes(leaf) \/ y \notin Given
                          \/ leaf = "mem" /\ ~mem'.open
                          \/ leaf = "pipe" /\ done

LEMMA ComesStay ==
  ASSUME NEW leaf \in Leaf, Stay,
         \A t \in Threads : ahead(t, leaf)' => ahead(t, leaf),
         over(leaf) => over(leaf)' \/ (leaf = "mem" /\ ~mem'.open)
  PROVE  ComesFrom(leaf)
<1> SUFFICES ASSUME NEW y \in comes(leaf)', y \notin comes(leaf), ~(leaf = "mem" /\ ~mem'.open)
             PROVE  FALSE
  BY DEF ComesFrom
<1>1. \/ \E t \in Threads : y \in Elems(ff'[t].in)
      \/ y \in Elems(lane') /\ ~over(leaf)'
      \/ \E t \in Threads : ahead(t, leaf)' /\ y \in Elems(sw'[t].f)
  BY ComesThen
<1>2. /\ \A t \in Threads : y \notin Elems(ff[t].in)
      /\ ~(y \in Elems(lane) /\ ~over(leaf))
      /\ \A t \in Threads : ~(ahead(t, leaf) /\ y \in Elems(sw[t].f))
  BY ComesIs
<1>3. \A t \in Threads : ff'[t].in = ff[t].in /\ sw'[t].f = sw[t].f
  BY DEF Stay
<1>4. lane' = lane
  BY DEF Stay
<1> QED BY <1>1, <1>2, <1>3, <1>4

LEMMA AheadSteps ==
  ASSUME NEW leaf \in Leaf, ChainInv, Delivery, TargetsInv, NEW t \in Threads,
         SwitchLoad(t) \/ WriteMem(t) \/ WritePipe(t) \/ WrittenPipe(t)
  PROVE  /\ \A u \in Threads : ahead(u, leaf)' => ahead(u, leaf)
         /\ WriteMem(t) => ~ahead(t, "mem")'
<1>0. /\ sw \in [Threads -> SWType] /\ sw[t].ts \in Seq(Leaf) /\ NoRepeat(sw[t].ts)
  BY DEF ChainInv, ChainTypeOK, TargetsInv, SWType
<1>1. ASSUME NEW s, sw' = [sw EXCEPT ![t] = s],
             \/ s.pc = "load"
             \/ s.pc \in {"each", "called"} /\ leaf \in Elems(s.ts)
                /\ ~(leaf = "pipe" /\ s.pc = "called")
             => ahead(t, leaf)
      PROVE  \A u \in Threads : ahead(u, leaf)' => ahead(u, leaf)
  <2>1. \A u \in Threads : sw'[u] = IF u = t THEN s ELSE sw[u]
    BY <1>0, <1>1
  <2>2. ASSUME NEW u \in Threads, ahead(u, leaf)' PROVE ahead(u, leaf)
    <3>1. CASE u = t
      BY <1>1, <2>1, <2>2, <3>1 DEF ahead
    <3>2. CASE u # t
      BY <2>1, <2>2, <3>2 DEF ahead
    <3> QED BY <3>1, <3>2
  <2> QED BY <2>2
<1>2. CASE SwitchLoad(t)
  <2>1. sw[t].pc = "load"
    BY <1>2 DEF SwitchLoad
  <2>2. PICK s : sw' = [sw EXCEPT ![t] = s]
    BY <1>2 DEF SwitchLoad
  <2>3. ahead(t, leaf)
    BY <2>1 DEF ahead
  <2>4. ~WriteMem(t)
    BY <2>1 DEF WriteMem
  <2> QED BY <1>1, <2>2, <2>3, <2>4
<1>3. \A e : nextTarget(sw[t], e).ts = Tail(sw[t].ts) /\ nextTarget(sw[t], e).pc = "each"
  BY <1>0 DEF nextTarget, SWType
<1>4. CASE WriteMem(t)
  <2> DEFINE s == nextTarget(sw[t], None)
  <2>1. sw[t].pc = "each" /\ sw[t].ts # <<>> /\ Head(sw[t].ts) = "mem" /\ sw' = [sw EXCEPT ![t] = s]
    BY <1>4 DEF WriteMem
  <2>2. s.ts = Tail(sw[t].ts) /\ s.pc = "each"
    BY <1>3
  <2> HIDE DEF s
  <2>3. Elems(s.ts) \subseteq Elems(sw[t].ts) /\ "mem" \notin Elems(s.ts)
    BY <1>0, <2>1, <2>2, RestIs
  <2>4. sw'[t] = s
    BY <1>0, <2>1
  <2>5. ~ahead(t, "mem")'
    BY <2>2, <2>3, <2>4 DEF ahead
  <2>6. leaf \in Elems(s.ts) => ahead(t, leaf)
    BY <2>1, <2>3 DEF ahead
  <2> QED BY <1>1, <2>1, <2>2, <2>5, <2>6
<1>5. CASE WritePipe(t)
  <2> DEFINE s == [sw[t] EXCEPT !.pc = "called"]
  <2>1. sw[t].pc = "each" /\ Head(sw[t].ts) = "pipe" /\ sw' = [sw EXCEPT ![t] = s]
    BY <1>5 DEF WritePipe
  <2>2. s.ts = sw[t].ts /\ s.pc = "called"
    BY <1>0 DEF SWType
  <2> HIDE DEF s
  <2>3. leaf \in Elems(s.ts) => ahead(t, leaf)
    BY <2>1, <2>2 DEF ahead
  <2>4. ~WriteMem(t)
    BY <2>1 DEF WriteMem
  <2> QED BY <1>1, <2>1, <2>2, <2>3, <2>4
<1>6. CASE WrittenPipe(t)
  <2> DEFINE s == nextTarget(sw[t], call[t].err)
  <2>1. sw[t].pc = "called" /\ sw' = [sw EXCEPT ![t] = s]
    BY <1>6 DEF WrittenPipe
  <2>2. s.ts = Tail(sw[t].ts) /\ s.pc = "each"
    BY <1>3
  <2> HIDE DEF s
  <2>3. sw[t].ts # <<>> /\ Head(sw[t].ts) = "pipe"
    BY <2>1 DEF ChainInv, CallHasTarget, Delivery
  <2>4. Elems(s.ts) \subseteq Elems(sw[t].ts) /\ "pipe" \notin Elems(s.ts)
    BY <1>0, <2>2, <2>3, RestIs
  <2>5. leaf \in Elems(s.ts) => ahead(t, leaf)
    BY <2>1, <2>4 DEF ahead
  <2>6. ~WriteMem(t)
    BY <2>1 DEF WriteMem
  <2> QED BY <1>1, <2>1, <2>2, <2>5, <2>6
<1> QED BY <1>2, <1>4, <1>5, <1>6

\* The steps that move no sample.
LEMMA ComesStill ==
  ASSUME NEW leaf \in Leaf, ChainInv, MuInv, LaneInv, Delivery, TargetsInv,
         \/ UNCHANGED chainVars
         \/ CloseFrames \/ Swap \/ EnableDisable \/ CloseReader
         \/ \E t \in Threads : \/ SwitchLoad(t) \/ WriteMem(t) \/ WritePipe(t) \/ WrittenPipe(t)
                               \/ FlushEnd(t) \/ (t = Ctl /\ FramesClosed)
                               \/ CloseMem(t) \/ ClosePipe(t)
  PROVE  ComesFrom(leaf)
<1>0. /\ Ctl \in Threads /\ None \notin Threads /\ ff \in [Threads -> FFType]
      /\ cl \in [Threads -> Seq(Leaf)] /\ FFIdle.pc = "idle"
  BY WritersAssumption DEF ChainInv, ChainTypeOK, FFIdle
<1>1. sw' = sw => \A t \in Threads : ahead(t, leaf)' => ahead(t, leaf)
  BY DEF ahead
<1>2. UNCHANGED <<ff, w, cl>> => (over(leaf) => over(leaf)')
  BY DEF over, memOver
<1>3. over(leaf) => ff[Ctl].pc \in {"tail", "flushed", "close"}
  BY DEF over, memOver
<1>4. CASE UNCHANGED chainVars
  <2>1. UNCHANGED <<ff, w, cl, sw>> /\ Stay
    BY <1>4 DEF chainVars, Stay, lane
  <2> QED BY <1>1, <1>2, <2>1, ComesStay
<1>5. CASE CloseFrames \/ Swap
  <2>1. ff[Ctl] = FFIdle /\ sw' = sw
    BY <1>5 DEF CloseFrames, Swap
  <2>2. ~over(leaf)
    BY <1>0, <1>3, <2>1
  <2>3. Stay
    BY <1>5, StayCalls
  <2> QED BY <1>1, <2>1, <2>2, <2>3, ComesStay
<1>6. CASE EnableDisable \/ CloseReader
  <2>1. UNCHANGED <<ff, w, cl, sw>>
    BY <1>6 DEF EnableDisable, CloseReader
  <2>2. Stay
    BY <1>6, StayCalls
  <2> QED BY <1>1, <1>2, <2>1, <2>2, ComesStay
<1>7. ASSUME NEW t \in Threads, SwitchLoad(t) \/ WriteMem(t) \/ WritePipe(t) \/ WrittenPipe(t)
      PROVE  ComesFrom(leaf)
  <2>1. UNCHANGED <<ff, w, cl>>
    BY <1>7 DEF SwitchLoad, WriteMem, WritePipe, WrittenPipe
  <2>2. Stay
    BY <1>7, StayWrites
  <2>3. \A u \in Threads : ahead(u, leaf)' => ahead(u, leaf)
    BY <1>7, AheadSteps
  <2> QED BY <1>2, <2>1, <2>2, <2>3, ComesStay
<1>8. ASSUME NEW t \in Threads, FlushEnd(t) PROVE ComesFrom(leaf)
  <2>1. Stay /\ sw' = sw
    BY <1>8, StayEnds DEF FlushEnd
  <2>2. ff[t].pc \in {"flush", "flushed"} /\ w' = w
    BY <1>8 DEF FlushEnd
  <2>3. mu = t
    BY <2>2 DEF MuInv
  <2>4. over(leaf) => t = Ctl /\ leaf # "pipe" /\ "mem" \in Elems(w)
    <3> SUFFICES ASSUME over(leaf) PROVE t = Ctl /\ leaf # "pipe" /\ "mem" \in Elems(w)
      OBVIOUS
    <3>1. t = Ctl
      BY <1>0, <1>3, <2>3 DEF MuInv
    <3> QED BY <2>2, <3>1 DEF over, memOver
  <2>5. t = Ctl => ff'[Ctl].pc = "close" /\ cl'[Ctl] = w
    <3>1. t = Ctl => /\ ff' = [ff EXCEPT ![t] = [FFIdle EXCEPT !.pc = "close"]]
                     /\ cl' = [cl EXCEPT ![t] = w]
      BY <1>8 DEF FlushEnd
    <3>2. [FFIdle EXCEPT !.pc = "close"].pc = "close"
      BY DEF FFIdle
    <3> QED BY <1>0, <3>1, <3>2
  <2>6. over(leaf) => over(leaf)'
    BY <2>4, <2>5 DEF over, memOver
  <2> QED BY <1>1, <2>1, <2>6, ComesStay
<1>9. CASE FramesClosed
  <2>1. Stay /\ sw' = sw
    BY <1>0, <1>9, StayEnds DEF FramesClosed
  <2>2. ff[Ctl].pc = "close" /\ cl[Ctl] = <<>>
    BY <1>9 DEF FramesClosed, closed
  <2>3. ~over(leaf)
    BY <2>2, NoElems DEF over, memOver
  <2> QED BY <1>1, <2>1, <2>3, ComesStay
<1>10. ASSUME NEW t \in Threads, CloseMem(t) \/ ClosePipe(t) PROVE ComesFrom(leaf)
  <2>1. Stay /\ UNCHANGED <<ff, sw, w>>
    BY <1>10 DEF CloseMem, ClosePipe, Stay, lane
  <2>2. over(leaf) => over(leaf)' \/ (leaf = "mem" /\ ~mem'.open)
    <3>1. CASE CloseMem(t)
      <4>1. mem' = [mem EXCEPT !.open = FALSE]
        BY <3>1 DEF CloseMem
      <4>2. mem \in MemType
        BY DEF Delivery
      <4>3. ~mem'.open
        BY <4>1, <4>2 DEF MemType
      <4> QED BY <2>1, <4>3 DEF over, Leaf
    <3>2. CASE ClosePipe(t)
      <4>1. cl[t] # <<>> /\ Head(cl[t]) = "pipe" /\ cl' = [cl EXCEPT ![t] = Tail(cl[t])]
        BY <3>2 DEF ClosePipe
      <4>2. cl'[Ctl] = IF t = Ctl THEN Tail(cl[t]) ELSE cl[Ctl]
        BY <1>0, <4>1
      <4>3. \A x \in Elems(cl[t]) : x = "pipe" \/ x \in Elems(Tail(cl[t]))
        <5>1. cl[t] \in Seq(Leaf)
          BY <1>0
        <5> QED BY <4>1, <5>1, RestIs
      <4>4. "mem" \in Elems(cl[Ctl]) => "mem" \in Elems(cl'[Ctl])
        BY <4>2, <4>3
      <4> QED BY <2>1, <4>4 DEF over, memOver
    <3> QED BY <1>10, <3>1, <3>2
  <2> QED BY <1>1, <2>1, <2>2, ComesStay
<1> QED BY <1>4, <1>5, <1>6, <1>7, <1>8, <1>9, <1>10

\* The steps that do.
LEMMA ComesGiven ==
  ASSUME NEW leaf \in Leaf, ChainInv, MuInv, LaneInv, NEW p \in Producers,
         (p \in Direct /\ WriteDirect(p)) \/ (p \in Framed /\ WriteFrames(p))
  PROVE  ComesFrom(leaf)
<1>0. /\ ff \in [Threads -> FFType] /\ sw \in [Threads -> SWType] /\ p \in Threads
      /\ p # Ctl /\ Ctl \in Threads
  BY WritersAssumption DEF ChainInv, ChainTypeOK, Producers
<1>1. PICK n \in Chunks[p] :
        /\ given' = [given EXCEPT ![p] = @ + n]
        /\ \/ /\ sw' = [sw EXCEPT ![p] = swStart(chunk(p, n))] /\ ff' = ff
           \/ /\ ff' = [ff EXCEPT ![p] = [ff[p] EXCEPT !.pc = "lock", !.in = chunk(p, n)]]
              /\ sw' = sw /\ ff[p] = FFIdle
  BY DEF WriteDirect, WriteFrames
<1>2. UNCHANGED <<mu, buf, w, cl>>
  BY DEF WriteDirect, WriteFrames
<1>3. PICK c : c = chunk(p, n)
  OBVIOUS
<1>4. \A x \in Elems(c) : x \notin Given
  <2>1. \A x \in Elems(chunk(p, n)) : x \notin Given
    BY <1>1, ChunkGiven
  <2> QED BY <1>3, <2>1
<1>5. swStart(c).f = c /\ FFIdle.pc = "idle"
  <2>1. chunk(p, n) \in Seq(Samples)
    BY ChunkIs
  <2>2. swStart(c).f = c
    BY <1>3, <2>1, SwStartIs
  <2> QED BY <2>2 DEF FFIdle
<1>6. lane' = lane /\ ff'[Ctl] = ff[Ctl]
  <2>1. ff'[Ctl] = ff[Ctl] /\ \A t \in Threads : ff'[t] = ff[t] \/ ff[t].pc = "idle"
    BY <1>0, <1>1, <1>5
  <2>2. mu \in Threads => ff'[mu] = ff[mu]
    BY <2>1 DEF MuInv
  <2> QED BY <1>2, <2>1, <2>2 DEF lane, MuInv
<1>7. over(leaf)' <=> over(leaf)
  BY <1>2, <1>6 DEF over, memOver
<1>8. \A t \in Threads : /\ ff'[t].in \in {c, ff[t].in}
                         /\ sw'[t] = sw[t] \/ sw'[t].f = c
  <2>1. CASE /\ sw' = [sw EXCEPT ![p] = swStart(chunk(p, n))] /\ ff' = ff
    BY <1>0, <1>3, <1>5, <2>1
  <2>2. CASE /\ ff' = [ff EXCEPT ![p] = [ff[p] EXCEPT !.pc = "lock", !.in = chunk(p, n)]]
             /\ sw' = sw
    BY <1>0, <1>3, <2>2 DEF FFType
  <2> QED BY <1>1, <2>1, <2>2
<1> SUFFICES ASSUME NEW y \in comes(leaf)', y \notin comes(leaf), y \in Given PROVE FALSE
  BY DEF ComesFrom
<1>9. y \notin Elems(c)
  BY <1>4
<1>10. \/ \E t \in Threads : y \in Elems(ff'[t].in)
       \/ y \in Elems(lane') /\ ~over(leaf)'
       \/ \E t \in Threads : ahead(t, leaf)' /\ y \in Elems(sw'[t].f)
  BY ComesThen
<1>11. /\ \A t \in Threads : y \notin Elems(ff[t].in)
       /\ ~(y \in Elems(lane) /\ ~over(leaf))
       /\ \A t \in Threads : ~(ahead(t, leaf) /\ y \in Elems(sw[t].f))
  BY ComesIs
<1>12. ASSUME NEW t \in Threads, ahead(t, leaf)', y \in Elems(sw'[t].f) PROVE FALSE
  <2>1. sw'[t] = sw[t]
    BY <1>8, <1>9, <1>12
  <2>2. ahead(t, leaf)
    BY <1>12, <2>1 DEF ahead
  <2> QED BY <1>11, <1>12, <2>1, <2>2
<1> QED BY <1>6, <1>7, <1>8, <1>9, <1>10, <1>11, <1>12

LEMMA ComesFrames ==
  ASSUME NEW leaf \in Leaf, ChainInv, MuInv, LaneInv, NEW t \in Threads,
         FramesLock(t) \/ FlushWrite(t)
  PROVE  ComesFrom(leaf)
<1>0. /\ ff \in [Threads -> FFType] /\ sw \in [Threads -> SWType] /\ None \notin Threads
      /\ Ctl \in Threads
  BY WritersAssumption DEF ChainInv, ChainTypeOK
<1> SUFFICES ASSUME NEW y \in comes(leaf)', y \notin comes(leaf) PROVE FALSE
  BY DEF ComesFrom
<1>1. \/ \E u \in Threads : y \in Elems(ff'[u].in)
      \/ y \in Elems(lane')
      \/ \E u \in Threads : ahead(u, leaf)' /\ y \in Elems(sw'[u].f)
  BY ComesThen
<1>2. /\ \A u \in Threads : y \notin Elems(ff[u].in)
      /\ ~(y \in Elems(lane) /\ ~over(leaf))
      /\ \A u \in Threads : ~(ahead(u, leaf) /\ y \in Elems(sw[u].f))
  BY ComesIs
<1>3. over(leaf) => ff[Ctl].pc \in {"tail", "flushed", "close"}
  BY DEF over, memOver
<1>4. CASE FramesLock(t)
  <2>1. /\ mu = None /\ sw' = sw
        /\ ff' = [ff EXCEPT ![t] = [FFIdle EXCEPT !.pc = "flush", !.it = buf']]
    BY <1>4 DEF FramesLock
  <2>2. [FFIdle EXCEPT !.pc = "flush", !.it = buf'].in = <<>>
    BY DEF FFIdle
  <2>3. \A u \in Threads : ff'[u].in = IF u = t THEN <<>> ELSE ff[u].in
    BY <1>0, <2>1, <2>2
  <2>4. ~over(leaf)
    BY <1>0, <1>3, <2>1 DEF MuInv
  <2>5. y \notin Elems(lane')
    <3>1. Elems(lane') = Elems(lane) \cup Elems(ff[t].in)
      BY <1>4, LaneLock
    <3> QED BY <1>2, <2>4, <3>1
  <2>6. \A u \in Threads : y \notin Elems(ff'[u].in)
    BY <1>2, <2>3, NoElems
  <2>7. \A u \in Threads : ahead(u, leaf)' => ahead(u, leaf)
    BY <2>1 DEF ahead
  <2> QED BY <1>1, <1>2, <2>1, <2>5, <2>6, <2>7
<1>5. CASE FlushWrite(t)
  <2>1. /\ sw' = [sw EXCEPT ![t] = sw'[t]]
        /\ \A u \in Threads : ff'[u].in = ff[u].in
        /\ Elems(lane) = Elems(sw'[t].f) \cup Elems(lane')
        /\ ff[t].pc = "flush"
    BY <1>5, LaneWrite
  <2>2. ~over(leaf)
    <3>1. mu = t
      BY <2>1 DEF MuInv
    <3>2. ff[Ctl].pc \in {"tail", "flushed", "close"} => mu = Ctl
      BY <1>0 DEF MuInv
    <3> QED BY <1>3, <2>1, <3>1, <3>2
  <2>3. y \notin Elems(lane)
    BY <1>2, <2>2
  <2>4. ASSUME NEW u \in Threads, ahead(u, leaf)', y \in Elems(sw'[u].f) PROVE FALSE
    <3>1. CASE u = t
      BY <2>1, <2>3, <2>4, <3>1
    <3>2. CASE u # t
      <4>1. sw'[u] = sw[u]
        BY <1>0, <2>1, <3>2
      <4>2. ahead(u, leaf)
        BY <2>4, <4>1 DEF ahead
      <4> QED BY <1>2, <2>4, <4>1, <4>2
    <3> QED BY <3>1, <3>2
  <2> QED BY <1>1, <1>2, <2>1, <2>3, <2>4
<1> QED BY <1>4, <1>5

LEMMA ComesEnd ==
  ASSUME NEW leaf \in Leaf, ChainInv, MuInv, LaneInv, TargetsInv, MuInv', NEW t \in Threads,
         (t \in Direct /\ WrittenDirect(t)) \/ FlushWritten(t)
  PROVE  ComesFrom(leaf)
<1>0. /\ ff \in [Threads -> FFType] /\ sw \in [Threads -> SWType] /\ None \notin Threads
      /\ Ctl \in Threads /\ Leaf = {"pipe", "mem"}
  BY WritersAssumption DEF ChainInv, ChainTypeOK, Leaf
<1>1. /\ sw'[t].f = <<>>
      /\ \A u \in Threads : /\ ff'[u].in = ff[u].in
                            /\ u # t => sw'[u] = sw[u]
      /\ lane' = lane \/ lane' = <<>>
      /\ lane' = <<>> \/ sw[t].err # None \/ ff[t].pc # "tail"
      /\ t \in Direct => ff' = ff
      /\ t \notin Direct => /\ ff[t].pc \in {"frame", "tail"} /\ mu' = mu /\ mu = t
                            /\ ff'[t].pc \notin {"frame", "tail", "close", "idle", "lock"}
                            /\ ff'[t].pc = "flush" => ff[t].pc = "frame"
  BY LaneEnd
<1>2. w' = w /\ cl' = cl
  BY DEF WrittenDirect, FlushWritten
<1> SUFFICES ASSUME NEW y \in comes(leaf)', y \notin comes(leaf), ~(leaf = "pipe" /\ done)
             PROVE  FALSE
  BY DEF ComesFrom
<1>3. \/ \E u \in Threads : y \in Elems(ff'[u].in)
      \/ y \in Elems(lane') /\ ~over(leaf)'
      \/ \E u \in Threads : ahead(u, leaf)' /\ y \in Elems(sw'[u].f)
  BY ComesThen
<1>4. /\ \A u \in Threads : y \notin Elems(ff[u].in)
      /\ ~(y \in Elems(lane) /\ ~over(leaf))
      /\ \A u \in Threads : ~(ahead(u, leaf) /\ y \in Elems(sw[u].f))
  BY ComesIs
<1>5. ASSUME NEW u \in Threads, ahead(u, leaf)', y \in Elems(sw'[u].f) PROVE FALSE
  <2>1. u # t
    BY <1>1, <1>5, NoElems
  <2>2. sw'[u] = sw[u]
    BY <1>1, <2>1
  <2>3. ahead(u, leaf)
    BY <1>5, <2>2 DEF ahead
  <2> QED BY <1>4, <1>5, <2>2, <2>3
<1>6. y \in Elems(lane') /\ ~over(leaf)'
  BY <1>1, <1>3, <1>4, <1>5
<1>7. y \in Elems(lane) /\ over(leaf) /\ lane' # <<>>
  BY <1>1, <1>4, <1>6, NoElems
<1>8. t \notin Direct
  <2>1. ff' = ff => (over(leaf)' <=> over(leaf))
    BY <1>2 DEF over, memOver
  <2> QED BY <1>1, <1>6, <1>7, <2>1
<1>9. ff[Ctl].pc \in {"tail", "flushed", "close"}
  BY <1>7 DEF over, memOver
<1>10. t = Ctl /\ ff[t].pc = "tail"
  <2>1. mu = Ctl
    BY <1>0, <1>9 DEF MuInv
  <2> QED BY <1>1, <1>8, <1>9, <2>1
<1>11. sw[t].err # None
  BY <1>1, <1>7, <1>10
<1>12. leaf = "mem"
  BY <1>0, <1>11 DEF TargetsInv
<1>13. "mem" \in Elems(w) /\ ff'[Ctl].pc = "flushed"
  <2>1. "mem" \in Elems(w)
    BY <1>7, <1>10, <1>12 DEF over, memOver
  <2>2. ff'[t].pc # "flush"
    BY <1>1, <1>8, <1>10
  <2>3. ff'[t].pc \in {"flush", "flushed"}
    <3>1. FlushWritten(t)
      BY <1>8
    <3>2. \/ ff' = [ff EXCEPT ![t] = [ff[t] EXCEPT !.pc = "flushed", !.err = sw[t].err]]
      BY <1>11, <3>1 DEF FlushWritten
    <3>3. ff[t] \in FFType
      BY <1>0
    <3>4. ff'[t] = [ff[t] EXCEPT !.pc = "flushed", !.err = sw[t].err]
      BY <1>0, <3>2
    <3> QED BY <3>3, <3>4 DEF FFType
  <2> QED BY <1>10, <2>1, <2>2, <2>3
<1> QED BY <1>2, <1>6, <1>12, <1>13 DEF over, memOver

LEMMA ComesSteps ==
  ASSUME NEW leaf \in Leaf, ChainInv, MuInv, LaneInv, Delivery, TargetsInv, MuInv', [Next]_vars
  PROVE  ComesFrom(leaf)
<1>1. Direct \cup Framed \subseteq Threads /\ Direct \cup Framed = Producers
  BY WritersAssumption DEF Producers
<1>2. CASE Calls
  BY <1>1, <1>2, ComesStill, ComesGiven DEF Calls
<1>3. ReadPipe \/ UNCHANGED vars => UNCHANGED chainVars
  BY DEF ReadPipe, vars
<1>4. ASSUME NEW t \in Threads, Running(t) PROVE ComesFrom(leaf)
  <2>1. CASE PipeStep(t) /\ UNCHANGED chainVars
    BY <2>1, ComesStill
  <2>2. CASE \/ SwitchLoad(t) \/ WriteMem(t) \/ WritePipe(t) \/ WrittenPipe(t)
             \/ FlushEnd(t) \/ (t = Ctl /\ FramesClosed) \/ CloseMem(t) \/ ClosePipe(t)
    BY <2>2, ComesStill
  <2>3. CASE FramesLock(t) \/ FlushWrite(t)
    BY <2>3, ComesFrames
  <2>4. CASE (t \in Direct /\ WrittenDirect(t)) \/ FlushWritten(t)
    BY <2>4, ComesEnd
  <2> QED BY <1>4, <2>1, <2>2, <2>3, <2>4 DEF Running
<1> QED BY <1>2, <1>3, <1>4, ComesStill DEF Next

----------------------------------------------------------------------------
(* The order at the ends of the chain.                                     *)

\* A frame that its writer has goes before what the writer may still get.
LEMMA FrameFirst ==
  Quiet /\ MuInv /\ LaneInv =>
    \A t \in Threads, leaf \in Leaf :
       /\ sw[t].pc # "idle" /\ ~ahead(t, leaf) /\ (ff[t].pc = "tail" => over(leaf))
       => AllBefore(Elems(sw[t].f), comes(leaf))
<1> SUFFICES ASSUME Quiet, MuInv, LaneInv, NEW t \in Threads, NEW leaf \in Leaf,
                    sw[t].pc # "idle", ~ahead(t, leaf), ff[t].pc = "tail" => over(leaf),
                    NEW x \in Elems(sw[t].f), NEW y \in comes(leaf)
             PROVE  Before(x, y)
  BY DEF AllBefore
<1>1. \/ \E u \in Threads : y \in Elems(ff[u].in)
      \/ y \in Elems(lane) /\ ~over(leaf)
      \/ \E u \in Threads : ahead(u, leaf) /\ y \in Elems(sw[u].f)
  BY ComesIs
<1>2. CASE \E u \in Threads : y \in Elems(ff[u].in)
  BY <1>2 DEF LaneInv, AllBefore
<1>3. CASE y \in Elems(lane) /\ ~over(leaf)
  <2>1. CASE t \in Direct
    <3>1. x[1] \in Direct /\ y[1] \in Framed
      BY <1>3, <2>1 DEF LaneInv
    <3>2. Framed \cap Direct = {}
      BY WritersAssumption
    <3> QED BY <3>1, <3>2 DEF Before
  <2>2. CASE t \notin Direct
    <3>1. ff[t].pc = "frame"
      BY <1>3, <2>2 DEF Quiet
    <3>2. mu = t /\ t # None
      BY <3>1, WritersAssumption DEF MuInv
    <3>3. lane = ff[t].it
      BY <3>1, <3>2 DEF lane
    <3> QED BY <1>3, <3>1, <3>3 DEF LaneInv, AllBefore
  <2> QED BY <2>1, <2>2
<1>4. ASSUME NEW u \in Threads, ahead(u, leaf), y \in Elems(sw[u].f) PROVE Before(x, y)
  <2>1. u # t
    BY <1>4
  <2>2. x[1] # y[1]
    BY <1>4, <2>1, Apart
  <2> QED BY <2>2 DEF Before
<1> QED BY <1>1, <1>2, <1>3, <1>4

LEMMA FrameThen ==
  (Quiet /\ MuInv /\ LaneInv =>
    \A t \in Threads, leaf \in Leaf :
       /\ sw[t].pc # "idle" /\ ~ahead(t, leaf) /\ (ff[t].pc = "tail" => over(leaf))
       => AllBefore(Elems(sw[t].f), comes(leaf)))'
BY FrameFirst, PTL

LEMMA GivenSteps ==
  ASSUME ChainInv, MuInv, LaneInv, [Next]_vars
  PROVE  /\ Given \subseteq Given'
         /\ \A x \in Given, y \in Given' : y \notin Given => Before(x, y)
<1>1. given' = given => Given' = Given
  BY DEF Given
<1>2. Direct \cup Framed \subseteq Producers
  BY DEF Producers
<1>3. ASSUME NEW p \in Producers, WriteDirect(p) \/ WriteFrames(p)
      PROVE  /\ Given \subseteq Given'
             /\ \A x \in Given, y \in Given' : y \notin Given => Before(x, y)
  <2>1. PICK n \in Chunks[p] : given' = [given EXCEPT ![p] = @ + n]
    BY <1>3 DEF WriteDirect, WriteFrames
  <2> QED BY <2>1, ChunkGiven
<1>4. Stay => given' = given
  BY DEF Stay
<1>5. \A t : WrittenDirect(t) \/ FramesLock(t) \/ FlushWrite(t) \/ FlushWritten(t) => given' = given
  BY DEF WrittenDirect, FramesLock, FlushWrite, FlushWritten
<1> QED BY <1>1, <1>2, <1>3, <1>4, <1>5, Steps

LEMMA ComesGivenAll ==
  ASSUME LaneInv', NEW leaf PROVE comes(leaf)' \subseteq Given'
BY ComesThen DEF LaneInv

\* What was before all that a writer may get still is.
LEMMA StillBefore ==
  ASSUME NEW leaf \in Leaf, ChainInv, MuInv, LaneInv, Delivery, TargetsInv, MuInv', LaneInv',
         [Next]_vars, NEW x \in Given, NEW y \in comes(leaf)',
         y \in comes(leaf) => Before(x, y),
         ~(leaf = "mem" /\ ~mem'.open), ~(leaf = "pipe" /\ done)
  PROVE  Before(x, y)
<1>1. y \in comes(leaf) \/ y \notin Given
  BY ComesSteps DEF ComesFrom
<1>2. y \in Given'
  BY ComesGivenAll
<1> QED BY <1>1, <1>2, GivenSteps

LEMMA TakenIs ==
  ASSUME PipeInv, NEW t \in Threads PROVE taken(t) \in Nat
<1>1. call[t].n \in Nat /\ Len(call[Rd].b) \in Nat
  BY WritersAssumption, LenProperties DEF PipeInv, PipeTypeOK, CallType
<1> QED BY <1>1 DEF taken

\* A transfer.
LEMMA OrderTransfer ==
  ASSUME PipeInv, ChainInv, ErrInv, Quiet, MuInv, LaneInv, TargetsInv, PipeOrder,
         NEW t \in Threads, NEW r \in Threads \ {t}, Transfer(t, r), UNCHANGED chainVars
  PROVE  PipeOrder'
<1>1. PICK k \in Nat : /\ taken(t) + k <= Len(call[t].b) /\ taken(t)' = taken(t) + k
                       /\ got' = got \o SubSeq(call[t].b, taken(t) + 1, taken(t) + k)
  BY LiveTransfer
<1>2. /\ live(call[t]) /\ call'[t].b = call[t].b
      /\ \A u \in Threads : live(call'[u]) =>
           live(call[u]) /\ call'[u].b = call[u].b /\ (u # t => taken(u)' = taken(u))
  BY LiveTransfer
<1>3. PICK b, m, d : b = call[t].b /\ m = taken(t) /\ d = SubSeq(b, m + 1, m + k)
  OBVIOUS
<1>4. /\ b \in Seq(Samples) /\ Len(b) \in Nat /\ m \in Nat /\ m + k <= Len(b)
      /\ got \in Seq(Samples) /\ got' = got \o d /\ taken(t)' = m + k
  BY <1>1, <1>3, TakenIs, LenProperties DEF PipeInv, PipeTypeOK, CallType
<1>5. d \in Seq(Samples) /\ Len(d) = k /\ \A i \in 1..k : d[i] = b[m + i]
  <2>1. PICK p, z : p = m + 1 /\ z = m + k
    OBVIOUS
  <2>2. p \in 1..Len(b) + 1 /\ z \in 0..Len(b) /\ p - 1 <= z
    BY <1>4, <2>1
  <2>3. /\ SubSeq(b, p, z) \in Seq(Samples) /\ Len(SubSeq(b, p, z)) = z - p + 1
        /\ \A i \in 1..z - p + 1 : SubSeq(b, p, z)[i] = b[p + i - 1]
    BY <1>4, <2>2, SliceProperties
  <2>4. z - p + 1 = k /\ \A i \in 1..k : p + i - 1 = m + i
    BY <1>4, <2>1
  <2>5. d = SubSeq(b, p, z)
    BY <1>3, <2>1
  <2> QED BY <2>3, <2>4, <2>5
<1>6. /\ sw[t].pc = "called" /\ b = sw[t].f
      /\ inOrder(b) /\ \A x \in Elems(b) : x \in Given
  BY <1>2, <1>3 DEF TargetsInv, LaneInv
<1>7. \A i, j \in 1..Len(b) : i < j => Before(b[i], b[j])
  BY <1>4, <1>6, OrderIs
<1>8. \A i \in 1..k : m + i \in 1..Len(b) /\ m + i \in m + 1..Len(b)
  BY <1>4
<1>9. Elems(d) \subseteq Elems(b)
  <2>1. \A x \in Elems(d) : \E i \in 1..k : x = b[m + i]
    BY <1>5, ElemsOf
  <2>2. \A i \in 1..Len(b) : b[i] \in Elems(b)
    BY <1>4, ElemsOf
  <2> QED BY <1>8, <2>1, <2>2
<1>10. inOrder(d)
  <2>1. ASSUME NEW i \in 1..k, NEW j \in 1..k, i < j PROVE Before(d[i], d[j])
    <3>1. m + i < m + j
      BY <1>4, <2>1
    <3> QED BY <1>5, <1>7, <1>8, <3>1
  <2> QED BY <1>5, <2>1, OrderIs
<1>11. AllBefore(Elems(got), Elems(d))
  <2> SUFFICES ASSUME NEW x \in Elems(got), NEW y \in Elems(d) PROVE Before(x, y)
    BY DEF AllBefore
  <2>1. PICK i \in 1..k : y = b[m + i]
    BY <1>5, ElemsOf
  <2>2. \A j \in m + 1..Len(b) : Before(x, b[j])
    BY <1>2, <1>3 DEF PipeOrder
  <2> QED BY <1>8, <2>1, <2>2
<1>12. Elems(got') = Elems(got) \cup Elems(d)
  BY <1>4, <1>5, ElemsConcat
<1>13. Given' = Given /\ comes("pipe")' = comes("pipe") /\ sw' = sw /\ done' = done
  BY DEF chainVars, Given, comes, heldFor, over, memOver, lane, ahead, waiting, Transfer
<1>14. Elems(got') \subseteq Given' /\ inOrder(got')
  <2>1. Elems(got) \subseteq Given /\ inOrder(got)
    BY DEF PipeOrder
  <2>2. inOrder(got \o d)
    BY <1>4, <1>5, <1>10, <1>11, <2>1, OrderConcat
  <2> QED BY <1>4, <1>6, <1>9, <1>12, <1>13, <2>1, <2>2
<1>15. ASSUME NEW u \in Threads, live(call'[u]), NEW x \in Elems(got'),
              NEW i \in taken(u)' + 1..Len(call'[u].b)
       PROVE  Before(x, call'[u].b[i])
  <2>1. CASE u = t
    <3>1. i \in m + k + 1..Len(b) /\ call'[u].b = b
      BY <1>2, <1>3, <1>4, <1>15, <2>1
    <3>2. i \in m + 1..Len(b) /\ i \in 1..Len(b)
      BY <1>4, <3>1
    <3>3. CASE x \in Elems(got)
      <4>1. \A j \in m + 1..Len(b) : Before(x, b[j])
        BY <1>2, <1>3, <3>3 DEF PipeOrder
      <4> QED BY <3>1, <3>2, <4>1
    <3>4. CASE x \in Elems(d)
      <4>1. PICK j \in 1..k : x = b[m + j]
        BY <1>5, <3>4, ElemsOf
      <4>2. m + j < i
        BY <1>4, <3>1
      <4> QED BY <1>7, <1>8, <3>1, <3>2, <4>1, <4>2
    <3> QED BY <1>12, <1>15, <3>3, <3>4
  <2>2. CASE u # t
    <3>1. live(call[u]) /\ call'[u].b = call[u].b /\ taken(u)' = taken(u)
      BY <1>2, <1>15, <2>2
    <3>2. CASE x \in Elems(got)
      BY <1>15, <3>1, <3>2 DEF PipeOrder
    <3>3. CASE x \in Elems(d)
      <4>1. call[u].b = sw[u].f /\ call[u].b \in Seq(Samples)
        BY <3>1 DEF TargetsInv, PipeInv, PipeTypeOK, CallType
      <4>2. taken(u) \in Nat /\ Len(call[u].b) \in Nat
        BY <4>1, TakenIs, LenProperties
      <4>3. i \in 1..Len(call[u].b)
        BY <1>15, <3>1, <4>2
      <4>4. call[u].b[i] \in Elems(sw[u].f)
        BY <4>1, <4>3, ElemsOf
      <4>5. x[1] # call[u].b[i][1]
        BY <1>6, <1>9, <2>2, <3>3, <4>4, Apart
      <4> QED BY <3>1, <4>5 DEF Before
    <3> QED BY <1>12, <1>15, <3>2, <3>3
  <2> QED BY <2>1, <2>2
<1>16. ASSUME ~done', NEW x \in Elems(got'), NEW y \in comes("pipe")' PROVE Before(x, y)
  <2>1. y \in comes("pipe")
    BY <1>13
  <2>2. CASE x \in Elems(got)
    BY <1>13, <1>16, <2>1, <2>2 DEF PipeOrder, AllBefore
  <2>3. CASE x \in Elems(d)
    <3>1. ~ahead(t, "pipe") /\ "pipe" \in Leaf
      BY <1>6 DEF ahead, Leaf
    <3>2. ff[t].pc = "tail" => over("pipe")
      BY DEF LaneInv, over
    <3>3. AllBefore(Elems(sw[t].f), comes("pipe"))
      BY <1>6, <3>1, <3>2, FrameFirst
    <3> QED BY <1>6, <1>9, <2>1, <2>3, <3>3 DEF AllBefore
  <2> QED BY <1>12, <1>16, <2>2, <2>3
<1> QED BY <1>14, <1>15, <1>16 DEF PipeOrder, AllBefore

\* A step that hands nothing over.
LEMMA OrderStill ==
  ASSUME ChainInv, MuInv, LaneInv, Delivery, TargetsInv, PipeOrder, MuInv', LaneInv',
         [Next]_vars, got' = got, done => done',
         \A u \in Threads : live(call'[u]) =>
            \A x \in Elems(got), i \in taken(u)' + 1..Len(call'[u].b) : Before(x, call'[u].b[i])
  PROVE  PipeOrder'
<1>1. Given \subseteq Given'
  BY GivenSteps
<1>2. Elems(got') \subseteq Given' /\ inOrder(got')
  BY <1>1 DEF PipeOrder
<1>3. ASSUME ~done', NEW x \in Elems(got'), NEW y \in comes("pipe")' PROVE Before(x, y)
  <2>1. ~done /\ x \in Given /\ "pipe" \in Leaf
    BY <1>3 DEF PipeOrder, Leaf
  <2>2. y \in comes("pipe") => Before(x, y)
    BY <1>3, <2>1 DEF PipeOrder, AllBefore
  <2> QED BY <1>3, <2>1, <2>2, StillBefore
<1> QED BY <1>2, <1>3 DEF PipeOrder, AllBefore

LEMMA OrderLive ==
  ASSUME PipeOrder, LiveStays
  PROVE  \A u \in Threads : live(call'[u]) =>
            \A x \in Elems(got), i \in taken(u)' + 1..Len(call'[u].b) : Before(x, call'[u].b[i])
BY DEF PipeOrder, LiveStays

\* A write begins: the frame is one that the pipe was still to get.
LEMMA OrderWrite ==
  ASSUME PipeInv, ChainInv, LaneInv, PipeOrder, NEW t \in Threads, WritePipe(t)
  PROVE  \A u \in Threads : live(call'[u]) =>
            \A x \in Elems(got), i \in taken(u)' + 1..Len(call'[u].b) : Before(x, call'[u].b[i])
<1>0. /\ call \in [Threads -> CallType] /\ sw[t].f \in Seq(Samples) /\ sw[t].ts \in Seq(Leaf)
      /\ Rd \in Threads
  BY WritersAssumption, ChainTypes DEF PipeInv, PipeTypeOK, SWType
<1> DEFINE c == IF done THEN Ret(writeCloseError)
                ELSE [Idle EXCEPT !.pc = "lock", !.b = sw[t].f]
<1>1. /\ sw[t].pc = "each" /\ sw[t].ts # <<>> /\ Head(sw[t].ts) = "pipe"
      /\ call[t].pc = "ret" /\ call' = [call EXCEPT ![t] = c]
  BY DEF WritePipe, Write, free
<1>2. live(c) => ~done /\ c.b = sw[t].f /\ c.n = 0 /\ c.pc = "lock"
  BY DEF live, Idle, Ret
<1>3. c.pc # "answer"
  BY DEF Idle, Ret
<1> HIDE DEF c
<1>4. t # Rd
  BY <1>1, ChainTypes
<1>5. /\ call'[t] = c /\ call'[Rd] = call[Rd]
      /\ \A u \in Threads : u # t => call'[u] = call[u]
  BY <1>0, <1>1, <1>4
<1> SUFFICES ASSUME NEW u \in Threads, live(call'[u]), NEW x \in Elems(got),
                    NEW i \in taken(u)' + 1..Len(call'[u].b)
             PROVE  Before(x, call'[u].b[i])
  OBVIOUS
<1>6. CASE u = t
  <2>1. taken(u)' = c.n + 0 /\ c.n = 0
    BY <1>2, <1>5, <1>6 DEF taken
  <2>2. ~done /\ call'[u].b = sw[t].f
    BY <1>2, <1>5, <1>6
  <2>3. Len(sw[t].f) \in Nat
    BY <1>0, LenProperties
  <2>4. i \in 1..Len(sw[t].f)
    BY <2>1, <2>2, <2>3
  <2>5. sw[t].f[i] \in Elems(sw[t].f)
    BY <1>0, <2>4, ElemsOf
  <2>6. ahead(t, "pipe")
    <3>1. "pipe" \in Elems(sw[t].ts)
      BY <1>0, <1>1, RestIs
    <3> QED BY <1>1, <3>1 DEF ahead
  <2>7. sw[t].f[i] \in comes("pipe")
    BY <2>5, <2>6, ComesIs
  <2> QED BY <2>2, <2>7 DEF PipeOrder, AllBefore
<1>7. CASE u # t
  <2>1. call'[u] = call[u]
    BY <1>5, <1>7
  <2>2. taken(u)' = taken(u)
    BY <1>5, <2>1 DEF taken
  <2> QED BY <2>1, <2>2 DEF PipeOrder
<1> QED BY <1>6, <1>7

LEMMA PipeOrderSteps ==
  ASSUME PipeInv, ChainInv, ErrInv, Quiet, Delivery, MuInv, LaneInv, TargetsInv, PipeOrder,
         MuInv', LaneInv', [Next]_vars
  PROVE  PipeOrder'
<1>1. CASE \E t \in Threads, r \in Threads : r # t /\ Transfer(t, r) /\ UNCHANGED chainVars
  BY <1>1, OrderTransfer
<1>2. CASE \E t \in Threads : WritePipe(t)
  <2>1. PICK t \in Threads : WritePipe(t)
    BY <1>2
  <2>2. got' = got /\ done' = done
    BY <2>1 DEF WritePipe, Write
  <2> QED BY <2>1, <2>2, OrderWrite, OrderStill
<1>3. CASE LiveStays /\ got' = got /\ (done => done')
  BY <1>3, OrderLive, OrderStill
<1>4. done => done'
  <2>1. PipeMove
    BY PipeMoves
  <2> QED BY <2>1 DEF PipeMove, PipeStep, Lock, WriteClosed, ReadClosed, CloseDone, Transfer,
             Answer, Read, CloseRead, CloseWrite, Write, pipeVars
<1>5. \/ \E t \in Threads, r \in Threads : r # t /\ Transfer(t, r) /\ UNCHANGED chainVars
      \/ \E t \in Threads : WritePipe(t)
      \/ \E t \in Threads : \/ Lock(t) \/ WriteClosed(t) \/ ReadClosed(t) \/ CloseDone(t)
                            \/ \E r \in Threads \ {t} : Answer(t, r)
      \/ \E n \in Nat : Read(Rd, n)
      \/ \E err \in {None, "err"} : CloseRead(RdCloser, err)
      \/ \E t \in Threads : CloseWrite(t, None)
      \/ UNCHANGED pipeVars
  <2>1. CASE Calls
    BY <2>1 DEF Calls, WriteDirect, WriteFrames, CloseFrames, Swap, EnableDisable, CloseReader
  <2>2. CASE ReadPipe
    <3>1. Buffers \subseteq Nat
      BY WritersAssumption
    <3> QED BY <2>2, <3>1 DEF ReadPipe
  <2>3. CASE UNCHANGED vars
    BY <2>3 DEF vars
  <2>4. ASSUME NEW t \in Threads, Running(t)
        PROVE  \/ PipeStep(t) /\ UNCHANGED chainVars
               \/ WritePipe(t) \/ CloseWrite(t, None) \/ UNCHANGED pipeVars
    <3>1. CASE SwitchLoad(t) \/ WriteMem(t) \/ WrittenPipe(t) \/ WrittenDirect(t) \/ FramesLock(t)
      BY <3>1 DEF SwitchLoad, WriteMem, WrittenPipe, WrittenDirect, FramesLock
    <3>2. CASE FlushWrite(t) \/ FlushWritten(t) \/ FlushEnd(t) \/ FramesClosed \/ CloseMem(t)
      BY <3>2 DEF FlushWrite, FlushWritten, FlushEnd, FramesClosed, CloseMem
    <3>3. CASE ClosePipe(t)
      BY <3>3 DEF ClosePipe
    <3> QED BY <2>4, <3>1, <3>2, <3>3 DEF Running
  <2>5. ASSUME NEW t \in Threads, PipeStep(t), UNCHANGED chainVars
        PROVE  \/ \E u \in Threads, r \in Threads : r # u /\ Transfer(u, r) /\ UNCHANGED chainVars
               \/ \E u \in Threads : \/ Lock(u) \/ WriteClosed(u) \/ ReadClosed(u) \/ CloseDone(u)
                                     \/ \E r \in Threads \ {u} : Answer(u, r)
    BY <2>5 DEF PipeStep
  <2> QED BY <2>1, <2>2, <2>3, <2>4, <2>5 DEF Next
<1> QED BY <1>1, <1>2, <1>3, <1>4, <1>5, LiveSteps

\* The buffer in memory: whose write it takes has given it to no other writer twice.
LEMMA MemWritten ==
  ASSUME ChainInv, Quiet, Delivery, MuInv, LaneInv, TargetsInv, MemOrder,
         Quiet', MuInv', LaneInv', [Next]_vars, NEW t \in Threads, WriteMem(t), mem.open
  PROVE  MemOrder'
<1>1. /\ sw[t].pc = "each" /\ sw[t].ts # <<>> /\ Head(sw[t].ts) = "mem"
      /\ mem' = [mem EXCEPT !.buf = mem.buf \o sw[t].f] /\ ff' = ff
  BY DEF WriteMem, memWrite
<1>2. /\ sw[t].f \in Seq(Samples) /\ sw[t].ts \in Seq(Leaf) /\ mem.buf \in Seq(Samples)
      /\ sw \in [Threads -> SWType] /\ "mem" \in Leaf /\ "pipe" \in Leaf
  BY ChainTypes DEF SWType, Delivery, MemType, ChainInv, ChainTypeOK, Leaf
<1>3. mem'.buf = mem.buf \o sw[t].f /\ mem'.open = mem.open
  BY <1>1 DEF Delivery, MemType
<1>4. "mem" \in Elems(sw[t].ts)
  BY <1>1, <1>2, RestIs
<1>5. Elems(sw[t].f) \subseteq comes("mem")
  BY <1>1, <1>4, ComesIs DEF ahead
<1>6. AllBefore(Elems(mem.buf), Elems(sw[t].f))
  BY <1>5 DEF MemOrder, AllBefore
<1>7. inOrder(sw[t].f) /\ Elems(sw[t].f) \subseteq Given
  BY DEF LaneInv
<1>8. Elems(mem'.buf) = Elems(mem.buf) \cup Elems(sw[t].f)
  BY <1>2, <1>3, ElemsConcat
<1>9. Elems(mem'.buf) \subseteq Given' /\ inOrder(mem'.buf)
  BY <1>2, <1>3, <1>6, <1>7, <1>8, GivenSteps, OrderConcat DEF MemOrder
<1>10. sw'[t].f = sw[t].f /\ sw'[t].pc = "each"
  <2>1. sw' = [sw EXCEPT ![t] = nextTarget(sw[t], None)]
    BY DEF WriteMem
  <2>2. nextTarget(sw[t], None).f = sw[t].f /\ nextTarget(sw[t], None).pc = "each"
    BY <1>2 DEF nextTarget, SWType
  <2> QED BY <1>2, <2>1, <2>2
<1>11. ff'[t].pc = "tail" => over("mem")'
  <2> SUFFICES ASSUME ff[t].pc = "tail" PROVE over("mem")'
    BY <1>1
  <2>1. t = Ctl
    BY DEF LaneInv
  <2>2. "mem" \in Elems(w)
    BY <1>1, <1>4, <2>1 DEF TargetsInv
  <2>3. w' = w
    BY DEF WriteMem
  <2> QED BY <1>1, <2>1, <2>2, <2>3 DEF over, memOver
<1>12. ~ahead(t, "mem")'
  BY <1>2, AheadSteps
<1>13. AllBefore(Elems(sw'[t].f), comes("mem")')
  BY <1>2, <1>10, <1>11, <1>12, FrameThen DEF AllBefore
<1>14. ASSUME NEW x \in Elems(mem'.buf), NEW y \in comes("mem")' PROVE Before(x, y)
  <2>1. CASE x \in Elems(sw[t].f)
    BY <1>10, <1>13, <1>14, <2>1 DEF AllBefore
  <2>2. CASE x \in Elems(mem.buf)
    <3>1. x \in Given /\ (y \in comes("mem") => Before(x, y))
      BY <2>2 DEF MemOrder, AllBefore
    <3> QED BY <1>2, <1>3, <1>14, <3>1, StillBefore
  <2> QED BY <1>8, <1>14, <2>1, <2>2
<1> QED BY <1>9, <1>14 DEF MemOrder, AllBefore

LEMMA MemOrderSteps ==
  ASSUME ChainInv, Quiet, Delivery, MuInv, LaneInv, TargetsInv, MemOrder,
         Quiet', MuInv', LaneInv', [Next]_vars
  PROVE  MemOrder'
<1>1. CASE \E t \in Threads : WriteMem(t) /\ mem.open
  BY <1>1, MemWritten
<1>2. CASE mem'.buf = mem.buf /\ (mem'.open => mem.open)
  <2>1. Elems(mem'.buf) \subseteq Given' /\ inOrder(mem'.buf)
    BY <1>2, GivenSteps DEF MemOrder
  <2>2. ASSUME mem'.open, NEW x \in Elems(mem'.buf), NEW y \in comes("mem")' PROVE Before(x, y)
    <3>1. x \in Given /\ (y \in comes("mem") => Before(x, y)) /\ "mem" \in Leaf
      BY <1>2, <2>2 DEF MemOrder, AllBefore, Leaf
    <3> QED BY <2>2, <3>1, StillBefore
  <2> QED BY <2>1, <2>2 DEF MemOrder, AllBefore
<1>3. \/ \E t \in Threads : WriteMem(t) /\ mem.open
      \/ mem'.buf = mem.buf /\ (mem'.open => mem.open)
  <2>1. \A t : WriteMem(t) => mem.open \/ mem' = mem
    <3> SUFFICES ASSUME NEW t, WriteMem(t), ~mem.open PROVE mem' = mem
      OBVIOUS
    <3>1. mem' = [mem EXCEPT !.buf = mem.buf]
      BY DEF WriteMem, memWrite
    <3> QED BY <3>1 DEF Delivery, MemType
  <2>2. \A t : CloseMem(t) => mem'.buf = mem.buf /\ ~mem'.open
    <3> SUFFICES ASSUME NEW t, CloseMem(t) PROVE mem'.buf = mem.buf /\ ~mem'.open
      OBVIOUS
    <3>1. mem' = [mem EXCEPT !.open = FALSE]
      BY DEF CloseMem
    <3> QED BY <3>1 DEF Delivery, MemType
  <2>3. CASE Calls
    BY <2>3 DEF Calls, WriteDirect, WriteFrames, CloseFrames, Swap, EnableDisable, CloseReader
  <2>4. CASE ReadPipe \/ UNCHANGED vars
    BY <2>4 DEF ReadPipe, vars, chainVars
  <2>5. ASSUME NEW t \in Threads, Running(t) PROVE mem' = mem \/ WriteMem(t) \/ CloseMem(t)
    <3>1. CASE SwitchLoad(t) \/ WritePipe(t) \/ WrittenPipe(t) \/ WrittenDirect(t) \/ FramesLock(t)
      BY <3>1 DEF SwitchLoad, WritePipe, WrittenPipe, WrittenDirect, FramesLock
    <3>2. CASE FlushWrite(t) \/ FlushWritten(t) \/ FlushEnd(t) \/ FramesClosed \/ ClosePipe(t)
      BY <3>2 DEF FlushWrite, FlushWritten, FlushEnd, FramesClosed, ClosePipe
    <3>3. CASE PipeStep(t) /\ UNCHANGED chainVars
      BY <3>3 DEF chainVars
    <3> QED BY <2>5, <3>1, <3>2, <3>3 DEF Running
  <2> QED BY <2>1, <2>2, <2>3, <2>4, <2>5 DEF Next
<1> QED BY <1>1, <1>2, <1>3

LEMMA OnePlace ==
  ASSUME Quiet, MuInv, LaneInv, NEW x \in Given
  PROVE  /\ ~(x \in waiting /\ x \in held) /\ ~(x \in waiting /\ x \in writing)
         /\ ~(x \in held /\ x \in writing)
<1>0. /\ x[2] \in Nat /\ Framed \cap Direct = {} /\ None \notin Threads
  BY WritersAssumption DEF Given, Samples
<1>1. ~Before(x, x)
  BY <1>0 DEF Before
<1>2. /\ x \in waiting <=> \E t \in Threads : x \in Elems(ff[t].in)
      /\ x \in writing <=> \E t \in Threads : x \in Elems(sw[t].f)
      /\ x \in held <=> x \in Elems(lane) /\ ff[Ctl].pc # "tail"
  BY PlacesAre
<1>3. ~(x \in waiting /\ x \in held) /\ ~(x \in waiting /\ x \in writing)
  <2> SUFFICES ASSUME x \in waiting, x \in held \/ x \in writing PROVE FALSE
    OBVIOUS
  <2>1. PICK t \in Threads : x \in Elems(ff[t].in)
    BY <1>2
  <2>2. PICK u \in Threads : x \in Elems(sw[u].f) \cup Elems(lane)
    BY <1>2, <2>1
  <2> QED BY <1>1, <2>1, <2>2 DEF LaneInv, AllBefore
<1>4. ~(x \in held /\ x \in writing)
  <2> SUFFICES ASSUME x \in held, x \in writing PROVE FALSE
    OBVIOUS
  <2>1. PICK t \in Threads : x \in Elems(sw[t].f)
    BY <1>2
  <2>2. x \in Elems(lane) /\ ff[Ctl].pc # "tail"
    BY <1>2
  <2>3. t \notin Direct
    BY <1>0, <2>1, <2>2 DEF LaneInv
  <2>4. sw[t].pc # "idle"
    BY <2>1, NoElems DEF LaneInv
  <2>5. ff[t].pc = "frame"
    BY <2>2, <2>3, <2>4 DEF Quiet, LaneInv
  <2>6. lane = ff[t].it
    <3>1. mu = t /\ t # None
      BY <1>0, <2>5 DEF MuInv
    <3> QED BY <2>5, <3>1 DEF lane
  <2> QED BY <1>1, <2>1, <2>2, <2>5, <2>6 DEF LaneInv, AllBefore
<1> QED BY <1>3, <1>4

LEMMA Accounted ==
  ASSUME Quiet, OrderInv PROVE SamplesAccounted
<1>0. MuInv /\ LaneInv /\ Kept /\ PipeOrder /\ MemOrder
  BY DEF OrderInv
<1>1. inOrder(got) /\ inOrder(mem.buf)
  BY <1>0 DEF PipeOrder, MemOrder
<1> SUFFICES ASSUME NEW p \in Producers, NEW k \in 1..given[p]
             PROVE  LET s == <<p, k>>
                        places == {x \in {"waiting", "held", "writing"} :
                                     s \in CASE x = "waiting" -> waiting
                                             [] x = "held" -> held
                                             [] x = "writing" -> writing}
                    IN  /\ Cardinality(places) <= 1
                        /\ places = {} => settling(s) # {}
                        /\ places # {} => \A e \in settling(s) :
                                            e.err # None /\ Len(e.f) < FrameSize
  BY <1>1 DEF SamplesAccounted
<1> DEFINE s == <<p, k>>
           places == {x \in {"waiting", "held", "writing"} :
                        s \in CASE x = "waiting" -> waiting
                                [] x = "held" -> held
                                [] x = "writing" -> writing}
<1>2. s \in Given
  <2>1. s \in Samples /\ s[1] = p /\ s[2] = k
    BY DEF Samples
  <2> QED BY <2>1 DEF Given
<1>3. /\ "waiting" \in places <=> s \in waiting
      /\ "held" \in places <=> s \in held
      /\ "writing" \in places <=> s \in writing
      /\ places \subseteq {"waiting", "held", "writing"}
  OBVIOUS
<1> HIDE DEF s, places
<1>4. /\ ~(s \in waiting /\ s \in held) /\ ~(s \in waiting /\ s \in writing)
      /\ ~(s \in held /\ s \in writing)
  BY <1>0, <1>2, OnePlace
<1>5. places = {} \/ \E z : places = {z}
  BY <1>3, <1>4
<1>6. Cardinality(places) <= 1
  <2>1. CASE places = {}
    <3>1. Cardinality(places) = 0
      BY <2>1, FS_EmptySet
    <3> QED BY <3>1
  <2>2. CASE \E z : places = {z}
    <3>1. Cardinality(places) = 1
      BY <2>2, FS_Singleton
    <3> QED BY <3>1
  <2> QED BY <1>5, <2>1, <2>2
<1>7. places = {} => settling(s) # {}
  BY <1>0, <1>2, <1>3 DEF Kept
<1>8. places # {} => \A e \in settling(s) : e.err # None /\ Len(e.f) < FrameSize
  <2>1. places # {} => s \in waiting \cup held \cup writing
    BY <1>3
  <2> QED BY <1>0, <2>1 DEF Kept
<1> QED BY <1>6, <1>7, <1>8 DEF s, places

LEMMA OrderStarts ==
  ASSUME \A v \in Targets : NoRepeat(v), Init
  PROVE  OrderInv
<1>1. /\ mu = None /\ buf = <<>> /\ ff = [t \in Threads |-> FFIdle] /\ w \in Targets
      /\ sw = [t \in Threads |-> SWIdle] /\ mem = [buf |-> <<>>, open |-> TRUE]
      /\ given = [p \in Producers |-> 0] /\ ended = {}
      /\ call = [t \in Threads |-> Idle] /\ got = <<>>
  BY DEF Init, PipeInit
<1>2. /\ FFIdle.pc = "idle" /\ FFIdle.in = <<>>
      /\ SWIdle.pc = "idle" /\ SWIdle.f = <<>> /\ SWIdle.ts = <<>> /\ SWIdle.err = None
      /\ Idle.pc = "ret"
  BY DEF FFIdle, SWIdle, Idle, Ret
<1>3. /\ Ctl \in Threads /\ None \notin Threads
  BY WritersAssumption
<1>4. \A t \in Threads : ff[t] = FFIdle /\ sw[t] = SWIdle /\ call[t] = Idle
  BY <1>1
<1>5. lane = <<>> /\ Given = {}
  <2>1. lane = <<>>
    BY <1>1 DEF lane
  <2>2. ASSUME NEW x \in Given PROVE FALSE
    <3>1. x \in Samples /\ x[1] \in Producers /\ x[2] \in 1..given[x[1]]
      BY DEF Given, Samples
    <3> QED BY <1>1, <3>1
  <2> QED BY <2>1, <2>2
<1>6. MuInv
  BY <1>1, <1>2, <1>3, <1>4 DEF MuInv
<1>7. LaneInv
  BY <1>2, <1>4, <1>5, NoElems DEF LaneInv, AllBefore
<1>8. waiting \cup held \cup writing = {}
  BY <1>5, <1>6, <1>7, PlacesAre
<1>9. Kept
  BY <1>1, <1>5, <1>8 DEF Kept
<1>10. TargetsInv
  <2>1. NoRepeat(<<>>)
    BY DEF NoRepeat
  <2> QED BY <1>1, <1>2, <1>3, <1>4, <2>1 DEF TargetsInv, live
<1>11. PipeOrder
  BY <1>1, <1>2, <1>4, NoElems DEF PipeOrder, live, AllBefore
<1>12. MemOrder
  <2>1. mem.buf = <<>>
    BY <1>1
  <2> QED BY <2>1, NoElems DEF MemOrder, AllBefore
<1> QED BY <1>6, <1>7, <1>9, <1>10, <1>11, <1>12 DEF OrderInv

LEMMA OrderSteps ==
  ASSUME \A v \in Targets : NoRepeat(v),
         PipeInv, ChainInv, ErrInv, Quiet, Delivery, OrderInv, [Next]_vars
  PROVE  OrderInv'
<1>0. MuInv /\ LaneInv /\ Kept /\ TargetsInv /\ PipeOrder /\ MemOrder
  BY DEF OrderInv
<1>1. MuInv' /\ LaneInv' /\ Quiet'
  BY <1>0, MuSteps, LaneSteps, QuietSteps
<1>2. Kept'
  BY <1>0, KeptSteps
<1>3. TargetsInv'
  BY <1>0, TargetsSteps
<1>4. PipeOrder'
  BY <1>0, <1>1, PipeOrderSteps
<1>5. MemOrder'
  BY <1>0, <1>1, MemOrderSteps
<1> QED BY <1>1, <1>2, <1>3, <1>4, <1>5 DEF OrderInv

(* Through errors, swaps and closes no sample disappears inside the chain  *)
(* and none is in two places, but for the tail that Close failed to write; *)
(* and as long as a MultiWriter holds no writer twice, the reader of the   *)
(* pipe and the buffer in memory receive each producer's samples once and  *)
(* in the order in which it gave them, whatever the frames, chunks and     *)
(* buffers and whoever writes at the same time (fullFrameBuffer.flush,     *)
(* SwitchWriter, MultiWriter, pipe).                                       *)
THEOREM SamplesAccountedHolds ==
  ASSUME \A v \in Targets : NoRepeat(v)
  PROVE  Spec => []SamplesAccounted
<1> DEFINE Inv == PipeInv /\ ChainInv /\ ErrInv /\ Quiet /\ Delivery /\ OrderInv
<1>1. Init => Inv
  <2> SUFFICES ASSUME Init PROVE Inv
    OBVIOUS
  <2>1. PipeInv /\ ChainInv
    BY PipeStarts, ChainStarts DEF Init
  <2>2. ErrInv /\ Quiet /\ Delivery
    BY ErrStarts, DeliveryStarts
  <2> QED BY <2>1, <2>2, OrderStarts
<1>2. Inv /\ [Next]_vars => Inv'
  <2> SUFFICES ASSUME Inv, [Next]_vars PROVE Inv'
    OBVIOUS
  <2>1. PipeMove /\ PipeInv' /\ PipeTypeOK
    BY PipeMoves, PipeSteps DEF PipeInv
  <2>2. ChainInv' /\ ErrInv'
    BY <2>1, ChainSteps, ErrSteps
  <2>3. Quiet' /\ Delivery'
    BY QuietSteps, DeliverySteps
  <2>4. OrderInv'
    BY OrderSteps
  <2> QED BY <2>1, <2>2, <2>3, <2>4
<1>3. Inv => SamplesAccounted
  BY Accounted
<1> QED BY <1>1, <1>2, <1>3, PTL DEF Spec
=============================================================================
