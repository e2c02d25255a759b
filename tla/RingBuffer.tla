----------------------------- MODULE RingBuffer -----------------------------
(***************************************************************************)
(* ring.Buffer (ring/buffer.go): a circular slice with a read and a write  *)
(* index.  read = write means empty or full, and the flag full tells which.*)
(* Indices count from 0 as they do in the code.                            *)
(***************************************************************************)
EXTENDS Fifo

CONSTANTS Size,      \* len(b.buf)
          Values,    \* the elements
          Zero,      \* the zero value of the element type
          MaxCopy    \* bound on the length of a slice given to Read or Write

ASSUME RingAssumption == Size \in Nat \ {0} /\ MaxCopy \in Nat \ {0} /\ Zero \in Values

VARIABLES buf, write, read, full,
          ret        \* the number of elements and the elements last returned

ringVars == <<buf, write, read, full, ret>>

Index == 0..Size-1

Slices == UNION {[1..n -> Values] : n \in 0..MaxCopy}

Result(n, vals) == [n |-> n, vals |-> vals]

step(i, n) == (i + n) % Size

Length ==
  IF read = write THEN IF full THEN Size ELSE 0
  ELSE IF read < write THEN write - read
  ELSE write - read + Size

isEmpty == ~full /\ read = write

\* The elements b.buf[from:to] of the slice b.
slice(b, from, to) == [i \in 1..to-from |-> b[from + i - 1]]

\* copy(b.buf[at:], p): as many elements as fit, and their number.
fitting(at, p) == Least(Size - at, Len(p))

copied(b, at, p) ==
  [i \in Index |-> IF i \in at..at+fitting(at, p)-1 THEN p[i - at + 1] ELSE b[i]]

RingInit ==
  /\ buf = [i \in Index |-> Zero]
  /\ write = 0 /\ read = 0 /\ full = FALSE
  /\ ret = Result(0, <<>>)

----------------------------------------------------------------------------

\* The last three assignments of TryPush and of Push, with r for b.read.
put(v, r) ==
  /\ buf' = [buf EXCEPT ![write] = v]
  /\ write' = step(write, 1)
  /\ full' = (step(write, 1) = r)
  /\ read' = r
  /\ ret' = Result(1, <<>>)

TryPush(v) ==
  \/ full /\ ret' = Result(0, <<>>) /\ UNCHANGED <<buf, write, read, full>>
  \/ ~full /\ put(v, read)

\* Mutant of Push: the oldest element is overwritten but stays first in line.
MutPushKeepsRead(v) == put(v, read)

Push(v) == put(v, IF full THEN step(read, 1) ELSE read)

\* TryPeek, Peek and the first return of TryPop and Pop.
TryPeek ==
  /\ ret' = IF isEmpty THEN Result(0, <<>>) ELSE Result(1, <<buf[read]>>)
  /\ UNCHANGED <<buf, write, read, full>>

TryPop ==
  /\ ~isEmpty
  /\ full' = FALSE
  /\ read' = step(read, 1)
  /\ ret' = Result(1, <<buf[read]>>)
  /\ UNCHANGED <<buf, write>>

\* Read into a slice of length k: up to the end, then again from the start.
Read(k) ==
  \/ /\ k = 0 \/ Length = 0
     /\ ret' = Result(0, <<>>)
     /\ UNCHANGED <<buf, write, read, full>>
  \/ /\ k > 0 /\ Length > 0
     /\ full' = FALSE
     /\ LET end == IF read < write THEN write ELSE Size
            d1  == Least(k, end - read)
            r1  == step(read, d1)
            d2  == IF d1 = k \/ r1 = write THEN 0 ELSE Least(k - d1, write - r1)
        IN  /\ read' = step(r1, d2)
            /\ ret' = Result(d1 + d2, slice(buf, read, read + d1)
                                        \o slice(buf, r1, r1 + d2))
     /\ UNCHANGED <<buf, write>>

\* Write of the slice p: what cannot fit is skipped, the oldest make room, and
\* the rest is copied up to the end and then again from the start.
Write(p) ==
  LET skip == IF Len(p) > Size THEN Len(p) - Size ELSE 0
      q    == without(p, skip)
      over == Length + Len(q) - Size
      d1   == fitting(write, q)
      w1   == step(write, d1)
      d2   == fitting(w1, without(q, d1))
      w2   == step(w1, d2)
      r1   == IF over >= 0 THEN step(read, over) ELSE read
  IN  \/ /\ p = <<>>
         /\ ret' = Result(0, <<>>)
         /\ UNCHANGED <<buf, write, read, full>>
      \/ /\ p # <<>> /\ Len(q) = Size      \* then over >= 0
         /\ buf' = copied(buf, 0, q)
         /\ read' = 0 /\ write' = 0 /\ full' = TRUE
         /\ ret' = Result(skip + fitting(0, q), <<>>)
      \/ /\ p # <<>> /\ Len(q) < Size
         /\ buf' = copied(copied(buf, write, q), w1, without(q, d1))
         /\ read' = r1 /\ write' = w2 /\ full' = (w2 = r1)
         /\ ret' = Result(skip + d1 + d2, <<>>)

RingNext ==
  \/ \E v \in Values : TryPush(v) \/ Push(v)
  \/ TryPeek
  \/ TryPop
  \/ \E k \in 0..MaxCopy : Read(k)
  \/ \E p \in Slices : Write(p)

RingSpec == RingInit /\ [][RingNext]_ringVars

----------------------------------------------------------------------------

\* The elements in the order in which they will be handed out.
contents == [i \in 1..Length |-> buf[step(read, i - 1)]]

Abstract == INSTANCE BoundedFifo WITH items <- contents

\* Every call of ring.Buffer does to the contents, and returns, what the bounded
\* queue does and returns: nothing is handed out twice, out of order or after it
\* was overwritten, and only the oldest elements are discarded.
RingIsFifo == Abstract!FifoSpec

\* Indices stay in range, and a full buffer has its two indices at one place:
\* Len, TryPush and Read all tell full from empty by that.
RingTypeOK ==
  /\ write \in Index /\ read \in Index
  /\ full \in BOOLEAN /\ (full => read = write)
  /\ buf \in [Index -> Values]
=============================================================================
