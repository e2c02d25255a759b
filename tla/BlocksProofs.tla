---------------------------- MODULE BlocksProofs ----------------------------
(***************************************************************************)
(* Proofs about four of the building blocks of Blocks, for every value of  *)
(* their constants.  The ring buffer is the bounded queue: its indices stay *)
(* in range, and every call does to the contents what BoundedFifo does.  The *)
(* search for a port goes round the range that was asked for, Close of an  *)
(* SRTP session misses only the streams that were in hand, and the writer  *)
(* behind soxr gets every sample.                                          *)
(***************************************************************************)
EXTENDS Blocks, ListLemmas

----------------------------------------------------------------------------
(* Indices.                                                                *)

\* What step computes, without the remainder.
wrap(i, n) == IF i + n < Size THEN i + n ELSE i + n - Size

LEMMA StepWraps ==
  ASSUME NEW i \in Index, NEW n \in 0..Size
  PROVE  step(i, n) = wrap(i, n) /\ step(i, n) \in Index /\ wrap(i, n) \in Index
<1>1. Size \in Nat \ {0}
  BY RingAssumption
<1>2. i + n \in Nat /\ i + n < Size + Size
  BY <1>1 DEF Index
<1>3. \A N \in Nat \ {0}, a \in Nat : a < N => a % N = a
  OBVIOUS
<1>4. \A N \in Nat \ {0}, a \in Nat : a < N + N /\ N <= a => a % N = a - N
  OBVIOUS
<1>5. CASE i + n < Size
  <2>1. (i + n) % Size = i + n
    <3> DEFINE a == i + n
    <3>1. a \in Nat /\ a < Size
      BY <1>2, <1>5
    <3> HIDE DEF a
    <3>2. a % Size = a
      BY <1>1, <3>1, <1>3
    <3> QED BY <3>2 DEF a
  <2> QED BY <1>1, <1>2, <1>5, <2>1 DEF step, wrap, Index
<1>6. CASE Size <= i + n
  <2>1. (i + n) % Size = (i + n) - Size
    <3> DEFINE a == i + n
    <3>1. a \in Nat /\ a < Size + Size /\ Size <= a
      BY <1>2, <1>6
    <3> HIDE DEF a
    <3>2. a % Size = a - Size
      BY <1>1, <3>1, <1>4
    <3> QED BY <3>2 DEF a
  <2> QED BY <1>1, <1>2, <1>6, <2>1 DEF step, wrap, Index
<1> QED BY <1>1, <1>2, <1>5, <1>6

\* The indices w and r and the flag f of a buffer with n elements.
Level(w, r, f, n) ==
  r \in Index /\ n \in 0..Size /\ w = wrap(r, n) /\ f \in BOOLEAN /\ (f <=> n = Size)

lengthOf(w, r, f) ==
  IF r = w THEN IF f THEN Size ELSE 0
  ELSE IF r < w THEN w - r
  ELSE w - r + Size

LEMMA LevelOf ==
  ASSUME NEW w \in Index, NEW r \in Index, NEW f \in BOOLEAN, f => r = w
  PROVE  Level(w, r, f, lengthOf(w, r, f))
<1>1. Size \in Nat \ {0}
  BY RingAssumption
<1>2. r \in Int /\ w \in Int /\ 0 <= r /\ r < Size /\ 0 <= w /\ w < Size
  BY <1>1 DEF Index
<1>3. CASE r = w /\ f
  BY <1>1, <1>2, <1>3 DEF lengthOf, wrap, Level
<1>4. CASE r = w /\ ~f
  BY <1>1, <1>2, <1>4 DEF lengthOf, wrap, Level
<1>5. CASE r < w
  BY <1>1, <1>2, <1>5 DEF lengthOf, wrap, Level
<1>6. CASE w < r
  BY <1>1, <1>2, <1>6 DEF lengthOf, wrap, Level
<1> QED BY <1>2, <1>3, <1>4, <1>5, <1>6

LEMMA LevelIs ==
  ASSUME NEW w, NEW r, NEW f, NEW n, Level(w, r, f, n)
  PROVE  lengthOf(w, r, f) = n /\ w \in Index /\ f \in BOOLEAN /\ (f => r = w)
<1>1. Size \in Nat \ {0} /\ r \in Index /\ n \in 0..Size /\ w = wrap(r, n)
      /\ f \in BOOLEAN /\ (f <=> n = Size)
  BY RingAssumption DEF Level
<1>2. r \in Int /\ 0 <= r /\ r < Size /\ n \in Int /\ 0 <= n /\ n <= Size
  BY <1>1 DEF Index
<1>3. w \in Index
  BY <1>1, StepWraps
<1>4. CASE n = Size
  <2>1. w = r
    BY <1>1, <1>2, <1>4 DEF wrap
  <2> QED BY <1>1, <1>3, <1>4, <2>1 DEF lengthOf
<1>5. CASE n < Size
  <2>1. ~f
    BY <1>1, <1>2, <1>5
  <2>2. lengthOf(w, r, f) = n
    BY <1>1, <1>2, <1>5, <2>1 DEF lengthOf, wrap
  <2> QED BY <1>1, <1>3, <2>1, <2>2
<1> QED BY <1>1, <1>2, <1>4, <1>5

----------------------------------------------------------------------------
(* The contents.                                                           *)

queue(b, r, n) == [i \in 1..n |-> b[step(r, i - 1)]]

LEMMA QueueIs ==
  ASSUME NEW b \in [Index -> Values], NEW r \in Index, NEW n \in 0..Size
  PROVE  /\ queue(b, r, n) \in Seq(Values) /\ Len(queue(b, r, n)) = n
         /\ \A i \in 1..n : queue(b, r, n)[i] = b[wrap(r, i - 1)]
<1> DEFINE q == queue(b, r, n)
<1>1. Size \in Nat \ {0} /\ n \in Nat /\ n <= Size
  BY RingAssumption
<1>2. \A i \in 1..n : i - 1 \in 0..Size
  BY <1>1
<1>3. \A i \in 1..n : step(r, i - 1) = wrap(r, i - 1) /\ step(r, i - 1) \in Index
  BY <1>2, StepWraps
<1>4. q \in [1..n -> Values]
  BY <1>3 DEF queue
<1>5. q \in Seq(Values)
  BY <1>1, <1>4, SeqDef
<1>6. Len(q) = n
  BY <1>1, <1>4, <1>5, LenProperties
<1> QED BY <1>3, <1>5, <1>6 DEF queue

\* The contents before a call.
LEMMA Holding ==
  ASSUME RingTypeOK
  PROVE  /\ Level(write, read, full, Length) /\ contents \in Seq(Values)
         /\ Len(contents) = Length
         /\ \A i \in 1..Length : contents[i] = buf[wrap(read, i - 1)]
<1>1. Length = lengthOf(write, read, full)
  BY DEF Length, lengthOf
<1>2. Level(write, read, full, Length)
  BY <1>1, LevelOf DEF RingTypeOK
<1>3. buf \in [Index -> Values] /\ read \in Index /\ Length \in 0..Size
  BY <1>2 DEF RingTypeOK, Level
<1>4. contents = queue(buf, read, Length)
  BY DEF contents, queue
<1> QED BY <1>2, <1>3, <1>4, QueueIs, Zenon

\* The contents after it.
LEMMA HoldingNext ==
  ASSUME NEW n, Level(write', read', full', n), buf' \in [Index -> Values]
  PROVE  /\ RingTypeOK' /\ Length' = n
         /\ contents' \in Seq(Values) /\ Len(contents') = n
         /\ \A i \in 1..n : contents'[i] = buf'[wrap(read', i - 1)]
<1>1. Length' = lengthOf(write', read', full')
  BY DEF Length, lengthOf
<1>2. lengthOf(write', read', full') = n /\ write' \in Index /\ full' \in BOOLEAN
      /\ (full' => read' = write')
  BY LevelIs
<1>3. Length' = n /\ read' \in Index /\ n \in 0..Size
  BY <1>1, <1>2 DEF Level
<1>4. contents' = queue(buf', read', n)
  BY <1>3 DEF contents, queue
<1>5. RingTypeOK'
  BY <1>2, <1>3 DEF RingTypeOK
<1>6. /\ contents' \in Seq(Values) /\ Len(contents') = n
      /\ \A i \in 1..n : contents'[i] = buf'[wrap(read', i - 1)]
  BY <1>3, <1>4, QueueIs, Zenon
<1> QED BY <1>3, <1>5, <1>6

LEMMA WrapAdd ==
  ASSUME NEW i \in Index, NEW a \in 0..Size, NEW b \in 0..Size
  PROVE  /\ a + b <= Size => wrap(wrap(i, a), b) = wrap(i, a + b)
         /\ Size <= a + b => wrap(wrap(i, a), b) = wrap(i, (a + b) - Size)
<1>1. Size \in Nat \ {0} /\ i \in Int /\ 0 <= i /\ i < Size /\ a \in Int /\ b \in Int
      /\ 0 <= a /\ a <= Size /\ 0 <= b /\ b <= Size
  BY RingAssumption DEF Index
<1> QED BY <1>1 DEF wrap

LEMMA WrapApart ==
  ASSUME NEW i \in Index, NEW a \in 0..Size-1, NEW b \in 0..Size-1, wrap(i, a) = wrap(i, b)
  PROVE  a = b
<1>1. Size \in Nat \ {0} /\ i \in Int /\ 0 <= i /\ i < Size /\ a \in Int /\ b \in Int
      /\ 0 <= a /\ a < Size /\ 0 <= b /\ b < Size
  BY RingAssumption DEF Index
<1> QED BY <1>1 DEF wrap

LEMMA WrapRound ==
  ASSUME NEW i \in Index
  PROVE  wrap(i, 0) = i /\ wrap(i, Size) = i
<1>1. Size \in Nat \ {0} /\ i \in Int /\ 0 <= i /\ i < Size
  BY RingAssumption DEF Index
<1> QED BY <1>1 DEF wrap

----------------------------------------------------------------------------
(* Every call does what the bounded queue does.                            *)

LEMMA SizeNat == Size \in Nat \ {0} /\ Size \in Int /\ 0 <= Size
BY RingAssumption

\* The contents are unchanged when the buffer is.
LEMMA SameContents ==
  ASSUME RingTypeOK, UNCHANGED <<buf, write, read, full>>
  PROVE  RingTypeOK' /\ contents' = contents
BY DEF RingTypeOK, contents, Length

\* An element is written behind the last one, when there is room.
LEMMA PutAppends ==
  ASSUME RingTypeOK, ~full, NEW v \in Values, put(v, read)
  PROVE  RingTypeOK' /\ contents' = Append(contents, v)
<1> DEFINE n == Length
<1>1. /\ Level(write, read, full, n) /\ contents \in Seq(Values) /\ Len(contents) = n
      /\ \A i \in 1..n : contents[i] = buf[wrap(read, i - 1)]
  BY Holding
<1> HIDE DEF n
<1>2. n \in Nat /\ n < Size /\ n + 1 \in 0..Size /\ n \in 0..Size-1 /\ n \in 0..Size
      /\ 1 \in 0..Size
  BY <1>1, SizeNat DEF Level
<1>3. read \in Index /\ write = wrap(read, n) /\ write \in Index
  BY <1>1 DEF Level, RingTypeOK
<1>4. step(write, 1) = wrap(read, n + 1)
  <2>1. step(write, 1) = wrap(write, 1)
    BY <1>2, <1>3, StepWraps
  <2>2. wrap(wrap(read, n), 1) = wrap(read, n + 1)
    BY <1>2, <1>3, WrapAdd
  <2> QED BY <1>3, <2>1, <2>2
<1>5. /\ buf' = [buf EXCEPT ![write] = v] /\ write' = wrap(read, n + 1) /\ read' = read
      /\ full' = (wrap(read, n + 1) = read)
  BY <1>4 DEF put
<1>6. wrap(read, n + 1) = read <=> n + 1 = Size
  <2>1. CASE n + 1 = Size
    BY <1>3, <2>1, WrapRound
  <2>2. CASE n + 1 # Size
    <3>1. n + 1 \in 0..Size-1 /\ 0 \in 0..Size-1 /\ n + 1 # 0
      BY <1>2, <2>2, SizeNat
    <3>2. wrap(read, 0) = read
      BY <1>3, WrapRound
    <3> QED BY <1>3, <2>2, <3>1, <3>2, WrapApart
  <2> QED BY <2>1, <2>2
<1>7. Level(write', read', full', n + 1)
  BY <1>2, <1>3, <1>5, <1>6 DEF Level
<1>8. buf' \in [Index -> Values] /\ buf'[write] = v
      /\ \A x \in Index : x # write => buf'[x] = buf[x]
  BY <1>3, <1>5 DEF RingTypeOK
<1>9. /\ RingTypeOK' /\ contents' \in Seq(Values) /\ Len(contents') = n + 1
      /\ \A i \in 1..(n + 1) : contents'[i] = buf'[wrap(read, i - 1)]
  BY <1>5, <1>7, <1>8, HoldingNext
<1>10. /\ Append(contents, v) \in Seq(Values) /\ Len(Append(contents, v)) = n + 1
       /\ \A i \in 1..n : Append(contents, v)[i] = contents[i]
       /\ Append(contents, v)[n + 1] = v
  BY <1>1, AppendProperties
<1>11. ASSUME NEW i \in 1..(n + 1)
       PROVE  contents'[i] = Append(contents, v)[i]
  <2>1. CASE i = n + 1
    <3>1. i - 1 = n
      BY <1>2, <2>1
    <3> QED BY <1>3, <1>8, <1>9, <1>10, <2>1, <3>1
  <2>2. CASE i # n + 1
    <3>1. i \in 1..n /\ i - 1 \in 0..Size-1 /\ i - 1 # n /\ i - 1 \in 0..Size
      BY <1>2, <2>2, SizeNat
    <3>2. wrap(read, i - 1) # write /\ wrap(read, i - 1) \in Index
      BY <1>2, <1>3, <3>1, WrapApart, StepWraps
    <3> QED BY <1>1, <1>8, <1>9, <1>10, <3>1, <3>2
  <2> QED BY <2>1, <2>2
<1>12. contents' = Append(contents, v)
  BY <1>9, <1>10, <1>11, SeqEqual
<1> QED BY <1>9, <1>12

\* A full buffer loses its oldest element to the new one.
LEMMA PutReplaces ==
  ASSUME RingTypeOK, full, NEW v \in Values, put(v, step(read, 1))
  PROVE  RingTypeOK' /\ contents' = newest(Append(contents, v), Size)
<1>1. /\ Level(write, read, full, Length) /\ contents \in Seq(Values)
      /\ Len(contents) = Length
      /\ \A i \in 1..Length : contents[i] = buf[wrap(read, i - 1)]
  BY Holding
<1>2. Length = Size /\ read \in Index /\ write = read
  BY <1>1 DEF Level, RingTypeOK
<1>3. 1 \in 0..Size /\ Size \in 0..Size
  BY SizeNat
<1>4. step(read, 1) = wrap(read, 1) /\ wrap(read, 1) \in Index
  BY <1>2, <1>3, StepWraps
<1>5. /\ buf' = [buf EXCEPT ![read] = v] /\ write' = wrap(read, 1) /\ read' = wrap(read, 1)
      /\ full' = TRUE
  BY <1>2, <1>4 DEF put
<1>6. wrap(wrap(read, 1), Size) = wrap(read, 1)
  BY <1>4, WrapRound
<1>7. Level(write', read', full', Size)
  BY <1>3, <1>4, <1>5, <1>6 DEF Level
<1>8. buf' \in [Index -> Values] /\ buf'[read] = v
      /\ \A x \in Index : x # read => buf'[x] = buf[x]
  BY <1>2, <1>5 DEF RingTypeOK
<1>9. /\ RingTypeOK' /\ contents' \in Seq(Values) /\ Len(contents') = Size
      /\ \A i \in 1..Size : contents'[i] = buf'[wrap(wrap(read, 1), i - 1)]
  BY <1>5, <1>7, <1>8, HoldingNext
<1> DEFINE a == Append(contents, v)
<1>10. /\ a \in Seq(Values) /\ Len(a) = Size + 1
       /\ (\A i \in 1..Size : a[i] = contents[i]) /\ a[Size + 1] = v
  BY <1>1, <1>2, AppendProperties
<1> HIDE DEF a
<1>11. Least(Size, Len(a)) = Size /\ Len(a) - Size = 1
  BY <1>10, SizeNat DEF Least
<1>12. /\ newest(a, Size) \in Seq(Values) /\ Len(newest(a, Size)) = Size
       /\ \A i \in 1..Size : newest(a, Size)[i] = a[i + 1]
  <2>1. Size \in Nat
    BY SizeNat
  <2>2. /\ newest(a, Size) \in Seq(Values) /\ Len(newest(a, Size)) = Least(Size, Len(a))
        /\ \A i \in 1..Least(Size, Len(a)) :
             newest(a, Size)[i] = a[i + (Len(a) - Least(Size, Len(a)))]
    BY <1>10, <2>1, NewestIs
  <2> QED BY <1>11, <2>2
<1>13. ASSUME NEW i \in 1..Size
       PROVE  contents'[i] = a[i + 1]
  <2>1. i \in Int /\ 1 <= i /\ i <= Size /\ i - 1 \in 0..Size /\ i \in 0..Size
        /\ 1 + (i - 1) = i
    BY SizeNat
  <2>2. wrap(wrap(read, 1), i - 1) = wrap(read, i)
    BY <1>2, <1>3, <2>1, WrapAdd
  <2>3. CASE i = Size
    BY <1>2, <1>8, <1>9, <1>10, <2>2, <2>3, WrapRound
  <2>4. CASE i # Size
    <3>1. i + 1 \in 1..Size /\ (i + 1) - 1 = i /\ i \in 0..Size-1 /\ 0 \in 0..Size-1 /\ i # 0
      BY <2>1, <2>4, SizeNat
    <3>2. wrap(read, 0) = read
      BY <1>2, WrapRound
    <3>3. wrap(read, i) # read /\ wrap(read, i) \in Index
      BY <1>2, <2>1, <3>1, <3>2, WrapApart, StepWraps
    <3>4. a[i + 1] = buf[wrap(read, i)]
      BY <1>1, <1>2, <1>10, <3>1
    <3> QED BY <1>8, <1>9, <2>2, <3>3, <3>4
  <2> QED BY <2>3, <2>4
<1>14. contents' = newest(a, Size)
  BY <1>9, <1>12, <1>13, SeqEqual
<1> QED BY <1>9, <1>14 DEF a

\* newest leaves a sequence that is short enough as it is.
LEMMA NewestAll ==
  ASSUME NEW S, NEW s \in Seq(S), NEW h \in Nat, Len(s) <= h
  PROVE  newest(s, h) = s
<1>1. Len(s) \in Nat
  BY LenProperties
<1>2. Least(h, Len(s)) = Len(s)
  BY <1>1 DEF Least
<1>3. /\ newest(s, h) \in Seq(S) /\ Len(newest(s, h)) = Least(h, Len(s))
      /\ \A i \in 1..Least(h, Len(s)) :
           newest(s, h)[i] = s[i + (Len(s) - Least(h, Len(s)))]
  BY NewestIs
<1>4. ASSUME NEW i \in 1..Len(s)
      PROVE  newest(s, h)[i] = s[i]
  <2>1. i + (Len(s) - Len(s)) = i
    BY <1>1
  <2> QED BY <1>2, <1>3, <2>1
<1> QED BY <1>2, <1>3, <1>4, SeqEqual

\* The operators of Fifo mean the same in the two modules.
LEMMA SameFifo ==
  ASSUME NEW s, NEW h
  PROVE  /\ Abstract!newest(s, h) = newest(s, h) /\ Abstract!oldest(s, h) = oldest(s, h)
         /\ Abstract!without(s, h) = without(s, h) /\ Abstract!Least(s, h) = Least(s, h)
BY DEF Abstract!newest, newest, Abstract!oldest, oldest, Abstract!without, without,
       Abstract!Least, Least

LEMMA TryPushRefines ==
  ASSUME RingTypeOK, NEW v \in Values, TryPush(v)
  PROVE  RingTypeOK' /\ Abstract!TryPush(v)
<1>1. full \in BOOLEAN /\ (full <=> Length = Size) /\ Len(contents) = Length
  BY Holding DEF Level
<1>2. CASE full
  <2>1. ret' = Result(0, <<>>) /\ UNCHANGED <<buf, write, read, full>>
    BY <1>2 DEF TryPush
  <2>2. RingTypeOK' /\ contents' = contents
    BY <2>1, SameContents
  <2> QED BY <1>1, <1>2, <2>1, <2>2 DEF Abstract!TryPush, Abstract!Result, Result
<1>3. CASE ~full
  <2>1. put(v, read)
    BY <1>3 DEF TryPush
  <2>2. RingTypeOK' /\ contents' = Append(contents, v)
    BY <1>3, <2>1, PutAppends
  <2>3. ret' = Result(1, <<>>)
    BY <2>1 DEF put
  <2> QED BY <1>1, <1>3, <2>2, <2>3 DEF Abstract!TryPush, Abstract!Result, Result
<1> QED BY <1>1, <1>2, <1>3

LEMMA PushRefines ==
  ASSUME RingTypeOK, NEW v \in Values, Push(v)
  PROVE  RingTypeOK' /\ Abstract!Push(v)
<1>1. full \in BOOLEAN /\ (full <=> Length = Size) /\ Len(contents) = Length
      /\ contents \in Seq(Values) /\ Length \in 0..Size
  BY Holding DEF Level
<1>2. ret' = Result(1, <<>>)
  BY DEF Push, put
<1>3. RingTypeOK' /\ contents' = newest(Append(contents, v), Size)
  <2>1. CASE full
    BY <2>1, PutReplaces DEF Push
  <2>2. CASE ~full
    <3>1. RingTypeOK' /\ contents' = Append(contents, v)
      BY <2>2, PutAppends DEF Push
    <3>2. Append(contents, v) \in Seq(Values) /\ Len(Append(contents, v)) = Len(contents) + 1
      BY <1>1, AppendProperties
    <3>3. Len(Append(contents, v)) <= Size /\ Size \in Nat
      BY <1>1, <2>2, <3>2, SizeNat
    <3>4. newest(Append(contents, v), Size) = Append(contents, v)
      BY <3>2, <3>3, NewestAll
    <3> QED BY <3>1, <3>4
  <2> QED BY <1>1, <2>1, <2>2
<1> QED BY <1>2, <1>3, SameFifo DEF Abstract!Push, Abstract!Result, Result

LEMMA EmptyIs ==
  ASSUME Level(write, read, full, Length)
  PROVE  isEmpty <=> Length = 0
<1>1. full \in BOOLEAN /\ (full <=> Length = Size) /\ read \in Index /\ Length \in 0..Size
  BY DEF Level
<1>2. CASE read = write
  BY <1>1, <1>2, SizeNat DEF isEmpty, Length
<1>3. CASE read # write
  BY <1>3, WrapRound DEF isEmpty, Level
<1> QED BY <1>2, <1>3

LEMMA SeqOne ==
  ASSUME NEW S, NEW q \in Seq(S), Len(q) = 1, NEW v \in S, q[1] = v
  PROVE  q = <<v>>
<1>1. <<v>> \in Seq(S) /\ Len(<<v>>) = 1 /\ <<v>>[1] = v
  OBVIOUS
<1>2. \A i \in 1..Len(q) : q[i] = <<v>>[i]
  BY <1>1
<1> QED BY <1>1, <1>2, SeqEqual

LEMMA TryPeekRefines ==
  ASSUME RingTypeOK, TryPeek
  PROVE  RingTypeOK' /\ Abstract!TryPeek
<1>1. /\ Level(write, read, full, Length) /\ contents \in Seq(Values)
      /\ Len(contents) = Length
      /\ \A i \in 1..Length : contents[i] = buf[wrap(read, i - 1)]
  BY Holding
<1>2. RingTypeOK' /\ contents' = contents
  BY SameContents DEF TryPeek
<1>3. ret' = Result(Least(1, Length), oldest(contents, 1))
  <2>1. /\ Length \in Nat /\ read \in Index
    BY <1>1, SizeNat DEF Level
  <2>2. /\ oldest(contents, 1) \in Seq(Values)
        /\ Len(oldest(contents, 1)) = Least(1, Len(contents))
        /\ \A i \in 1..Least(1, Len(contents)) : oldest(contents, 1)[i] = contents[i]
    BY <1>1, OldestIs
  <2>3. isEmpty <=> Length = 0
    BY <1>1, EmptyIs
  <2>4. CASE Length = 0
    <3>1. Least(1, Len(contents)) = 0
      BY <1>1, <2>4 DEF Least
    <3>2. oldest(contents, 1) = <<>>
      BY <2>2, <3>1, EmptySeq
    <3> QED BY <1>1, <2>3, <2>4, <3>1, <3>2 DEF TryPeek
  <2>5. CASE Length # 0
    <3>1. Least(1, Len(contents)) = 1 /\ 1 \in 1..Length /\ 1 - 1 = 0
      BY <1>1, <2>1, <2>5 DEF Least
    <3>2. contents[1] = buf[read] /\ buf[read] \in Values
      BY <1>1, <2>1, <3>1, WrapRound DEF RingTypeOK
    <3>3. oldest(contents, 1) = <<buf[read]>>
      <4>1. oldest(contents, 1) \in Seq(Values) /\ Len(oldest(contents, 1)) = 1
            /\ \A i \in 1..1 : oldest(contents, 1)[i] = contents[i]
        BY <2>2, <3>1, Zenon
      <4> QED BY <3>2, <4>1, SeqOne
    <3> QED BY <1>1, <2>3, <2>5, <3>1, <3>3 DEF TryPeek
  <2> QED BY <2>4, <2>5
<1> QED BY <1>1, <1>2, <1>3, SameFifo DEF Abstract!TryPeek, Abstract!Result, Result

\* m of the elements are taken.
LEMMA Takes ==
  ASSUME RingTypeOK, NEW m \in Nat, m <= Length, 0 < m, read' = wrap(read, m),
         full' = FALSE, UNCHANGED <<buf, write>>
  PROVE  RingTypeOK' /\ \A h \in Nat : Least(h, Length) = m => contents' = without(contents, h)
<1> DEFINE n == Length
<1>1. /\ Level(write, read, full, n) /\ contents \in Seq(Values) /\ Len(contents) = n
      /\ \A i \in 1..n : contents[i] = buf[wrap(read, i - 1)]
  BY Holding
<1>2. m <= n
  OBVIOUS
<1> HIDE DEF n
<1>3. n \in Nat /\ n <= Size /\ m \in 0..Size /\ n - m \in 0..Size /\ n - m # Size
      /\ m + (n - m) = n
  BY <1>1, <1>2, SizeNat DEF Level
<1>4. read \in Index /\ write = wrap(read, n)
  BY <1>1 DEF Level
<1>5. wrap(read, m) \in Index /\ wrap(wrap(read, m), n - m) = wrap(read, n)
  BY <1>3, <1>4, StepWraps, WrapAdd
<1>6. Level(write', read', full', n - m)
  BY <1>3, <1>4, <1>5 DEF Level
<1>7. buf' \in [Index -> Values]
  BY DEF RingTypeOK
<1>8. /\ RingTypeOK' /\ contents' \in Seq(Values) /\ Len(contents') = n - m
      /\ \A i \in 1..(n - m) : contents'[i] = buf[wrap(wrap(read, m), i - 1)]
  BY <1>6, <1>7, HoldingNext
<1>9. ASSUME NEW h \in Nat, Least(h, n) = m
      PROVE  contents' = without(contents, h)
  <2>1. /\ without(contents, h) \in Seq(Values) /\ Len(without(contents, h)) = n - m
        /\ \A i \in 1..(n - m) : without(contents, h)[i] = contents[i + m]
    <3>1. /\ without(contents, h) \in Seq(Values)
          /\ Len(without(contents, h)) = Len(contents) - Least(h, Len(contents))
          /\ \A i \in 1..(Len(contents) - Least(h, Len(contents))) :
               without(contents, h)[i] = contents[i + Least(h, Len(contents))]
      BY <1>1, WithoutIs
    <3> QED BY <1>1, <1>9, <3>1
  <2>2. ASSUME NEW i \in 1..(n - m)
        PROVE  contents'[i] = contents[i + m]
    <3>1. i - 1 \in 0..Size /\ m + (i - 1) = (i + m) - 1 /\ i + m \in 1..n
          /\ m + (i - 1) <= Size
      BY <1>3, SizeNat
    <3>2. wrap(wrap(read, m), i - 1) = wrap(read, (i + m) - 1)
      BY <1>3, <1>4, <3>1, WrapAdd
    <3> QED BY <1>1, <1>8, <3>1, <3>2
  <2> QED BY <1>8, <2>1, <2>2, SeqEqual
<1> QED BY <1>8, <1>9 DEF n

LEMMA TryPopRefines ==
  ASSUME RingTypeOK, TryPop
  PROVE  RingTypeOK' /\ Abstract!Read(1)
<1>1. /\ Level(write, read, full, Length) /\ contents \in Seq(Values)
      /\ Len(contents) = Length
      /\ \A i \in 1..Length : contents[i] = buf[wrap(read, i - 1)]
  BY Holding
<1>2. Length \in Nat /\ read \in Index
  BY <1>1, SizeNat DEF Level
<1>3. Length # 0
  BY <1>1, EmptyIs DEF TryPop
<1>4. Least(1, Length) = 1 /\ 1 <= Length /\ 0 < 1 /\ 1 \in 0..Size
  BY <1>2, <1>3, SizeNat DEF Least
<1>5. /\ read' = wrap(read, 1) /\ full' = FALSE /\ UNCHANGED <<buf, write>>
      /\ ret' = Result(1, <<buf[read]>>)
  BY <1>2, <1>4, StepWraps DEF TryPop
<1>6. 1 \in Nat
  OBVIOUS
<1>7. RingTypeOK' /\ contents' = without(contents, 1)
  BY <1>4, <1>5, <1>6, Takes
<1>8. oldest(contents, 1) = <<buf[read]>>
  <2>1. /\ oldest(contents, 1) \in Seq(Values) /\ Len(oldest(contents, 1)) = 1
        /\ \A i \in 1..1 : oldest(contents, 1)[i] = contents[i]
    BY <1>1, <1>4, OldestIs
  <2>2. 1 \in 1..Length /\ 1 - 1 = 0
    BY <1>2, <1>4
  <2>3. contents[1] = buf[read] /\ buf[read] \in Values
    BY <1>1, <1>2, <2>2, WrapRound DEF RingTypeOK
  <2> QED BY <2>1, <2>3, SeqOne
<1> QED BY <1>1, <1>4, <1>5, <1>7, <1>8, SameFifo DEF Abstract!Read, Abstract!Result, Result

LEMMA SliceIs ==
  ASSUME NEW b \in [Index -> Values], NEW from \in Nat, NEW d \in Nat, from + d <= Size
  PROVE  /\ slice(b, from, from + d) \in Seq(Values) /\ Len(slice(b, from, from + d)) = d
         /\ \A i \in 1..d : slice(b, from, from + d)[i] = b[from + i - 1]
<1>1. (from + d) - from = d
  OBVIOUS
<1>2. slice(b, from, from + d) = [i \in 1..d |-> b[from + i - 1]]
  BY <1>1 DEF slice
<1>3. \A i \in 1..d : from + i - 1 \in Index
  BY SizeNat DEF Index
<1>4. slice(b, from, from + d) \in [1..d -> Values]
  BY <1>2, <1>3
<1>5. slice(b, from, from + d) \in Seq(Values)
  BY <1>4, SeqDef
<1>6. Len(slice(b, from, from + d)) = d
  BY <1>4, <1>5, LenProperties
<1> QED BY <1>2, <1>5, <1>6

\* The two parts of a Read of h elements: up to the end, and then from the start.
part1(w, r, h) == Least(h, (IF r < w THEN w ELSE Size) - r)
part2(w, r, h) ==
  LET d1 == part1(w, r, h)
      r1 == step(r, d1)
  IN  IF d1 = h \/ r1 = w THEN 0 ELSE Least(h - d1, w - r1)

\* They are in place, and together they have as many elements as there are to read.
Parts(r, n, h, d1, r1, d2) ==
  /\ d1 \in Nat /\ d2 \in Nat /\ d1 + d2 = Least(h, n) /\ r + d1 <= Size
  /\ r1 \in Index /\ r1 + d2 <= Size /\ step(r1, d2) = wrap(r, d1 + d2)
  /\ \A i \in 1..d1 : r + i - 1 = wrap(r, i - 1)
  /\ \A i \in 1..d2 : r1 + i - 1 = wrap(r, d1 + (i - 1))

LEMMA ReadParts ==
  ASSUME NEW w, NEW r, NEW f, NEW n, Level(w, r, f, n), n # 0, NEW h \in Nat, h # 0
  PROVE  Parts(r, n, h, part1(w, r, h), step(r, part1(w, r, h)), part2(w, r, h))
<1> DEFINE end == IF r < w THEN w ELSE Size
           d1  == part1(w, r, h)
           r1  == step(r, d1)
           d2  == part2(w, r, h)
<1>12. /\ end = (IF r < w THEN w ELSE Size) /\ d1 = Least(h, end - r) /\ r1 = step(r, d1)
       /\ d2 = (IF d1 = h \/ r1 = w THEN 0 ELSE Least(h - d1, w - r1))
  BY DEF part1, part2
<1> HIDE DEF end, d1, r1, d2
<1> SUFFICES Parts(r, n, h, d1, r1, d2)
  BY DEF d1, r1, d2
<1>1. /\ r \in Int /\ 0 <= r /\ r < Size /\ n \in Int /\ 0 < n /\ n <= Size /\ w = wrap(r, n)
      /\ r \in Index
  BY SizeNat DEF Level, Index
<1>2. w \in Int /\ 0 <= w /\ w < Size
  BY <1>1, SizeNat DEF wrap
<1>3. /\ r < w => n = w - r
      /\ w <= r => n = (Size - r) + w
  BY <1>1, SizeNat DEF wrap
<1>4. end \in Int /\ r < end /\ end <= Size
  BY <1>1, <1>2, <1>12, SizeNat
<1>5. d1 \in Nat /\ 0 < d1 /\ r + d1 <= Size /\ d1 <= h /\ d1 <= end - r
      /\ (d1 = h \/ d1 = end - r)
  BY <1>1, <1>4, <1>12, SizeNat DEF Least
<1>6. d1 \in 0..Size
  BY <1>1, <1>5, SizeNat
<1>7. r1 = wrap(r, d1) /\ r1 \in Index
  BY <1>1, <1>6, <1>12, StepWraps
<1>8. r1 \in Int /\ 0 <= r1 /\ r1 < Size
  BY <1>7, SizeNat DEF Index
<1>9. \A i \in 1..d1 : r + i - 1 = wrap(r, i - 1)
  BY <1>1, <1>5, SizeNat DEF wrap
<1>10. CASE d2 = 0
  <2>1. d1 = Least(h, n)
    <3>1. CASE d1 = h
      <4>1. h <= n
        BY <1>1, <1>2, <1>3, <1>4, <1>5, <1>12, <3>1, SizeNat
      <4> QED BY <3>1, <4>1 DEF Least
    <3>2. CASE d1 # h
      <4>1. d1 = end - r /\ d1 < h
        BY <1>5, <3>2
      <4>2. r1 = w
        <5>1. CASE r1 # w
          <6>1. Least(h - d1, w - r1) = 0
            BY <1>10, <1>12, <3>2, <5>1
          <6>2. h - d1 \in Int /\ h - d1 # 0 /\ w - r1 \in Int /\ w - r1 # 0
            BY <1>2, <1>5, <1>8, <3>2, <5>1
          <6> QED BY <6>1, <6>2 DEF Least
        <5> QED BY <5>1
      <4>3. d1 = n
        <5>1. CASE r < w
          BY <1>3, <1>12, <4>1, <5>1
        <5>2. CASE w <= r
          <6>1. d1 = Size - r
            BY <1>1, <1>2, <1>12, <4>1, <5>2, SizeNat
          <6>2. r1 = 0
            BY <1>1, <1>7, <6>1, SizeNat DEF wrap
          <6> QED BY <1>1, <1>3, <4>2, <5>2, <6>1, <6>2, SizeNat
        <5> QED BY <1>1, <1>2, <5>1, <5>2
      <4> QED BY <1>1, <4>1, <4>3 DEF Least
    <3> QED BY <3>1, <3>2
  <2>2. d1 + d2 = d1 /\ r1 + d2 = r1
    BY <1>5, <1>8, <1>10
  <2>3. step(r1, d2) = wrap(r, d1)
    <3>1. 0 \in 0..Size
      BY SizeNat
    <3> QED BY <1>7, <1>10, <3>1, StepWraps, WrapRound
  <2>4. d2 \in Nat /\ r1 + d2 <= Size
    BY <1>8, <1>10, <2>2, SizeNat
  <2>5. \A i \in 1..d2 : FALSE
    BY <1>10
  <2>6. d1 + d2 = Least(h, n) /\ step(r1, d2) = wrap(r, d1 + d2)
    BY <2>1, <2>2, <2>3
  <2> QED BY <1>5, <1>7, <1>9, <2>4, <2>5, <2>6 DEF Parts
<1>11. CASE d2 # 0
  <2>1. d1 # h /\ r1 # w /\ d2 = Least(h - d1, w - r1)
    BY <1>11, <1>12
  <2>2. d1 = end - r /\ d1 < h
    BY <1>5, <2>1
  <2>3. w <= r
    <3>1. CASE r < w
      <4>1. r + d1 = w
        BY <1>1, <1>2, <1>12, <2>2, <3>1
      <4>2. r1 = w
        BY <1>1, <1>2, <1>7, <4>1, SizeNat DEF wrap
      <4> QED BY <2>1, <4>2
    <3> QED BY <1>1, <1>2, <3>1
  <2>4. d1 = Size - r /\ n = d1 + w
    BY <1>1, <1>2, <1>3, <1>12, <2>2, <2>3, SizeNat
  <2>5. r1 = 0
    BY <1>1, <1>7, <2>4, SizeNat DEF wrap
  <2>6. d2 = Least(h - d1, w)
    BY <1>2, <2>1, <2>5
  <2>7. d2 \in Nat /\ d2 <= w /\ (d2 = w \/ d2 = h - d1) /\ d2 <= h - d1
    BY <1>2, <1>5, <2>2, <2>6 DEF Least
  <2>8. d1 + d2 = Least(h, n)
    BY <1>1, <1>2, <1>5, <2>4, <2>7 DEF Least
  <2>9. d2 \in 0..Size /\ d1 + d2 \in 0..Size /\ r1 + d2 <= Size
    BY <1>1, <1>2, <1>5, <2>4, <2>5, <2>7, SizeNat
  <2>10. step(r1, d2) = wrap(r, d1 + d2)
    <3>1. step(r1, d2) = wrap(r1, d2)
      BY <1>7, <2>9, StepWraps
    <3>2. d1 + d2 <= Size
      BY <1>1, <1>2, <1>5, <2>4, <2>7, SizeNat
    <3> QED BY <1>1, <1>6, <1>7, <2>9, <3>1, <3>2, WrapAdd
  <2>11. ASSUME NEW i \in 1..d2
         PROVE  r1 + i - 1 = wrap(r, d1 + (i - 1))
    <3>1. i \in Int /\ 1 <= i /\ i <= w
      BY <1>2, <2>7
    <3> QED BY <1>1, <1>2, <2>4, <2>5, <3>1, SizeNat DEF wrap
  <2> QED BY <1>5, <1>7, <1>9, <2>7, <2>8, <2>9, <2>10, <2>11 DEF Parts
<1> QED BY <1>10, <1>11

LEMMA ReadRefines ==
  ASSUME RingTypeOK, NEW h \in Nat, Read(h)
  PROVE  RingTypeOK' /\ Abstract!Read(h)
<1> DEFINE n == Length
<1>1. /\ Level(write, read, full, n) /\ contents \in Seq(Values) /\ Len(contents) = n
      /\ \A i \in 1..n : contents[i] = buf[wrap(read, i - 1)]
  BY Holding
<1>2. n \in Nat /\ n <= Size
  BY <1>1, SizeNat DEF Level
<1> DEFINE m == Least(h, n)
<1>3. m \in Nat /\ m <= n /\ m <= h /\ (m = h \/ m = n)
  BY <1>2 DEF Least
<1>4. /\ oldest(contents, h) \in Seq(Values) /\ Len(oldest(contents, h)) = m
      /\ \A i \in 1..m : oldest(contents, h)[i] = contents[i]
  BY <1>1, OldestIs
<1>5. CASE h = 0 \/ n = 0
  <2>1. ret' = Result(0, <<>>) /\ UNCHANGED <<buf, write, read, full>>
    BY <1>2, <1>5 DEF Read
  <2>2. m = 0
    BY <1>2, <1>5 DEF Least
  <2>3. RingTypeOK' /\ contents' = contents
    BY <2>1, SameContents
  <2>4. without(contents, h) = contents
    <3>1. Least(h, Len(contents)) = 0
      BY <1>1, <2>2
    <3>2. without(contents, h) = SubSeq(contents, 1, Len(contents))
      BY <3>1 DEF without
    <3> QED BY <1>1, <3>2, SubSeqFull
  <2>5. oldest(contents, h) = <<>>
    <3>1. Len(oldest(contents, h)) = 0
      BY <1>4, <2>2
    <3> QED BY <1>4, <3>1, EmptySeq
  <2> QED BY <1>1, <2>1, <2>2, <2>3, <2>4, <2>5, SameFifo
          DEF Abstract!Read, Abstract!Result, Result
<1>6. CASE h # 0 /\ n # 0
  <2> DEFINE end == IF read < write THEN write ELSE Size
             d1  == Least(h, end - read)
             r1  == step(read, d1)
             d2  == IF d1 = h \/ r1 = write THEN 0 ELSE Least(h - d1, write - r1)
  <2>1. /\ full' = FALSE /\ read' = step(r1, d2) /\ UNCHANGED <<buf, write>>
        /\ ret' = Result(d1 + d2, slice(buf, read, read + d1) \o slice(buf, r1, r1 + d2))
    BY <1>2, <1>6 DEF Read
  <2>2. /\ d1 \in Nat /\ d2 \in Nat /\ d1 + d2 = m /\ read + d1 <= Size
        /\ r1 \in Index /\ r1 + d2 <= Size /\ step(r1, d2) = wrap(read, d1 + d2)
        /\ \A i \in 1..d1 : read + i - 1 = wrap(read, i - 1)
        /\ \A i \in 1..d2 : r1 + i - 1 = wrap(read, d1 + (i - 1))
    <3>1. d1 = part1(write, read, h) /\ r1 = step(read, part1(write, read, h))
          /\ d2 = part2(write, read, h)
      BY DEF part1, part2
    <3> HIDE DEF n, d1, r1, d2, end
    <3>2. Parts(read, n, h, part1(write, read, h), step(read, part1(write, read, h)),
                part2(write, read, h))
      BY <1>1, <1>6, ReadParts
    <3>3. Parts(read, n, h, d1, r1, d2)
      BY <3>1, <3>2
    <3> QED BY <3>3 DEF Parts
  <2> HIDE DEF n, m, d1, r1, d2, end
  <2>3. read' = wrap(read, m) /\ 0 < m
    BY <1>2, <1>3, <1>6, <2>1, <2>2
  <2>4. RingTypeOK' /\ contents' = without(contents, h)
    BY <1>3, <2>1, <2>3, Takes DEF n, m
  <2>5. buf \in [Index -> Values] /\ read \in Nat /\ r1 \in Nat
    BY <2>2, SizeNat DEF RingTypeOK, Index
  <2> DEFINE a == slice(buf, read, read + d1)
             b == slice(buf, r1, r1 + d2)
  <2>6. a \in Seq(Values) /\ Len(a) = d1 /\ \A i \in 1..d1 : a[i] = buf[read + i - 1]
    BY <2>2, <2>5, SliceIs
  <2>7. b \in Seq(Values) /\ Len(b) = d2 /\ \A i \in 1..d2 : b[i] = buf[r1 + i - 1]
    BY <2>2, <2>5, SliceIs
  <2> HIDE DEF a, b
  <2>8. /\ a \o b \in Seq(Values) /\ Len(a \o b) = m
        /\ \A i \in 1..m : (a \o b)[i] = IF i <= d1 THEN a[i] ELSE b[i - d1]
    BY <2>2, <2>6, <2>7, ConcatProperties
  <2>9. ASSUME NEW i \in 1..m
        PROVE  (a \o b)[i] = contents[i]
    <3>1. i \in 1..n /\ contents[i] = buf[wrap(read, i - 1)]
      BY <1>1, <1>2, <1>3
    <3>2. CASE i <= d1
      <4>1. i \in 1..d1
        BY <2>2, <3>2
      <4> QED BY <2>2, <2>6, <2>8, <3>1, <3>2, <4>1
    <3>3. CASE ~(i <= d1)
      <4>1. i - d1 \in 1..d2 /\ d1 + ((i - d1) - 1) = i - 1
        BY <1>3, <2>2, <3>3
      <4>2. b[i - d1] = buf[r1 + (i - d1) - 1] /\ r1 + (i - d1) - 1 = wrap(read, i - 1)
        BY <2>2, <2>7, <4>1
      <4> QED BY <2>8, <3>1, <3>3, <4>2
    <3> QED BY <3>2, <3>3
  <2>10. a \o b = oldest(contents, h)
    <3>1. \A i \in 1..Len(a \o b) : (a \o b)[i] = oldest(contents, h)[i]
      BY <1>4, <2>8, <2>9
    <3> QED BY <1>4, <2>8, <3>1, SeqEqual
  <2>11. ret' = Result(m, oldest(contents, h))
    BY <2>1, <2>2, <2>10 DEF a, b
  <2> QED BY <1>1, <2>4, <2>11, SameFifo DEF Abstract!Read, Abstract!Result, Result, m
<1> QED BY <1>5, <1>6

\* What Write copies: p up to the end of b from w on, and the rest to its start.
twice(b, w, p) ==
  LET d1 == fitting(w, p)
  IN  copied(copied(b, w, p), step(w, d1), without(p, d1))

LEMMA CopiedIs ==
  ASSUME NEW b \in [Index -> Values], NEW w \in Index, NEW p \in Seq(Values),
         fitting(w, p) \in Nat, fitting(w, p) <= Len(p)
  PROVE  /\ copied(b, w, p) \in [Index -> Values]
         /\ \A x \in Index : x >= w /\ x < w + fitting(w, p) =>
              copied(b, w, p)[x] = p[x - w + 1]
         /\ \A x \in Index : x < w \/ x >= w + fitting(w, p) => copied(b, w, p)[x] = b[x]
<1> DEFINE d == fitting(w, p)
<1>1. copied(b, w, p) = [x \in Index |-> IF x \in w..w+d-1 THEN p[x - w + 1] ELSE b[x]]
  BY DEF copied
<1>2. d \in Nat /\ d <= Len(p) /\ Len(p) \in Nat
  BY LenProperties
<1> HIDE DEF d
<1>3. w \in Int /\ \A x \in Index : x \in Int
  BY SizeNat DEF Index
<1>4. \A x \in Index : x \in w..w+d-1 <=> x >= w /\ x < w + d
  BY <1>2, <1>3
<1>5. \A x \in Index : x \in w..w+d-1 => p[x - w + 1] \in Values
  <2> SUFFICES ASSUME NEW x \in Index, x \in w..w+d-1
               PROVE  p[x - w + 1] \in Values
    OBVIOUS
  <2>1. x - w + 1 \in 1..Len(p)
    BY <1>2, <1>3
  <2> QED BY <2>1, ElementOfSeq
<1>6. copied(b, w, p) \in [Index -> Values]
  BY <1>1, <1>5
<1>7. ASSUME NEW x \in Index, x >= w, x < w + d
      PROVE  copied(b, w, p)[x] = p[x - w + 1]
  BY <1>1, <1>4, <1>7
<1>8. ASSUME NEW x \in Index, x < w \/ x >= w + d
      PROVE  copied(b, w, p)[x] = b[x]
  <2>1. ~(x \in w..w+d-1)
    BY <1>2, <1>3, <1>4, <1>8
  <2> QED BY <1>1, <2>1
<1> QED BY <1>6, <1>7, <1>8 DEF d

LEMMA CopiedTwice ==
  ASSUME NEW b \in [Index -> Values], NEW w \in Index, NEW p \in Seq(Values), Len(p) < Size
  PROVE  LET d1 == fitting(w, p)
             w1 == step(w, d1)
             d2 == fitting(w1, without(p, d1))
         IN  /\ d1 \in Nat /\ d2 \in Nat /\ d1 + d2 = Len(p)
             /\ step(w1, d2) = wrap(w, Len(p)) /\ twice(b, w, p) \in [Index -> Values]
             /\ \A j \in 1..Len(p) : twice(b, w, p)[wrap(w, j - 1)] = p[j]
             /\ \A j \in Len(p)..Size-1 : twice(b, w, p)[wrap(w, j)] = b[wrap(w, j)]
<1> DEFINE n    == Len(p)
           d1   == fitting(w, p)
           w1   == step(w, d1)
           rest == without(p, d1)
           d2   == fitting(w1, rest)
           c    == copied(b, w, p)
           b2   == copied(c, w1, rest)
<1>1. n \in Nat /\ n < Size /\ w \in Int /\ 0 <= w /\ w < Size
  BY SizeNat, LenProperties DEF Index
<1>2. d1 = Least(Size - w, n)
  BY DEF fitting
<1>3. b2 = twice(b, w, p)
  BY DEF twice
<1> HIDE DEF n, d1
<1>4. d1 \in Nat /\ d1 <= n /\ w + d1 <= Size /\ (d1 = n \/ d1 = Size - w) /\ d1 \in 0..Size
  BY <1>1, <1>2, SizeNat DEF Least
<1>5. w1 = wrap(w, d1) /\ w1 \in Index
  BY <1>4, StepWraps
<1>6. rest \in Seq(Values) /\ Len(rest) = n - d1 /\ \A i \in 1..(n - d1) : rest[i] = p[i + d1]
  <2>1. Least(d1, Len(p)) = d1
    BY <1>1, <1>4 DEF Least, n
  <2>2. /\ rest \in Seq(Values) /\ Len(rest) = Len(p) - Least(d1, Len(p))
        /\ \A i \in 1..(Len(p) - Least(d1, Len(p))) : rest[i] = p[i + Least(d1, Len(p))]
    BY <1>4, WithoutIs
  <2> QED BY <2>1, <2>2 DEF n
<1>7. d2 = Least(Size - w1, n - d1)
  BY <1>6 DEF fitting
<1> HIDE DEF w1, rest, d2
<1>8. w1 \in Int /\ 0 <= w1 /\ w1 < Size
  BY <1>5, SizeNat DEF Index
<1>9. d2 = n - d1 /\ (d2 # 0 => w1 = 0 /\ d1 = Size - w)
  <2>1. CASE d1 = n
    BY <1>1, <1>7, <1>8, <2>1, SizeNat DEF Least
  <2>2. CASE d1 = Size - w
    <3>1. w1 = 0
      BY <1>1, <1>5, <2>2, SizeNat DEF wrap
    <3> QED BY <1>1, <1>4, <1>7, <2>2, <3>1, SizeNat DEF Least
  <2> QED BY <1>4, <2>1, <2>2
<1>10. d2 \in Nat /\ d1 + d2 = n /\ d2 \in 0..Size /\ n \in 0..Size
  BY <1>1, <1>4, <1>9, SizeNat
<1>11. step(w1, d2) = wrap(w, n)
  <2>1. step(w1, d2) = wrap(wrap(w, d1), d2)
    BY <1>5, <1>10, StepWraps
  <2>2. d1 + d2 <= Size
    BY <1>1, <1>10, SizeNat
  <2> QED BY <1>4, <1>10, <2>1, <2>2, WrapAdd
<1>12. /\ c \in [Index -> Values]
       /\ \A x \in Index : x >= w /\ x < w + d1 => c[x] = p[x - w + 1]
       /\ \A x \in Index : x < w \/ x >= w + d1 => c[x] = b[x]
  BY <1>4, CopiedIs DEF n, d1
<1> HIDE DEF c
<1>13. /\ b2 \in [Index -> Values]
       /\ \A x \in Index : x >= w1 /\ x < w1 + d2 => b2[x] = rest[x - w1 + 1]
       /\ \A x \in Index : x < w1 \/ x >= w1 + d2 => b2[x] = c[x]
  <2>1. d2 <= Len(rest)
    BY <1>1, <1>4, <1>6, <1>9
  <2> QED BY <1>5, <1>6, <1>10, <1>12, <2>1, CopiedIs DEF d2
<1> HIDE DEF b2
<1>14. ASSUME NEW j \in 1..n
       PROVE  b2[wrap(w, j - 1)] = p[j]
  <2>1. j \in Int /\ 1 <= j /\ j <= n /\ j - 1 \in 0..Size
    BY <1>1, SizeNat
  <2>2. wrap(w, j - 1) \in Index
    BY <2>1, StepWraps
  <2>3. CASE j <= d1
    <3>1. wrap(w, j - 1) = w + (j - 1)
      BY <1>1, <1>4, <2>1, <2>3, SizeNat DEF wrap
    <3>2. CASE d2 = 0
      <4>1. w + (j - 1) < w1 \/ w + (j - 1) >= w1 + d2
        BY <1>1, <1>8, <2>1, <3>2
      <4>2. w + (j - 1) >= w /\ w + (j - 1) < w + d1 /\ (w + (j - 1)) - w + 1 = j
        BY <1>1, <1>4, <2>1, <2>3
      <4> QED BY <1>12, <1>13, <2>2, <3>1, <4>1, <4>2
    <3>3. CASE d2 # 0
      <4>1. w + (j - 1) >= w1 + d2
        BY <1>1, <1>4, <1>9, <2>1, <3>3, SizeNat
      <4>2. w + (j - 1) >= w /\ w + (j - 1) < w + d1 /\ (w + (j - 1)) - w + 1 = j
        BY <1>1, <1>4, <2>1, <2>3
      <4> QED BY <1>12, <1>13, <2>2, <3>1, <4>1, <4>2
    <3> QED BY <3>2, <3>3
  <2>4. CASE d1 < j
    <3>1. d2 # 0 /\ w1 = 0 /\ d1 = Size - w
      BY <1>1, <1>4, <1>9, <2>1, <2>4
    <3>2. wrap(w, j - 1) = (j - 1) - d1
      BY <1>1, <2>1, <2>4, <3>1, SizeNat DEF wrap
    <3>3. (j - 1) - d1 >= w1 /\ (j - 1) - d1 < w1 + d2
      BY <1>1, <1>4, <1>9, <2>1, <2>4, <3>1
    <3>4. ((j - 1) - d1) - w1 + 1 = j - d1
      BY <1>4, <2>1, <3>1
    <3>5. j - d1 \in 1..(n - d1) /\ (j - d1) + d1 = j
      BY <1>1, <1>4, <2>1, <2>4
    <3>6. b2[wrap(w, j - 1)] = rest[j - d1]
      BY <1>13, <2>2, <3>2, <3>3, <3>4
    <3> QED BY <1>6, <3>5, <3>6
  <2> QED BY <1>4, <2>1, <2>3, <2>4
<1>15. ASSUME NEW j \in n..Size-1
       PROVE  b2[wrap(w, j)] = b[wrap(w, j)]
  <2>1. j \in Int /\ n <= j /\ j < Size /\ j \in 0..Size
    BY <1>1, SizeNat
  <2>2. wrap(w, j) \in Index
    BY <2>1, StepWraps
  <2>3. wrap(w, j) < w \/ wrap(w, j) >= w + d1
    BY <1>1, <1>4, <2>1, SizeNat DEF wrap
  <2>4. wrap(w, j) < w1 \/ wrap(w, j) >= w1 + d2
    <3>1. CASE d2 = 0
      BY <1>1, <1>8, <2>1, <3>1, SizeNat DEF wrap
    <3>2. CASE d2 # 0
      BY <1>1, <1>4, <1>9, <2>1, <3>2, SizeNat DEF wrap
    <3> QED BY <3>1, <3>2
  <2> QED BY <1>12, <1>13, <2>2, <2>3, <2>4
<1>16. /\ d1 \in Nat /\ d2 \in Nat /\ d1 + d2 = n
       /\ step(w1, d2) = wrap(w, n) /\ b2 \in [Index -> Values]
       /\ \A j \in 1..n : b2[wrap(w, j - 1)] = p[j]
       /\ \A j \in n..Size-1 : b2[wrap(w, j)] = b[wrap(w, j)]
  BY <1>4, <1>10, <1>11, <1>13, <1>14, <1>15
<1> QED BY <1>3, <1>16 DEF n, d1, w1, rest, d2

\* What newest keeps of the contents and a slice p behind them.
LEMMA NewestBoth ==
  ASSUME NEW s \in Seq(Values), NEW p \in Seq(Values), NEW n,
         n = Least(Size, Len(s) + Len(p))
  PROVE  /\ newest(s \o p, Size) \in Seq(Values) /\ Len(newest(s \o p, Size)) = n
         /\ \A i \in 1..n : newest(s \o p, Size)[i] =
              LET t == i + ((Len(s) + Len(p)) - n)
              IN  IF t <= Len(s) THEN s[t] ELSE p[t - Len(s)]
<1>1. /\ s \o p \in Seq(Values) /\ Len(s \o p) = Len(s) + Len(p)
      /\ \A i \in 1 .. Len(s) + Len(p) :
           (s \o p)[i] = IF i <= Len(s) THEN s[i] ELSE p[i - Len(s)]
  BY ConcatProperties
<1>2. Size \in Nat /\ Len(s) \in Nat /\ Len(p) \in Nat
  BY SizeNat, LenProperties
<1>3. /\ newest(s \o p, Size) \in Seq(Values) /\ Len(newest(s \o p, Size)) = n
      /\ \A i \in 1..n : newest(s \o p, Size)[i] = (s \o p)[i + ((Len(s) + Len(p)) - n)]
  <2>1. /\ newest(s \o p, Size) \in Seq(Values)
        /\ Len(newest(s \o p, Size)) = Least(Size, Len(s \o p))
        /\ \A i \in 1..Least(Size, Len(s \o p)) : newest(s \o p, Size)[i] =
             (s \o p)[i + (Len(s \o p) - Least(Size, Len(s \o p)))]
    BY <1>1, <1>2, NewestIs
  <2> QED BY <1>1, <2>1
<1>4. n \in Nat /\ n <= Len(s) + Len(p)
  BY <1>2 DEF Least
<1>5. \A i \in 1..n : i + ((Len(s) + Len(p)) - n) \in 1 .. Len(s) + Len(p)
  BY <1>2, <1>4
<1> QED BY <1>1, <1>3, <1>5

\* A slice as long as the buffer, or longer, replaces everything.
LEMMA WriteAll ==
  ASSUME NEW p \in Seq(Values), NEW skip \in Nat, NEW q, q = without(p, skip),
         Size <= Len(p), skip = Len(p) - Size, RingTypeOK,
         buf' = copied(buf, 0, q), read' = 0, write' = 0, full' = TRUE
  PROVE  /\ RingTypeOK' /\ contents' = newest(contents \o p, Size)
         /\ skip + fitting(0, q) = Len(p)
<1>1. Len(p) \in Nat /\ Size \in Nat \ {0} /\ 0 \in Index /\ Size \in 0..Size
  BY SizeNat, LenProperties DEF Index
<1>2. Least(skip, Len(p)) = skip /\ Len(p) - skip = Size
  BY <1>1 DEF Least
<1>3. q \in Seq(Values) /\ Len(q) = Size /\ \A i \in 1..Size : q[i] = p[i + skip]
  <2>1. /\ without(p, skip) \in Seq(Values)
        /\ Len(without(p, skip)) = Len(p) - Least(skip, Len(p))
        /\ \A i \in 1..(Len(p) - Least(skip, Len(p))) :
             without(p, skip)[i] = p[i + Least(skip, Len(p))]
    BY WithoutIs
  <2> QED BY <1>2, <2>1
<1>4. fitting(0, q) = Size
  BY <1>1, <1>3 DEF fitting, Least
<1>5. /\ buf' \in [Index -> Values] /\ \A x \in Index : buf'[x] = q[x + 1]
  <2>1. buf \in [Index -> Values] /\ fitting(0, q) \in Nat /\ fitting(0, q) <= Len(q)
    BY <1>1, <1>3, <1>4 DEF RingTypeOK
  <2>2. /\ copied(buf, 0, q) \in [Index -> Values]
        /\ \A x \in Index : x >= 0 /\ x < 0 + fitting(0, q) =>
              copied(buf, 0, q)[x] = q[x - 0 + 1]
    BY <1>1, <1>3, <2>1, CopiedIs
  <2>3. \A x \in Index : x >= 0 /\ x < 0 + fitting(0, q) /\ x - 0 + 1 = x + 1
    BY <1>1, <1>4 DEF Index
  <2> QED BY <2>2, <2>3
<1>6. Level(write', read', full', Size)
  BY <1>1, WrapRound DEF Level
<1>7. /\ RingTypeOK' /\ contents' \in Seq(Values) /\ Len(contents') = Size
      /\ \A i \in 1..Size : contents'[i] = buf'[wrap(0, i - 1)]
  BY <1>5, <1>6, HoldingNext
<1>8. contents \in Seq(Values) /\ Len(contents) \in Nat
  BY Holding, LenProperties
<1>9. Least(Size, Len(contents) + Len(p)) = Size
  BY <1>1, <1>8 DEF Least
<1>10. /\ newest(contents \o p, Size) \in Seq(Values)
       /\ Len(newest(contents \o p, Size)) = Size
       /\ \A i \in 1..Size : newest(contents \o p, Size)[i] =
            LET t == i + ((Len(contents) + Len(p)) - Size)
            IN  IF t <= Len(contents) THEN contents[t] ELSE p[t - Len(contents)]
  BY <1>8, <1>9, NewestBoth
<1>11. ASSUME NEW i \in 1..Size
       PROVE  contents'[i] = newest(contents \o p, Size)[i]
  <2>1. i - 1 \in Index /\ (i - 1) + 1 = i /\ wrap(0, i - 1) = i - 1
    BY <1>1 DEF Index, wrap
  <2>2. contents'[i] = p[i + skip]
    BY <1>3, <1>5, <1>7, <2>1
  <2> DEFINE t == i + ((Len(contents) + Len(p)) - Size)
  <2>3. ~(t <= Len(contents)) /\ t - Len(contents) = i + skip
    BY <1>1, <1>8
  <2> QED BY <1>10, <2>2, <2>3
<1>12. contents' = newest(contents \o p, Size)
  BY <1>7, <1>10, <1>11, SeqEqual
<1>13. skip + fitting(0, q) = Len(p)
  BY <1>1, <1>4
<1> QED BY <1>7, <1>12, <1>13

\* A shorter one pushes out the oldest elements, if it needs their room.
LEMMA WriteSome ==
  ASSUME NEW p \in Seq(Values), Len(p) < Size, 0 < Len(p), RingTypeOK,
         NEW over \in Int, over = (Length + Len(p)) - Size,
         buf' = twice(buf, write, p), write' = wrap(write, Len(p)),
         read' = (IF over >= 0 THEN step(read, over) ELSE read),
         full' = (write' = read')
  PROVE  RingTypeOK' /\ contents' = newest(contents \o p, Size)
<1> DEFINE n == Length
           h == Len(p)
<1>1. /\ Level(write, read, full, n) /\ contents \in Seq(Values) /\ Len(contents) = n
      /\ \A i \in 1..n : contents[i] = buf[wrap(read, i - 1)]
  BY Holding
<1>2. /\ buf \in [Index -> Values] /\ write \in Index /\ read \in Index
      /\ write = wrap(read, n)
  BY <1>1 DEF Level, RingTypeOK
<1>3. /\ buf' \in [Index -> Values]
      /\ \A j \in 1..h : buf'[wrap(write, j - 1)] = p[j]
      /\ \A j \in h..Size-1 : buf'[wrap(write, j)] = buf[wrap(write, j)]
  BY <1>2, CopiedTwice
<1>4. over = (n + h) - Size /\ h \in Nat /\ h < Size /\ 0 < h
  BY LenProperties
<1> HIDE DEF n, h
<1>5. n \in Nat /\ n <= Size /\ n \in 0..Size /\ h \in 0..Size /\ 0 \in 0..Size-1
  BY <1>1, <1>4, SizeNat DEF Level
<1> DEFINE m == Least(Size, n + h)
           o == (n + h) - m
<1>6. /\ m \in Nat /\ m <= Size /\ o \in Nat /\ o <= n /\ o + m = n + h /\ o \in 0..Size
      /\ (over >= 0 => o = over /\ m = Size) /\ (over < 0 => o = 0 /\ m = n + h /\ m < Size)
  BY <1>4, <1>5, SizeNat DEF Least
<1> HIDE DEF m, o
<1>7. read' = wrap(read, o) /\ read' \in Index
  <2>1. CASE over >= 0
    BY <1>2, <1>6, <2>1, StepWraps
  <2>2. CASE over < 0
    BY <1>2, <1>6, <2>2, WrapRound
  <2> QED BY <2>1, <2>2
<1>8. Level(write', read', full', m)
  <2>1. write' = wrap(wrap(read, n), h)
    BY <1>2 DEF h
  <2>2. CASE over >= 0
    <3>1. wrap(wrap(read, n), h) = wrap(read, (n + h) - Size)
      <4>1. Size <= n + h
        BY <1>4, <1>5, <2>2, SizeNat
      <4> QED BY <1>2, <1>5, <4>1, WrapAdd
    <3>2. write' = read'
      BY <1>4, <1>6, <1>7, <2>1, <2>2, <3>1
    <3>3. wrap(read', Size) = read' /\ m = Size /\ m \in 0..Size
      BY <1>6, <1>7, <2>2, WrapRound, SizeNat
    <3> QED BY <1>7, <3>2, <3>3 DEF Level
  <2>3. CASE over < 0
    <3>1. n + h <= Size /\ m = n + h /\ m \in 0..Size-1 /\ m # 0 /\ m # Size /\ m \in 0..Size
      BY <1>4, <1>5, <1>6, <2>3, SizeNat
    <3>2. write' = wrap(read, m)
      BY <1>2, <1>5, <2>1, <3>1, WrapAdd
    <3>3. read' = read /\ wrap(read, 0) = read
      BY <1>2, <1>6, <1>7, <2>3, WrapRound
    <3>4. write' # read'
      BY <1>2, <1>5, <3>1, <3>2, <3>3, WrapApart
    <3> QED BY <1>2, <3>1, <3>2, <3>3, <3>4 DEF Level
  <2> QED BY <2>2, <2>3
<1>9. /\ RingTypeOK' /\ contents' \in Seq(Values) /\ Len(contents') = m
      /\ \A i \in 1..m : contents'[i] = buf'[wrap(wrap(read, o), i - 1)]
  BY <1>3, <1>7, <1>8, HoldingNext
<1>10. /\ newest(contents \o p, Size) \in Seq(Values) /\ Len(newest(contents \o p, Size)) = m
       /\ \A i \in 1..m : newest(contents \o p, Size)[i] =
            IF i + o <= n THEN contents[i + o] ELSE p[(i + o) - n]
  <2>1. m = Least(Size, Len(contents) + Len(p))
    BY <1>1 DEF m, h
  <2>2. contents \in Seq(Values) /\ p \in Seq(Values)
    BY <1>1
  <2>3. /\ newest(contents \o p, Size) \in Seq(Values)
        /\ Len(newest(contents \o p, Size)) = m
        /\ \A i \in 1..m : newest(contents \o p, Size)[i] =
             LET t == i + ((Len(contents) + Len(p)) - m)
             IN  IF t <= Len(contents) THEN contents[t] ELSE p[t - Len(contents)]
    BY <2>1, <2>2, NewestBoth
  <2>4. (Len(contents) + Len(p)) - m = o
    BY <1>1 DEF o, h
  <2> QED BY <1>1, <2>3, <2>4
<1>11. ASSUME NEW i \in 1..m
       PROVE  contents'[i] = newest(contents \o p, Size)[i]
  <2>1. i \in Int /\ 1 <= i /\ i <= m /\ i - 1 \in 0..Size
    BY <1>6, SizeNat
  <2>2. CASE i + o <= n
    <3>1. (i + o) - 1 \in 0..Size-1 /\ o + (i - 1) = (i + o) - 1 /\ i + o \in 1..n
          /\ o + (i - 1) <= Size
      BY <1>5, <1>6, <2>1, <2>2, SizeNat
    <3>2. wrap(wrap(read, o), i - 1) = wrap(read, (i + o) - 1)
      BY <1>2, <1>6, <2>1, <3>1, WrapAdd
    <3> DEFINE j == (Size - n) + ((i + o) - 1)
    <3>3. j \in h..Size-1 /\ j \in 0..Size /\ Size <= n + j /\ (n + j) - Size = (i + o) - 1
      BY <1>4, <1>5, <1>6, <2>1, <2>2, SizeNat
    <3> HIDE DEF j
    <3>4. wrap(write, j) = wrap(read, (i + o) - 1)
      BY <1>2, <1>5, <3>3, WrapAdd
    <3>5. contents'[i] = buf[wrap(read, (i + o) - 1)]
      BY <1>3, <1>9, <3>2, <3>3, <3>4
    <3> QED BY <1>1, <1>10, <2>2, <3>1, <3>5
  <2>3. CASE ~(i + o <= n)
    <3> DEFINE j == (i + o) - n
    <3>1. j \in 1..h /\ j - 1 \in 0..Size /\ n + (j - 1) = o + (i - 1)
      BY <1>4, <1>5, <1>6, <2>1, <2>3, SizeNat
    <3> HIDE DEF j
    <3>2. wrap(wrap(read, o), i - 1) = wrap(wrap(read, n), j - 1)
      <4>1. CASE o + (i - 1) <= Size
        <5>1. wrap(wrap(read, o), i - 1) = wrap(read, o + (i - 1))
          BY <1>2, <1>6, <2>1, <4>1, WrapAdd
        <5>2. wrap(wrap(read, n), j - 1) = wrap(read, n + (j - 1))
          BY <1>2, <1>5, <3>1, <4>1, WrapAdd
        <5> QED BY <3>1, <5>1, <5>2
      <4>2. CASE Size <= o + (i - 1)
        <5>1. wrap(wrap(read, o), i - 1) = wrap(read, (o + (i - 1)) - Size)
          BY <1>2, <1>6, <2>1, <4>2, WrapAdd
        <5>2. wrap(wrap(read, n), j - 1) = wrap(read, (n + (j - 1)) - Size)
          BY <1>2, <1>5, <3>1, <4>2, WrapAdd
        <5> QED BY <3>1, <5>1, <5>2
      <4> QED BY <1>6, <2>1, <4>1, <4>2, SizeNat
    <3>3. contents'[i] = p[j]
      BY <1>2, <1>3, <1>9, <3>1, <3>2
    <3> QED BY <1>10, <2>3, <3>3 DEF j
  <2> QED BY <2>2, <2>3
<1>12. contents' = newest(contents \o p, Size)
  BY <1>9, <1>10, <1>11, SeqEqual
<1> QED BY <1>9, <1>12

LEMMA WriteRefines ==
  ASSUME RingTypeOK, NEW p \in Slices, Write(p)
  PROVE  RingTypeOK' /\ Abstract!Write(p)
<1>1. p \in Seq(Values) /\ Len(p) \in Nat
  <2>1. PICK n \in 0..MaxCopy : p \in [1..n -> Values]
    BY DEF Slices
  <2>2. n \in Nat
    BY RingAssumption
  <2> QED BY <2>1, <2>2, SeqDef, LenProperties
<1>2. contents \in Seq(Values) /\ Len(contents) = Length /\ Length \in 0..Size
      /\ write \in Index
  BY Holding DEF Level, RingTypeOK
<1> DEFINE skip == IF Len(p) > Size THEN Len(p) - Size ELSE 0
           q    == without(p, skip)
           over == Length + Len(q) - Size
           d1   == fitting(write, q)
           w1   == step(write, d1)
           d2   == fitting(w1, without(q, d1))
           w2   == step(w1, d2)
           r1   == IF over >= 0 THEN step(read, over) ELSE read
<1>3. \/ /\ p = <<>> /\ ret' = Result(0, <<>>) /\ UNCHANGED <<buf, write, read, full>>
      \/ /\ p # <<>> /\ Len(q) = Size /\ buf' = copied(buf, 0, q)
         /\ read' = 0 /\ write' = 0 /\ full' = TRUE
         /\ ret' = Result(skip + fitting(0, q), <<>>)
      \/ /\ p # <<>> /\ Len(q) < Size
         /\ buf' = copied(copied(buf, write, q), w1, without(q, d1))
         /\ read' = r1 /\ write' = w2 /\ full' = (w2 = r1)
         /\ ret' = Result(skip + d1 + d2, <<>>)
  BY DEF Write
<1>4. skip \in Nat /\ skip <= Len(p)
  BY <1>1, SizeNat
<1>5. Len(q) = Len(p) - skip
  <2> HIDE DEF skip
  <2>1. Least(skip, Len(p)) = skip
    BY <1>1, <1>4 DEF Least
  <2>2. Len(without(p, skip)) = Len(p) - Least(skip, Len(p))
    BY <1>1, <1>4, WithoutIs
  <2> QED BY <2>1, <2>2
<1>6. /\ Len(q) = Size => Size <= Len(p) /\ skip = Len(p) - Size
      /\ Len(q) < Size => skip = 0 /\ Len(p) < Size
  <2>1. CASE Len(p) > Size
    <3>1. skip = Len(p) - Size
      BY <2>1
    <3> HIDE DEF q, skip
    <3> QED BY <1>1, <1>5, <2>1, <3>1, SizeNat
  <2>2. CASE ~(Len(p) > Size)
    <3>1. skip = 0
      BY <2>2
    <3> HIDE DEF q, skip
    <3> QED BY <1>1, <1>5, <2>2, <3>1, SizeNat
  <2> QED BY <2>1, <2>2
<1>7. RingTypeOK' /\ contents' = newest(contents \o p, Size) /\ ret' = Result(Len(p), <<>>)
  <2>1. CASE p = <<>>
    <3>1. ret' = Result(0, <<>>) /\ UNCHANGED <<buf, write, read, full>> /\ Len(p) = 0
      BY <1>3, <2>1, EmptySeq
    <3>2. RingTypeOK' /\ contents' = contents
      BY <3>1, SameContents
    <3>3. contents \o p = contents
      BY <1>2, <2>1, ConcatEmptySeq
    <3>4. newest(contents, Size) = contents
      <4>1. Len(contents) <= Size /\ Size \in Nat
        BY <1>2, SizeNat
      <4> QED BY <1>2, <4>1, NewestAll
    <3> QED BY <3>1, <3>2, <3>3, <3>4
  <2>2. CASE p # <<>> /\ Len(q) = Size
    <3>1. /\ buf' = copied(buf, 0, q) /\ read' = 0 /\ write' = 0 /\ full' = TRUE
          /\ ret' = Result(skip + fitting(0, q), <<>>)
      BY <1>3, <2>2, SizeNat
    <3>2. Size <= Len(p) /\ skip = Len(p) - Size
      BY <1>6, <2>2
    <3> HIDE DEF skip
    <3>3. /\ RingTypeOK' /\ contents' = newest(contents \o p, Size)
          /\ skip + fitting(0, q) = Len(p)
      BY <1>1, <1>4, <3>1, <3>2, WriteAll
    <3> QED BY <3>1, <3>3
  <2>3. CASE p # <<>> /\ Len(q) < Size
    <3>1. skip = 0 /\ Len(p) < Size /\ 0 < Len(p)
      <4>1. Len(p) # 0
        BY <1>1, <2>3, EmptySeq
      <4>2. skip = 0 /\ Len(p) < Size
        BY <1>6, <2>3
      <4> QED BY <1>1, <4>1, <4>2
    <3>2. q = p
      <4>1. Least(0, Len(p)) = 0
        BY <1>1 DEF Least
      <4>2. without(p, 0) = SubSeq(p, 1, Len(p))
        BY <4>1 DEF without
      <4> QED BY <1>1, <3>1, <4>2, SubSeqFull
    <3>3. /\ buf' = copied(copied(buf, write, q), w1, without(q, d1))
          /\ read' = r1 /\ write' = w2 /\ full' = (w2 = r1)
          /\ ret' = Result(skip + d1 + d2, <<>>)
      BY <1>3, <2>3
    <3> DEFINE e1 == fitting(write, p)
               v1 == step(write, e1)
               e2 == fitting(v1, without(p, e1))
               ov == (Length + Len(p)) - Size
    <3>4. d1 = e1 /\ w1 = v1 /\ d2 = e2 /\ w2 = step(v1, e2) /\ over = ov
      BY <1>1, <1>2, <3>2, SizeNat
    <3>5. buf' = twice(buf, write, p)
      BY <3>2, <3>3, <3>4 DEF twice
    <3>6. e1 \in Nat /\ e2 \in Nat /\ e1 + e2 = Len(p) /\ step(v1, e2) = wrap(write, Len(p))
      BY <1>1, <1>2, <3>1, CopiedTwice DEF RingTypeOK
    <3>7. /\ write' = wrap(write, Len(p)) /\ full' = (write' = read')
          /\ read' = (IF ov >= 0 THEN step(read, ov) ELSE read)
      BY <3>3, <3>4, <3>6
    <3>8. skip + d1 + d2 = Len(p)
      BY <3>1, <3>4, <3>6
    <3>9. ov \in Int
      BY <1>1, <1>2, SizeNat
    <3> HIDE DEF ov, skip, q, d1, d2, w1, w2, r1, over, e1, e2, v1
    <3>10. RingTypeOK' /\ contents' = newest(contents \o p, Size)
      BY <1>1, <3>1, <3>5, <3>7, <3>9, WriteSome DEF ov
    <3> QED BY <3>3, <3>8, <3>10
  <2> QED BY <1>3, <2>1, <2>2, <2>3
<1> QED BY <1>7, SameFifo DEF Abstract!Write, Abstract!Result, Result

----------------------------------------------------------------------------
(* The buffer and the queue.                                               *)

LEMMA RingStarts == RingInit => RingTypeOK /\ Abstract!FifoInit
<1> SUFFICES ASSUME RingInit PROVE RingTypeOK /\ Abstract!FifoInit
  OBVIOUS
<1>1. RingTypeOK
  <2>1. 0 \in Index
    BY RingAssumption DEF Index
  <2>2. buf \in [Index -> Values]
    BY RingAssumption DEF RingInit
  <2> QED BY <2>1, <2>2 DEF RingInit, RingTypeOK
<1>2. contents = <<>>
  <2>1. Length = 0
    BY DEF RingInit, Length
  <2>2. contents \in Seq(Values) /\ Len(contents) = 0
    BY <1>1, <2>1, Holding
  <2> QED BY <2>2, EmptySeq
<1> QED BY <1>1, <1>2 DEF RingInit, Result, Abstract!FifoInit, Abstract!Result

LEMMA RingSteps ==
  ASSUME RingTypeOK, [RingNext]_ringVars
  PROVE  RingTypeOK' /\ [Abstract!FifoNext]_Abstract!fifoVars
<1>1. ASSUME NEW v \in Values, TryPush(v)
      PROVE  RingTypeOK' /\ Abstract!FifoNext
  BY <1>1, TryPushRefines DEF Abstract!FifoNext
<1>2. ASSUME NEW v \in Values, Push(v)
      PROVE  RingTypeOK' /\ Abstract!FifoNext
  BY <1>2, PushRefines DEF Abstract!FifoNext
<1>3. CASE TryPeek
  BY <1>3, TryPeekRefines DEF Abstract!FifoNext
<1>4. CASE TryPop
  <2>1. 1 \in 0..MaxCopy
    BY RingAssumption
  <2> QED BY <1>4, <2>1, TryPopRefines DEF Abstract!FifoNext
<1>5. ASSUME NEW h \in 0..MaxCopy, Read(h)
      PROVE  RingTypeOK' /\ Abstract!FifoNext
  <2>1. h \in Nat
    BY RingAssumption
  <2> QED BY <1>5, <2>1, ReadRefines DEF Abstract!FifoNext
<1>6. ASSUME NEW p \in Slices, Write(p)
      PROVE  RingTypeOK' /\ Abstract!FifoNext
  <2>1. p \in Abstract!Slices
    BY DEF Slices, Abstract!Slices
  <2> QED BY <1>6, <2>1, WriteRefines DEF Abstract!FifoNext
<1>7. CASE UNCHANGED ringVars
  <2>1. UNCHANGED <<buf, write, read, full>> /\ ret' = ret
    BY <1>7 DEF ringVars
  <2> QED BY <2>1, SameContents DEF Abstract!fifoVars
<1> QED BY <1>1, <1>2, <1>3, <1>4, <1>5, <1>6, <1>7 DEF RingNext

\* The indices stay in range, and a full buffer has them at one place, through
\* every sequence of calls of ring.Buffer, for every capacity.
THEOREM RingTypes == RingSpec => []RingTypeOK
<1>1. RingInit => RingTypeOK
  BY RingStarts
<1>2. RingTypeOK /\ [RingNext]_ringVars => RingTypeOK'
  BY RingSteps
<1> QED BY <1>1, <1>2, PTL DEF RingSpec

\* ring.Buffer implements the bounded queue: each call of TryPush, Push,
\* TryPeek, TryPop, Read and Write does to the contents, and returns, what the
\* queue does, for every capacity and every length of the slices.
THEOREM RingRefines == RingSpec => RingIsFifo
<1>1. RingInit => Abstract!FifoInit
  BY RingStarts
<1>2. RingTypeOK /\ [RingNext]_ringVars => [Abstract!FifoNext]_Abstract!fifoVars
  BY RingSteps
<1> QED BY <1>1, <1>2, RingTypes, PTL DEF RingSpec, RingIsFifo, Abstract!FifoSpec

----------------------------------------------------------------------------
(* The search for a port.                                                  *)

\* How far the search has to go from portCurrent to come to p.
ahead(p) ==
  IF p >= portCurrent THEN p - portCurrent
  ELSE (p - portCurrent) + ((portMax - portMin) + stride)

\* While the search goes on it has tried the ports that are not ahead of it.
Searching ==
  /\ portMin <= portMax /\ try \in 1..ports
  /\ portCurrent \in wantedPorts /\ tried \subseteq wantedPorts
  /\ \A p \in wantedPorts : p \in tried <=> ahead(p) >= stride * try

ListenInv ==
  /\ request \in [even : BOOLEAN, min : PortArgs, max : PortArgs]
  /\ inUse \subseteq Ports
  /\ outcome = "none" => tried = {}
  /\ outcome = "trying" => Searching
  /\ PortsTried

LEMMA RequestType ==
  ASSUME request \in [even : BOOLEAN, min : PortArgs, max : PortArgs]
  PROVE  /\ request.even \in BOOLEAN /\ request.min \in Int /\ request.max \in Int
         /\ MaxPort \in Int /\ MaxPort >= 1
<1>1. request.even \in BOOLEAN /\ request.min \in PortArgs /\ request.max \in PortArgs
  OBVIOUS
<1>2. MaxPort \in Int /\ MaxPort >= 1
  BY ListenAssumption
<1>3. \A x \in PortArgs : x \in Int
  BY ListenAssumption
<1> QED BY <1>1, <1>2, <1>3

\* What bindRange and bindEvenRange make of their arguments.
LEMMA Bounds ==
  ASSUME request \in [even : BOOLEAN, min : PortArgs, max : PortArgs]
  PROVE  /\ portMin \in Int /\ portMax \in Int /\ portMin >= 1 /\ portMax <= MaxPort
         /\ stride \in {1, 2}
         /\ stride = 2 => request.even /\ portMin % 2 = 0 /\ portMax % 2 = 0
         /\ stride = 1 => ~request.even
         /\ wantedPorts = {p \in portMin..portMax : request.even => p % 2 = 0}
<1>1. /\ request.even \in BOOLEAN /\ request.min \in Int /\ request.max \in Int
      /\ MaxPort \in Int /\ MaxPort >= 1
  BY RequestType
<1>2. CASE ~request.even
  <2>1. stride = 1 /\ portMin = (IF request.min <= 0 THEN 1 ELSE request.min)
        /\ portMax = (IF request.max <= 0 \/ request.max > MaxPort THEN MaxPort
                      ELSE request.max)
    BY <1>2 DEF stride, portMin, portMax
  <2>2. \A p : p \in wantedPorts <=> p \in portMin..portMax
    BY <1>1, <1>2, <2>1 DEF wantedPorts, Ports
  <2> QED BY <1>1, <1>2, <2>1, <2>2
<1>3. CASE request.even
  <2> DEFINE lo == IF request.min <= 0 THEN 1 ELSE request.min
             hi == IF request.max <= 0 \/ request.max > MaxPort THEN MaxPort
                   ELSE request.max
  <2>1. stride = 2 /\ portMin = lo + (lo % 2) /\ portMax = hi - (hi % 2)
    BY <1>3 DEF stride, portMin, portMax
  <2>2. lo \in Int /\ hi \in Int /\ lo >= 1 /\ hi <= MaxPort /\ hi >= 0
    BY <1>1
  <2>3. \A p : p \in wantedPorts <=> p \in lo..hi /\ p % 2 = 0
    BY <1>1, <1>3 DEF wantedPorts, Ports
  <2> HIDE DEF lo, hi
  <2>4. /\ portMin \in Int /\ portMax \in Int /\ portMin >= 1 /\ portMax <= MaxPort
        /\ portMin % 2 = 0 /\ portMax % 2 = 0
    BY <1>1, <2>1, <2>2
  <2>5. \A p \in Int : p % 2 = 0 => (p \in lo..hi <=> p \in portMin..portMax)
    BY <2>1, <2>2
  <2>6. \A p : p \in wantedPorts <=> p \in portMin..portMax /\ p % 2 = 0
    BY <2>2, <2>3, <2>4, <2>5
  <2> QED BY <1>3, <2>1, <2>4, <2>6
<1> QED BY <1>1, <1>2, <1>3

LEMMA Stretch ==
  ASSUME request \in [even : BOOLEAN, min : PortArgs, max : PortArgs],
         portMin <= portMax
  PROVE  /\ ports \in Nat \ {0} /\ stride * ports = (portMax - portMin) + stride
         /\ \A i \in 0..ports-1 : portMin + stride * i \in wantedPorts
<1>1. /\ portMin \in Int /\ portMax \in Int /\ stride \in {1, 2}
      /\ stride = 2 => request.even /\ portMin % 2 = 0 /\ portMax % 2 = 0
      /\ stride = 1 => ~request.even
      /\ wantedPorts = {p \in portMin..portMax : request.even => p % 2 = 0}
  BY Bounds
<1>2. ports = (portMax - portMin) \div stride + 1
  BY DEF ports
<1>3. CASE stride = 1
  BY <1>1, <1>2, <1>3
<1>4. CASE stride = 2
  <2>1. ports \in Nat \ {0} /\ 2 * ports = (portMax - portMin) + 2
    BY <1>1, <1>2, <1>4
  <2>2. \A i \in 0..ports-1 : portMin + 2 * i \in portMin..portMax /\ (portMin + 2 * i) % 2 = 0
    BY <1>1, <1>4, <2>1
  <2> QED BY <1>1, <1>4, <2>1, <2>2
<1> QED BY <1>1, <1>3, <1>4

LEMMA SameRequest ==
  ASSUME UNCHANGED request
  PROVE  /\ portMin' = portMin /\ portMax' = portMax /\ stride' = stride
         /\ ports' = ports /\ wantedPorts' = wantedPorts
         /\ (anyPort' <=> anyPort) /\ (onePort' <=> onePort)
<1>1. portMin' = portMin /\ portMax' = portMax /\ stride' = stride
  BY DEF portMin, portMax, stride
<1>2. wantedPorts' = wantedPorts
  BY DEF wantedPorts
<1>3. (anyPort' <=> anyPort) /\ (onePort' <=> onePort)
  BY DEF anyPort, onePort
<1> QED BY <1>1, <1>2, <1>3 DEF ports

\* A port in use: the search goes on to the next one, or has been everywhere.
LEMMA SearchGoesOn ==
  ASSUME request \in [even : BOOLEAN, min : PortArgs, max : PortArgs], Searching,
         UNCHANGED request, tried' = tried \cup {portCurrent},
         portCurrent' = nextPort(portCurrent), try' = try - 1
  PROVE  /\ try # 1 => Searching'
         /\ try = 1 => tried' = wantedPorts
<1>1. /\ portMin \in Int /\ portMax \in Int /\ stride \in {1, 2}
      /\ stride = 2 => request.even /\ portMin % 2 = 0 /\ portMax % 2 = 0
      /\ stride = 1 => ~request.even
      /\ wantedPorts = {p \in portMin..portMax : request.even => p % 2 = 0}
  BY Bounds
<1>2. /\ ports \in Nat \ {0} /\ stride * ports = (portMax - portMin) + stride
      /\ portMin <= portMax /\ try \in 1..ports
      /\ portCurrent \in wantedPorts /\ tried \subseteq wantedPorts
      /\ \A p \in wantedPorts : p \in tried <=> ahead(p) >= stride * try
  BY Stretch DEF Searching
<1>3. /\ portMin' = portMin /\ portMax' = portMax /\ stride' = stride
      /\ ports' = ports /\ wantedPorts' = wantedPorts
  BY SameRequest
<1>4. portCurrent' =
        IF portCurrent + stride > portMax THEN portMin ELSE portCurrent + stride
  BY DEF nextPort
<1>5. portCurrent \in Int /\ portMin <= portCurrent /\ portCurrent <= portMax
  BY <1>1, <1>2
<1>6. portCurrent' \in wantedPorts
  BY <1>1, <1>2, <1>4, <1>5
<1>7. \A p : ahead(p)' = IF p >= portCurrent' THEN p - portCurrent'
                         ELSE (p - portCurrent') + ((portMax - portMin) + stride)
  BY <1>3 DEF ahead
<1>8. ASSUME NEW p \in wantedPorts, p # portCurrent
      PROVE  ahead(p)' = ahead(p) - stride /\ ahead(p) \in Int
  <2>1. p \in Int /\ portMin <= p /\ p <= portMax
    BY <1>1
  <2>2. ahead(p) = IF p >= portCurrent THEN p - portCurrent
                   ELSE (p - portCurrent) + ((portMax - portMin) + stride)
    BY DEF ahead
  <2>3. CASE stride = 1
    BY <1>1, <1>4, <1>5, <1>7, <1>8, <2>1, <2>2, <2>3
  <2>4. CASE stride = 2
    <3>1. p % 2 = 0 /\ portCurrent % 2 = 0 /\ portMin % 2 = 0 /\ portMax % 2 = 0
      BY <1>1, <1>2, <2>4
    <3> QED BY <1>1, <1>4, <1>5, <1>7, <1>8, <2>1, <2>2, <2>4, <3>1
  <2> QED BY <1>1, <2>3, <2>4
<1>9. ASSUME NEW p, p = portCurrent
      PROVE  ahead(p)' = portMax - portMin
  <2>1. ahead(p)' = IF p >= portCurrent' THEN p - portCurrent'
                    ELSE (p - portCurrent') + ((portMax - portMin) + stride)
    BY <1>7
  <2>2. CASE stride = 1
    BY <1>1, <1>4, <1>5, <1>9, <2>1, <2>2
  <2>3. CASE stride = 2
    <3>1. portCurrent % 2 = 0 /\ portMin % 2 = 0 /\ portMax % 2 = 0
      BY <1>1, <1>2, <2>3
    <3> QED BY <1>1, <1>4, <1>5, <1>9, <2>1, <2>3, <3>1
  <2> QED BY <1>1, <2>2, <2>3
<1>10. \A p \in wantedPorts : p \in tried' <=> ahead(p)' >= stride * (try - 1)
  <2> SUFFICES ASSUME NEW p \in wantedPorts
               PROVE  p \in tried' <=> ahead(p)' >= stride * (try - 1)
    OBVIOUS
  <2>1. stride * (try - 1) = stride * try - stride
    BY <1>1, <1>2
  <2>2. CASE p = portCurrent
    <3>1. stride * (try - 1) <= portMax - portMin
      BY <1>1, <1>2
    <3> QED BY <1>9, <2>2, <3>1
  <2>3. CASE p # portCurrent
    <3>1. p \in tried' <=> ahead(p) >= stride * try
      BY <1>2, <2>3
    <3>2. stride * try \in Int /\ stride \in Int
      BY <1>1, <1>2
    <3>3. ahead(p)' = ahead(p) - stride /\ ahead(p) \in Int
      BY <1>8, <2>3
    <3> QED BY <2>1, <3>1, <3>2, <3>3
  <2> QED BY <2>2, <2>3
<1>11. tried' \subseteq wantedPorts
  BY <1>2
<1>12. ASSUME try # 1 PROVE Searching'
  <2>1. try' \in 1..ports
    BY <1>2, <1>12
  <2> QED BY <1>2, <1>3, <1>6, <1>10, <1>11, <2>1 DEF Searching
<1>13. ASSUME try = 1 PROVE tried' = wantedPorts
  <2>1. ASSUME NEW p \in wantedPorts PROVE p \in tried'
    <3>1. stride * (try - 1) = 0
      BY <1>1, <1>13
    <3>2. CASE p = portCurrent
      BY <3>2
    <3>3. CASE p # portCurrent
      <4>1. p \in Int /\ portMin <= p /\ p <= portMax
        BY <1>1
      <4>2. ahead(p)' >= 0
        BY <1>1, <1>4, <1>5, <1>7, <4>1
      <4> QED BY <1>10, <3>1, <4>2
    <3> QED BY <3>2, <3>3
  <2> QED BY <1>11, <2>1
<1> QED BY <1>12, <1>13

LEMMA ListenStarts == ListenInit => ListenInv
<1> SUFFICES ASSUME ListenInit PROVE ListenInv
  OBVIOUS
<1>1. PortsTried
  BY DEF ListenInit, PortsTried
<1> QED BY <1>1 DEF ListenInit, ListenInv

LEMMA ListenSteps ==
  ASSUME ListenInv, [ListenNext]_listenVars
  PROVE  ListenInv'
<1>0. /\ request \in [even : BOOLEAN, min : PortArgs, max : PortArgs]
      /\ inUse \subseteq Ports
      /\ outcome = "none" => tried = {}
      /\ outcome = "trying" => Searching
      /\ PortsTried
  BY DEF ListenInv
<1>1. CASE ListenOnce
  <2> DEFINE p == IF anyPort THEN 0 ELSE request.min
  <2>1. /\ anyPort \/ onePort
        /\ outcome' \in answer(p) /\ tried' = {p} /\ UNCHANGED <<request, inUse>>
    BY <1>1 DEF ListenOnce
  <2>2. outcome' \in {"error", "inuse", "bound"}
    BY <2>1 DEF answer
  <2>3. ASSUME ~anyPort, p <= MaxPort PROVE tried' = wantedPorts
    <3>1. request.min \in Int /\ request.max \in Int /\ MaxPort \in Int
      BY <1>0, RequestType
    <3>2. request.min = request.max /\ ~request.even /\ p = request.min /\ p > 0
      BY <2>1, <2>3, <3>1 DEF onePort, anyPort
    <3> HIDE DEF p
    <3>3. \A x : x \in wantedPorts <=> x = p
      BY <2>3, <3>1, <3>2 DEF wantedPorts, Ports
    <3> QED BY <2>1, <3>3
  <2>4. ASSUME ~anyPort, ~(p <= MaxPort)
        PROVE  onePort /\ request.min > MaxPort /\ outcome' # "inuse"
    <3>1. request.min \in Int /\ MaxPort \in Int
      BY <1>0, RequestType
    <3>2. onePort /\ p = request.min /\ p > MaxPort
      BY <2>1, <2>4, <3>1
    <3> QED BY <2>1, <3>2 DEF answer
  <2>5. PortsTried'
    <3>1. wantedPorts' = wantedPorts /\ (anyPort' <=> anyPort) /\ (onePort' <=> onePort)
      BY <2>1, SameRequest
    <3> HIDE DEF p
    <3> QED BY <2>1, <2>2, <2>3, <2>4, <3>1 DEF PortsTried
  <2> QED BY <1>0, <2>1, <2>2, <2>5 DEF ListenInv
<1>2. CASE ListenRange
  <2>1. /\ outcome = "none" /\ UNCHANGED <<request, inUse, tried>> /\ tried = {}
    BY <1>0, <1>2 DEF ListenRange
  <2>2. /\ wantedPorts' = wantedPorts /\ portMin' = portMin /\ portMax' = portMax
        /\ stride' = stride /\ ports' = ports
    BY <2>1, SameRequest
  <2>3. /\ portMin \in Int /\ portMax \in Int
        /\ wantedPorts = {p \in portMin..portMax : request.even => p % 2 = 0}
    BY <1>0, Bounds
  <2>4. CASE portMin > portMax
    <3>1. outcome' = "failed"
      BY <1>2, <2>4 DEF ListenRange
    <3>2. wantedPorts = {}
      BY <2>3, <2>4
    <3>3. PortsTried'
      BY <2>1, <2>2, <3>1, <3>2 DEF PortsTried
    <3> QED BY <1>0, <2>1, <3>1, <3>3 DEF ListenInv
  <2>5. CASE ~(portMin > portMax)
    <3>1. /\ outcome' = "trying" /\ try' = ports
          /\ \E i \in 0..ports-1 : portCurrent' = portMin + stride * i
      BY <1>2, <2>5 DEF ListenRange
    <3>2. portMin <= portMax
      BY <2>3, <2>5
    <3>3. /\ ports \in Nat \ {0} /\ stride * ports = (portMax - portMin) + stride
          /\ portCurrent' \in wantedPorts /\ stride \in {1, 2}
      BY <1>0, <3>1, <3>2, Stretch, Bounds
    <3>4. PICK c \in wantedPorts : c = portCurrent'
      BY <3>3
    <3>5. ASSUME NEW p \in wantedPorts PROVE ~(ahead(p)' >= stride * ports)
      <4>1. ahead(p)' = IF p >= c THEN p - c ELSE (p - c) + ((portMax - portMin) + stride)
        BY <2>2, <3>4 DEF ahead
      <4>2. /\ p \in Int /\ portMin <= p /\ p <= portMax
            /\ c \in Int /\ portMin <= c /\ c <= portMax
        BY <2>3
      <4>3. portMin \in Int /\ portMax \in Int /\ stride \in Int /\ stride >= 1
        BY <2>3, <3>3
      <4>4. ahead(p)' < (portMax - portMin) + stride /\ ahead(p)' \in Int
        BY <4>1, <4>2, <4>3
      <4> QED BY <3>3, <4>3, <4>4
    <3>6. Searching'
      <4>1. try' \in 1..ports
        BY <3>1, <3>3
      <4>2. \A p \in wantedPorts : p \in tried' <=> ahead(p)' >= stride * try'
        BY <2>1, <3>1, <3>5
      <4> QED BY <2>1, <2>2, <3>2, <3>3, <4>1, <4>2 DEF Searching
    <3>7. PortsTried'
      BY <2>1, <3>1 DEF PortsTried
    <3> QED BY <1>0, <2>1, <3>1, <3>6, <3>7 DEF ListenInv
  <2> QED BY <2>4, <2>5
<1>3. CASE Try
  <2>1. /\ outcome = "trying" /\ Searching
        /\ tried' = tried \cup {portCurrent} /\ UNCHANGED <<request, inUse>>
    BY <1>0, <1>3 DEF Try
  <2>2. wantedPorts' = wantedPorts
    BY <2>1, SameRequest
  <2>3. tried' \subseteq wantedPorts
    BY <2>1 DEF Searching
  <2>4. PICK a \in answer(portCurrent) :
          IF a = "inuse"
          THEN /\ portCurrent' = nextPort(portCurrent)
               /\ try' = try - 1
               /\ outcome' = IF try = 1 THEN "failed" ELSE "trying"
          ELSE outcome' = a /\ UNCHANGED <<portCurrent, try>>
    BY <1>3 DEF Try
  <2>5. CASE a = "inuse"
    <3>1. /\ portCurrent' = nextPort(portCurrent) /\ try' = try - 1
          /\ outcome' = IF try = 1 THEN "failed" ELSE "trying"
      BY <2>4, <2>5
    <3>2. (try # 1 => Searching') /\ (try = 1 => tried' = wantedPorts)
      BY <1>0, <2>1, <3>1, SearchGoesOn
    <3>3. PortsTried'
      BY <2>2, <2>3, <3>1, <3>2 DEF PortsTried
    <3> QED BY <1>0, <2>1, <3>1, <3>2, <3>3 DEF ListenInv
  <2>6. CASE a # "inuse"
    <3>1. outcome' \in {"error", "bound"}
      BY <2>4, <2>6 DEF answer
    <3>2. PortsTried'
      BY <2>2, <2>3, <3>1 DEF PortsTried
    <3> QED BY <1>0, <2>1, <3>1, <3>2 DEF ListenInv
  <2> QED BY <2>5, <2>6
<1>4. CASE OthersBind
  <2>1. UNCHANGED <<request, portCurrent, try, tried, outcome>>
    BY <1>4 DEF OthersBind
  <2>2. inUse' \subseteq Ports
    BY <1>0, <1>4 DEF OthersBind
  <2>3. PortsTried' /\ (outcome' = "trying" => Searching')
    BY <1>0, <2>1, SameRequest DEF PortsTried, Searching, ahead
  <2> QED BY <1>0, <2>1, <2>2, <2>3 DEF ListenInv
<1>5. CASE UNCHANGED listenVars
  <2>1. UNCHANGED <<request, portCurrent, try, inUse, tried, outcome>>
    BY <1>5 DEF listenVars
  <2>2. PortsTried' /\ (outcome' = "trying" => Searching')
    BY <1>0, <2>1, SameRequest DEF PortsTried, Searching, ahead
  <2> QED BY <1>0, <2>1, <2>2 DEF ListenInv
<1> QED BY <1>1, <1>2, <1>3, <1>4, <1>5 DEF ListenNext

----------------------------------------------------------------------------
(* Close of an SRTP session.                                               *)

SRTPTypeOK ==
  /\ pionOpen \in BOOLEAN
  /\ streams \subseteq Streams /\ accepted \subseteq Streams /\ shut \subseteq Streams
  /\ hand \in [Acceptors -> Streams \cup {NoStream}]
  /\ closing \in [Closers -> {"idle", "stopped", "took", "done"}]
  /\ taken \in [Closers -> SUBSET Streams]

\* A stream that pion handed over is in hand, listed, taken by a closer or closed.
StreamsAccounted ==
  \A s \in accepted :
    \/ s \in streams \/ s \in shut
    \/ \E a \in Acceptors : hand[a] = s
    \/ \E c \in Closers : s \in taken[c]

\* pion is stopped before the list is taken, and so whatever is in hand or listed
\* after that was in hand when the list was taken last.
NothingNew ==
  /\ pionOpen => \A c \in Closers : closing[c] = "idle"
  /\ \A c \in Closers : taken[c] # {} => closing[c] = "took"
  /\ (\E c \in Closers : closing[c] \in {"took", "done"}) =>
       /\ streams \subseteq missed
       /\ \A a \in Acceptors : hand[a] # NoStream => hand[a] \in missed

SRTPInv == SRTPTypeOK /\ StreamsAccounted /\ NothingNew

LEMMA SRTPStarts == SRTPInit => SRTPInv
<1> SUFFICES ASSUME SRTPInit PROVE SRTPInv
  OBVIOUS
<1>1. SRTPTypeOK
  BY DEF SRTPInit, SRTPTypeOK
<1>2. StreamsAccounted
  BY DEF SRTPInit, StreamsAccounted
<1>3. NothingNew
  BY DEF SRTPInit, NothingNew
<1> QED BY <1>1, <1>2, <1>3 DEF SRTPInv

LEMMA SRTPSteps ==
  ASSUME SRTPInv, [SRTPNext]_srtpVars
  PROVE  SRTPInv'
<1>0. SRTPTypeOK /\ StreamsAccounted /\ NothingNew
  BY DEF SRTPInv
<1>1. ASSUME NEW a \in Acceptors, Accept(a) PROVE SRTPInv'
  <2>1. PICK s \in Streams \ accepted :
          hand' = [hand EXCEPT ![a] = s] /\ accepted' = accepted \cup {s}
    BY <1>1 DEF Accept
  <2>2. /\ pionOpen /\ hand[a] = NoStream
        /\ UNCHANGED <<pionOpen, streams, closing, taken, shut, missed>>
    BY <1>1 DEF Accept
  <2>3. SRTPTypeOK'
    BY <1>0, <2>1, <2>2 DEF SRTPTypeOK
  <2>4. StreamsAccounted'
    <3>1. hand'[a] = s /\ \A b \in Acceptors \ {a} : hand'[b] = hand[b]
      BY <1>0, <2>1 DEF SRTPTypeOK
    <3>2. \A t \in accepted : t # NoStream
      BY <1>0, SRTPAssumption DEF SRTPTypeOK
    <3> QED BY <1>0, <2>1, <2>2, <3>1, <3>2 DEF StreamsAccounted
  <2>5. NothingNew'
    <3>1. \A c \in Closers : closing[c] = "idle"
      BY <1>0, <2>2 DEF NothingNew
    <3> QED BY <1>0, <2>2, <3>1 DEF NothingNew
  <2> QED BY <2>3, <2>4, <2>5 DEF SRTPInv
<1>2. ASSUME NEW a \in Acceptors, Keep(a) PROVE SRTPInv'
  <2>1. /\ hand[a] # NoStream /\ streams' = streams \cup {hand[a]}
        /\ hand' = [hand EXCEPT ![a] = NoStream]
        /\ UNCHANGED <<pionOpen, closing, taken, accepted, shut, missed>>
    BY <1>2 DEF Keep
  <2>2. hand'[a] = NoStream /\ \A b \in Acceptors \ {a} : hand'[b] = hand[b]
    BY <1>0, <2>1 DEF SRTPTypeOK
  <2>3. SRTPTypeOK'
    BY <1>0, <2>1 DEF SRTPTypeOK
  <2>4. StreamsAccounted'
    BY <1>0, <2>1, <2>2 DEF StreamsAccounted
  <2>5. NothingNew'
    BY <1>0, <2>1, <2>2 DEF NothingNew
  <2> QED BY <2>3, <2>4, <2>5 DEF SRTPInv
<1>3. ASSUME NEW c \in Closers, StopPackets(c) PROVE SRTPInv'
  <2>1. /\ closing[c] = "idle" /\ pionOpen' = FALSE
        /\ closing' = [closing EXCEPT ![c] = "stopped"]
        /\ UNCHANGED <<streams, hand, taken, accepted, shut, missed>>
    BY <1>3 DEF StopPackets
  <2>2. closing'[c] = "stopped" /\ \A d \in Closers \ {c} : closing'[d] = closing[d]
    BY <1>0, <2>1 DEF SRTPTypeOK
  <2>3. SRTPTypeOK'
    BY <1>0, <2>1 DEF SRTPTypeOK
  <2>4. StreamsAccounted'
    BY <1>0, <2>1 DEF StreamsAccounted
  <2>5. NothingNew'
    <3>1. taken[c] = {}
      BY <1>0, <2>1 DEF NothingNew
    <3> QED BY <1>0, <2>1, <2>2, <3>1 DEF NothingNew
  <2> QED BY <2>3, <2>4, <2>5 DEF SRTPInv
<1>4. ASSUME NEW c \in Closers, TakeStreams(c) PROVE SRTPInv'
  <2>1. /\ closing[c] = "stopped" /\ taken' = [taken EXCEPT ![c] = streams]
        /\ streams' = {} /\ closing' = [closing EXCEPT ![c] = "took"]
        /\ missed' = {hand[a] : a \in Acceptors} \ {NoStream}
        /\ UNCHANGED <<pionOpen, hand, accepted, shut>>
    BY <1>4 DEF TakeStreams, mayTake
  <2>2. closing'[c] = "took" /\ \A d \in Closers \ {c} : closing'[d] = closing[d]
    BY <1>0, <2>1 DEF SRTPTypeOK
  <2>3. taken'[c] = streams /\ \A d \in Closers \ {c} : taken'[d] = taken[d]
    BY <1>0, <2>1 DEF SRTPTypeOK
  <2>4. SRTPTypeOK'
    BY <1>0, <2>1 DEF SRTPTypeOK
  <2>5. taken[c] = {}
    BY <1>0, <2>1 DEF NothingNew
  <2>6. StreamsAccounted'
    BY <1>0, <2>1, <2>3, <2>5 DEF StreamsAccounted
  <2>7. NothingNew'
    <3>1. ~pionOpen'
      BY <1>0, <2>1 DEF NothingNew, SRTPTypeOK
    <3>2. \A d \in Closers : taken'[d] # {} => closing'[d] = "took"
      BY <1>0, <2>2, <2>3 DEF NothingNew
    <3>3. \A a \in Acceptors : hand'[a] # NoStream => hand'[a] \in missed'
      BY <2>1
    <3> QED BY <2>1, <3>1, <3>2, <3>3 DEF NothingNew
  <2> QED BY <2>4, <2>6, <2>7 DEF SRTPInv
<1>5. ASSUME NEW c \in Closers, CloseStream(c) PROVE SRTPInv'
  <2>1. /\ closing[c] = "took"
        /\ UNCHANGED <<pionOpen, streams, hand, accepted, missed>>
    BY <1>5 DEF CloseStream
  <2>2. CASE taken[c] = {}
    <3>1. closing' = [closing EXCEPT ![c] = "done"] /\ UNCHANGED <<taken, shut>>
      BY <1>5, <2>2 DEF CloseStream
    <3>2. closing'[c] = "done" /\ \A d \in Closers \ {c} : closing'[d] = closing[d]
      BY <1>0, <3>1 DEF SRTPTypeOK
    <3>3. SRTPTypeOK'
      BY <1>0, <2>1, <3>1 DEF SRTPTypeOK
    <3>4. StreamsAccounted'
      BY <1>0, <2>1, <3>1 DEF StreamsAccounted
    <3>5. NothingNew'
      BY <1>0, <2>1, <2>2, <3>1, <3>2 DEF NothingNew
    <3> QED BY <3>3, <3>4, <3>5 DEF SRTPInv
  <2>3. CASE taken[c] # {}
    <3>1. PICK s \in taken[c] : /\ shut' = shut \cup {s} /\ UNCHANGED closing
                                /\ taken' = [taken EXCEPT ![c] = @ \ {s}]
      BY <1>5, <2>3 DEF CloseStream
    <3>2. taken'[c] = taken[c] \ {s} /\ \A d \in Closers \ {c} : taken'[d] = taken[d]
      BY <1>0, <3>1 DEF SRTPTypeOK
    <3>3. SRTPTypeOK'
      BY <1>0, <2>1, <3>1 DEF SRTPTypeOK
    <3>4. StreamsAccounted'
      BY <1>0, <2>1, <3>1, <3>2 DEF StreamsAccounted
    <3>5. NothingNew'
      BY <1>0, <2>1, <3>1, <3>2 DEF NothingNew
    <3> QED BY <3>3, <3>4, <3>5 DEF SRTPInv
  <2> QED BY <2>2, <2>3
<1>6. CASE UNCHANGED srtpVars
  BY <1>0, <1>6 DEF srtpVars, SRTPInv, SRTPTypeOK, StreamsAccounted, NothingNew
<1> QED BY <1>1, <1>2, <1>3, <1>4, <1>5, <1>6 DEF SRTPNext

LEMMA OnlyInHand ==
  ASSUME SRTPInv
  PROVE  OnlyInHandLeaks
<1> SUFFICES ASSUME \E c \in Closers : closing[c] = "done",
                    \A c \in Closers : closing[c] \in {"idle", "done"},
                    NEW s \in accepted
             PROVE  s \in shut \/ s \in missed
  BY DEF OnlyInHandLeaks
<1>1. \A c \in Closers : taken[c] = {}
  BY DEF SRTPInv, NothingNew
<1>2. s # NoStream
  BY SRTPAssumption DEF SRTPInv, SRTPTypeOK
<1> QED BY <1>1, <1>2 DEF SRTPInv, StreamsAccounted, NothingNew

----------------------------------------------------------------------------
(* The resampler on soxr.                                                  *)

SoxrTypeOK ==
  /\ inRate \in Nat \ {0} /\ outRate \in Nat \ {0} /\ open \in BOOLEAN
  /\ maxIn \in Nat /\ fed \in Nat /\ produced \in Nat
  /\ stage \in {"idle", "process", "flush", "closed"} /\ doing \in {"write", "close"}
  /\ data \in Nat /\ input \in Nat /\ room \in Nat /\ dstFrame \in Nat
  /\ pcm \in Seq(Nat) /\ given \in Nat /\ skipped \in Nat /\ cut \in BOOLEAN

\* w.buf holds what soxr has emitted and the writer has not got, in order.
Collected ==
  /\ produced = given + Len(pcm)
  /\ \A i \in 1..Len(pcm) : pcm[i] = given + i

\* Resample comes round to soxr_process with all of its input and room for all of
\* its output, when the rates divide the length of the write.
DividesEvenly == (data * outRate) % inRate = 0

WholeInput ==
  stage = "process" /\ DividesEvenly =>
    input = data /\ (data = 0 \/ room * inRate = data * outRate)

Flushed ==
  /\ doing = "close" => data = 0
  /\ stage = "flush" /\ doing = "close" => cut \/ ready(fed) = 0

SoxrInv == SoxrTypeOK /\ Collected /\ WholeInput /\ Flushed

\* The division of a multiple of d, with less than d added to it.
LEMMA QuotientIs ==
  ASSUME NEW d \in Nat \ {0}, NEW q \in Int, NEW x \in Int, q * d <= x, x < q * d + d
  PROVE  x \div d = q
OBVIOUS

LEMMA QuotientNat ==
  ASSUME NEW d \in Nat \ {0}, NEW x \in Nat
  PROVE  /\ x \div d \in Nat /\ (x \div d) * d <= x
         /\ x % d = 0 => (x \div d) * d = x
OBVIOUS

LEMMA ProductNat ==
  ASSUME NEW a \in Nat, NEW b \in Nat \ {0}
  PROVE  a * b \in Nat /\ (a * b = 0 => a = 0)
OBVIOUS

\* The room of an output, and the input that soxr takes for it.
LEMMA RoomIs ==
  ASSUME SoxrTypeOK, NEW n \in Nat, NEW spare \in Nat
  PROVE  /\ roomFor(n, spare) \in Nat
         /\ (n * outRate) % inRate = 0 =>
              n = 0 \/ roomFor(n, spare) * inRate = n * outRate
<1>1. /\ inRate \in Nat \ {0} /\ outRate \in Nat \ {0} /\ maxIn \in Nat
      /\ FlushRoom \in Nat
  BY SoxrAssumption DEF SoxrTypeOK
<1> DEFINE x == n * outRate
           e == x \div inRate
           l == larger(maxIn, n)
<1>2. x \in Nat /\ (x = 0 => n = 0)
  BY <1>1, ProductNat
<1>3. l \in Nat
  BY <1>1 DEF larger
<1>4. l * outRate \in Nat
  BY <1>1, <1>3, ProductNat
<1>5. (l * outRate) \div inRate \in Nat
  BY <1>1, <1>4, QuotientNat
<1>6. e \in Nat /\ (x % inRate = 0 => e * inRate = x)
  BY <1>1, <1>2, QuotientNat
<1>7. roomFor(n, spare) = IF e # 0 THEN e
                          ELSE larger((l * outRate) \div inRate, larger(spare, FlushRoom))
  BY DEF roomFor
<1>8. roomFor(n, spare) \in Nat
  BY <1>1, <1>5, <1>6, <1>7 DEF larger
<1>9. e = 0 => e * inRate = 0
  BY <1>1
<1> HIDE DEF e, x
<1>10. x % inRate = 0 => n = 0 \/ roomFor(n, spare) * inRate = x
  BY <1>2, <1>6, <1>7, <1>9
<1> QED BY <1>8, <1>10 DEF x

LEMMA InputIs ==
  ASSUME SoxrTypeOK
  PROVE  /\ inputFor(room) \in 0..input
         /\ input = 0 \/ room * inRate = input * outRate => inputFor(room) = input
<1>1. inRate \in Nat \ {0} /\ outRate \in Nat \ {0} /\ room \in Nat /\ input \in Nat
  BY DEF SoxrTypeOK
<1> DEFINE x == room * inRate
           y == x + outRate - 1
<1>2. x \in Nat
  BY <1>1, ProductNat
<1>3. y \in Nat /\ y = x + outRate - 1
  BY <1>1, <1>2
<1>4. y \div outRate \in Nat
  BY <1>1, <1>3, QuotientNat
<1>5. inputFor(room) = fewer(input, y \div outRate)
  BY DEF inputFor
<1>6. x = input * outRate => y \div outRate = input
  <2> DEFINE z == input * outRate
  <2>1. SUFFICES ASSUME x = z PROVE y \div outRate = input
    OBVIOUS
  <2>2. z \in Nat
    BY <1>1, ProductNat
  <2> HIDE DEF x, y
  <2>3. z <= y /\ y < z + outRate
    <3> HIDE DEF z
    <3> QED BY <1>1, <1>3, <2>1, <2>2
  <2> QED BY <1>1, <1>3, <2>3, QuotientIs
<1> HIDE DEF y
<1>7. inputFor(room) \in 0..input
  BY <1>1, <1>4, <1>5 DEF fewer
<1>8. y \div outRate = input => inputFor(room) = input
  BY <1>5 DEF fewer
<1>9. input = 0 => inputFor(room) = input
  BY <1>7
<1> QED BY <1>6, <1>7, <1>8, <1>9 DEF x

LEMMA FrameSizeIs ==
  ASSUME SoxrTypeOK
  PROVE  larger(dstFrame, resampleSize(data)) \in Nat
<1>1. inRate \in Nat \ {0} /\ outRate \in Nat \ {0} /\ data \in Nat /\ dstFrame \in Nat
  BY DEF SoxrTypeOK
<1>2. CASE outRate < inRate
  <2>1. inRate \div outRate \in Nat \ {0}
    <3>1. inRate \div outRate \in Nat
      BY <1>1, QuotientNat
    <3>2. inRate \div outRate # 0
      <4>1. \A a, d \in Nat \ {0} : d < a => a \div d # 0
        OBVIOUS
      <4> QED BY <1>1, <1>2, <4>1
    <3> QED BY <3>1, <3>2
  <2>2. data \div (inRate \div outRate) \in Nat
    BY <1>1, <2>1, QuotientNat
  <2> QED BY <1>1, <1>2, <2>2 DEF resampleSize, larger
<1>3. CASE ~(outRate < inRate)
  <2>1. outRate \div inRate \in Nat
    BY <1>1, QuotientNat
  <2>2. data * (outRate \div inRate) \in Nat
    <3>1. \A a, b \in Nat : a * b \in Nat
      OBVIOUS
    <3> QED BY <1>1, <2>1, <3>1
  <2> QED BY <1>1, <1>3, <2>2 DEF resampleSize, larger
<1> QED BY <1>2, <1>3

LEMMA SoxrStarts == SoxrInit => SoxrInv
<1> SUFFICES ASSUME SoxrInit PROVE SoxrInv
  OBVIOUS
<1>1. inRate \in Nat \ {0} /\ outRate \in Nat \ {0}
  BY SoxrAssumption DEF SoxrInit
<1>2. pcm = <<>> /\ <<>> \in Seq(Nat) /\ Len(<<>>) = 0 /\ given = 0 /\ produced = 0
  BY DEF SoxrInit
<1>3. SoxrTypeOK
  <2>1. pcm \in Seq(Nat)
    BY <1>2
  <2>2. open \in BOOLEAN /\ cut \in BOOLEAN
    BY DEF SoxrInit
  <2>3. /\ maxIn = 0 /\ fed = 0 /\ produced = 0 /\ stage = "idle" /\ doing = "write"
        /\ data = 0 /\ input = 0 /\ room = 0 /\ dstFrame = 0 /\ given = 0 /\ skipped = 0
    BY DEF SoxrInit
  <2> QED BY <1>1, <2>1, <2>2, <2>3 DEF SoxrTypeOK
<1>4. Collected
  BY <1>2 DEF Collected
<1>5. WholeInput /\ Flushed
  BY DEF SoxrInit, WholeInput, Flushed
<1> QED BY <1>3, <1>4, <1>5 DEF SoxrInv

\* Resample is entered, for a write or to flush.
LEMMA SoxrEntered ==
  ASSUME SoxrInv, NEW n \in Nat, Resample(n), data' = n, doing' \in {"write", "close"},
         doing' = "close" => n = 0,
         UNCHANGED <<inRate, outRate, open, fed, produced, pcm, dstFrame, given, skipped, cut>>
  PROVE  SoxrInv'
<1>1. SoxrTypeOK /\ Collected
  BY DEF SoxrInv
<1>2. PICK spare \in 0..MaxSpare : room' = roomFor(n, spare)
  BY DEF Resample
<1>3. spare \in Nat
  BY SoxrAssumption
<1>4. /\ room' \in Nat
      /\ (n * outRate) % inRate = 0 => n = 0 \/ room' * inRate = n * outRate
  BY <1>1, <1>2, <1>3, RoomIs
<1>5. maxIn' \in Nat /\ input' = n /\ stage' = "process"
  BY <1>1 DEF Resample, larger, SoxrTypeOK
<1>6. SoxrTypeOK'
  BY <1>1, <1>4, <1>5 DEF SoxrTypeOK
<1>7. Collected'
  BY <1>1 DEF Collected
<1>8. WholeInput'
  BY <1>4, <1>5 DEF WholeInput, DividesEvenly
<1>9. Flushed'
  BY <1>5 DEF Flushed
<1> QED BY <1>6, <1>7, <1>8, <1>9 DEF SoxrInv

\* soxr takes some of the input and emits done samples.
LEMMA SoxrProcessed ==
  ASSUME SoxrInv, Process
  PROVE  SoxrInv' /\ given' = given /\ (skipped' # skipped => ~DividesEvenly)
<1>0. SoxrTypeOK /\ Collected /\ WholeInput /\ Flushed
  BY DEF SoxrInv
<1> DEFINE used == inputFor(room)
           most == ready(fed + used)
           rest == input - used
<1>1. PICK done \in 0..fewer(room, most) :
        /\ doing = "close" => done = fewer(room, most)
        /\ produced' = produced + done
        /\ pcm' = pcm \o [i \in 1..done |-> produced + i]
        /\ room' = room - done
        /\ cut' = (cut \/ (doing = "close" /\ done < most))
        /\ \/ resampled(rest)
           \/ rest # 0 /\ UNCHANGED <<stage, skipped, dstFrame, open>>
  BY DEF Process
<1>2. /\ stage = "process" /\ fed' = fed + used /\ input' = rest
      /\ UNCHANGED <<inRate, outRate, maxIn, doing, data, given, frame, writes>>
  BY DEF Process
<1>3. used \in 0..input /\ (input = 0 \/ room * inRate = input * outRate => used = input)
  BY <1>0, InputIs
<1>4. /\ inRate \in Nat \ {0} /\ outRate \in Nat \ {0} /\ fed \in Nat /\ produced \in Nat
      /\ input \in Nat /\ room \in Nat /\ given \in Nat /\ skipped \in Nat /\ pcm \in Seq(Nat)
  BY <1>0 DEF SoxrTypeOK
<1>5. fed + used \in Nat /\ rest \in Nat /\ (used = input => rest = 0)
  BY <1>3, <1>4
<1>6. most \in Int /\ most = ((fed + used) * outRate) \div inRate - produced
  <2>1. (fed + used) * outRate \in Nat
    BY <1>4, <1>5, ProductNat
  <2>2. ((fed + used) * outRate) \div inRate \in Nat
    BY <1>4, <2>1, QuotientNat
  <2> QED BY <1>4, <2>2 DEF ready
<1> HIDE DEF most
<1>7. done \in Nat /\ done <= room /\ done <= most
  BY <1>1, <1>4, <1>6 DEF fewer
<1>8. DividesEvenly => rest = 0
  <2>1. DividesEvenly => input = 0 \/ room * inRate = input * outRate
    BY <1>0, <1>2 DEF WholeInput
  <2> QED BY <1>3, <1>5, <2>1
<1>9. DividesEvenly' <=> DividesEvenly
  BY <1>2 DEF DividesEvenly
<1> HIDE DEF used, rest
<1>10. DividesEvenly => resampled(rest)
  BY <1>1, <1>8
<1>11. skipped' # skipped => ~DividesEvenly
  BY <1>4, <1>8, <1>10 DEF resampled
<1>12. SoxrTypeOK'
  <2> DEFINE new == [i \in 1..done |-> produced + i]
  <2>1. new \in Seq(Nat)
    <3>1. \A i \in 1..done : produced + i \in Nat
      BY <1>4, <1>7
    <3> QED BY <1>7, <3>1
  <2>2. pcm' \in Seq(Nat)
    BY <1>1, <1>4, <2>1, ConcatProperties
  <2>3. room' \in Nat /\ produced' \in Nat
    BY <1>1, <1>4, <1>7
  <2>4. /\ stage' \in {"process", "flush"} /\ skipped' \in Nat /\ dstFrame' \in Nat
        /\ open' \in BOOLEAN
    <3>1. CASE resampled(rest)
      <4>1. larger(dstFrame, resampleSize(data)) \in Nat
        BY <1>0, FrameSizeIs
      <4> QED BY <1>0, <1>4, <1>5, <3>1, <4>1 DEF resampled, SoxrTypeOK
    <3>2. CASE UNCHANGED <<stage, skipped, dstFrame, open>>
      BY <1>0, <1>2, <3>2 DEF SoxrTypeOK
    <3> QED BY <1>1, <3>1, <3>2
  <2>5. cut' \in BOOLEAN
    BY <1>0, <1>1 DEF SoxrTypeOK
  <2>6. fed' \in Nat /\ input' \in Nat
    BY <1>2, <1>5
  <2> QED BY <1>0, <1>2, <2>2, <2>3, <2>4, <2>5, <2>6 DEF SoxrTypeOK
<1>13. Collected'
  <2> DEFINE new == [i \in 1..done |-> produced + i]
             l == Len(pcm)
  <2>1. new \in Seq(Nat) /\ Len(new) = done
    <3>1. \A i \in 1..done : produced + i \in Nat
      BY <1>4, <1>7
    <3> QED BY <1>7, <3>1
  <2>2. /\ Len(pcm') = l + done /\ l \in Nat
        /\ \A i \in 1..l + done : pcm'[i] = IF i <= l THEN pcm[i] ELSE new[i - l]
    BY <1>1, <1>4, <2>1, ConcatProperties, LenProperties
  <2>3. produced = given + l /\ \A i \in 1..l : pcm[i] = given + i
    BY <1>0 DEF Collected
  <2>4. ASSUME NEW i \in 1..l + done PROVE pcm'[i] = given + i
    <3>1. CASE i <= l
      <4>1. i \in 1..l
        BY <2>2, <3>1
      <4>2. pcm'[i] = pcm[i]
        BY <2>2, <3>1
      <4> QED BY <2>3, <4>1, <4>2
    <3>2. CASE i > l
      <4>1. i - l \in 1..done
        BY <1>7, <2>2, <3>2
      <4>2. new[i - l] = produced + (i - l)
        BY <4>1
      <4>3. pcm'[i] = new[i - l]
        BY <2>2, <3>2
      <4> HIDE DEF new, l
      <4> QED BY <1>4, <2>2, <2>3, <4>1, <4>2, <4>3
    <3> QED BY <2>2, <3>1, <3>2
  <2>5. produced' = given + (l + done)
    <3> HIDE DEF l
    <3> QED BY <1>1, <1>4, <1>7, <2>2, <2>3
  <2> QED BY <1>2, <2>2, <2>4, <2>5 DEF Collected
<1>14. WholeInput'
  <2>1. DividesEvenly => stage' = "flush"
    BY <1>10 DEF resampled
  <2> QED BY <1>9, <2>1 DEF WholeInput
<1>15. Flushed'
  <2>1. doing' = "close" => data' = 0
    BY <1>0, <1>2 DEF Flushed
  <2>2. ready(fed)' = most - done
    <3>1. ready(fed)' = ((fed + used) * outRate) \div inRate - (produced + done)
      BY <1>1, <1>2 DEF ready
    <3> DEFINE q == ((fed + used) * outRate) \div inRate
    <3>2. q \in Int
      <4>1. (fed + used) * outRate \in Nat
        BY <1>4, <1>5, ProductNat
      <4> QED BY <1>4, <4>1, QuotientNat
    <3>3. ready(fed)' = q - (produced + done) /\ most = q - produced
      BY <1>6, <3>1
    <3> HIDE DEF q
    <3> QED BY <1>4, <1>7, <3>2, <3>3
  <2>3. doing = "close" => cut' \/ most - done = 0
    <3>1. done < most \/ most - done = 0
      BY <1>6, <1>7
    <3>2. doing = "close" /\ done < most => cut'
      BY <1>1
    <3> QED BY <3>1, <3>2
  <2> QED BY <1>2, <2>1, <2>2, <2>3 DEF Flushed
<1>16. given' = given
  BY <1>2
<1> QED BY <1>11, <1>12, <1>13, <1>14, <1>15, <1>16 DEF SoxrInv

\* flush writes a frame.
LEMMA SoxrFlushed ==
  ASSUME SoxrInv, FlushFrame
  PROVE  /\ SoxrInv'
         /\ \A i \in 1..Len(frame') : frame'[i] = given + i
         /\ given' = given + Len(frame')
         /\ doing = "write" /\ dstFrame > 0 => Len(frame') = dstFrame
<1>0. SoxrTypeOK /\ Collected /\ WholeInput /\ Flushed
  BY DEF SoxrInv
<1> DEFINE l == Len(pcm)
           size == IF dstFrame = 0 THEN l ELSE fewer(dstFrame, l)
<1>1. /\ stage = "flush" /\ l >= minSize
      /\ frame' = SubSeq(pcm, 1, size) /\ given' = given + size
      /\ pcm' = SubSeq(pcm, size + 1, l)
      /\ UNCHANGED <<lib, stage, doing, data, input, room, dstFrame, skipped, cut, writes>>
  BY DEF FlushFrame
<1>2. /\ pcm \in Seq(Nat) /\ l \in Nat /\ given \in Nat /\ dstFrame \in Nat
      /\ size \in Nat /\ size <= l
  BY <1>0, LenProperties DEF SoxrTypeOK, fewer
<1>3. doing = "write" /\ dstFrame > 0 => size = dstFrame
  BY <1>1, <1>2 DEF minSize, fewer
<1>4. UNCHANGED <<inRate, outRate, open, maxIn, fed, produced>>
  BY <1>1 DEF lib
<1> HIDE DEF size, l
<1>5. Len(frame') = size /\ \A j \in 1..size : frame'[j] = pcm[j]
  <2>1. /\ Len(SubSeq(pcm, 1, size)) = size - 1 + 1
        /\ \A j \in 1..size - 1 + 1 : SubSeq(pcm, 1, size)[j] = pcm[1 + j - 1]
    <3>1. 1 \in 1..Len(pcm) + 1 /\ size \in 0..Len(pcm) /\ 1 - 1 <= size
      BY <1>2 DEF l
    <3> QED BY <1>2, <3>1, SliceProperties
  <2>2. size - 1 + 1 = size /\ \A j \in 1..size : 1 + j - 1 = j
    BY <1>2
  <2> QED BY <1>1, <2>1, <2>2
<1>6. /\ pcm' \in Seq(Nat) /\ Len(pcm') = l - size
      /\ \A j \in 1..l - size : pcm'[j] = pcm[size + j]
  <2>1. /\ pcm' \in Seq(Nat) /\ Len(pcm') = l - (size + 1) + 1
        /\ \A j \in 1..l - (size + 1) + 1 : pcm'[j] = pcm[(size + 1) + j - 1]
    <3>1. size + 1 \in 1..Len(pcm) + 1 /\ l \in 0..Len(pcm) /\ (size + 1) - 1 <= l
      BY <1>2 DEF l
    <3> QED BY <1>1, <1>2, <3>1, SliceProperties
  <2>2. l - (size + 1) + 1 = l - size /\ \A j \in 1..l - size : (size + 1) + j - 1 = size + j
    BY <1>2
  <2> QED BY <2>1, <2>2
<1>7. produced = given + l /\ \A i \in 1..l : pcm[i] = given + i
  BY <1>0 DEF Collected, l
<1>8. \A i \in 1..size : frame'[i] = given + i
  BY <1>2, <1>5, <1>7
<1>9. Collected'
  <2>1. produced' = given' + (l - size)
    BY <1>1, <1>2, <1>4, <1>7
  <2>2. ASSUME NEW i \in 1..l - size PROVE pcm'[i] = given' + i
    <3>1. size + i \in 1..l /\ given' + i = given + (size + i)
      BY <1>1, <1>2
    <3> QED BY <1>6, <1>7, <3>1
  <2> QED BY <1>6, <2>1, <2>2 DEF Collected
<1>10. SoxrTypeOK'
  <2>1. given' \in Nat
    BY <1>1, <1>2
  <2> QED BY <1>0, <1>1, <1>4, <1>6, <2>1 DEF SoxrTypeOK
<1>11. WholeInput'
  BY <1>1 DEF WholeInput
<1>12. Flushed'
  BY <1>0, <1>1, <1>4 DEF Flushed, ready
<1> QED BY <1>1, <1>3, <1>5, <1>8, <1>9, <1>10, <1>11, <1>12 DEF SoxrInv

\* flush ends; a Close has then nothing left.
LEMMA SoxrReturns ==
  ASSUME SoxrInv, FlushEnds
  PROVE  SoxrInv' /\ (stage' = "closed" => given = produced /\ (cut \/ ready(fed) = 0))
<1>0. SoxrTypeOK /\ Collected /\ WholeInput /\ Flushed
  BY DEF SoxrInv
<1>1. /\ stage = "flush" /\ (pcm = <<>> \/ Len(pcm) < minSize)
      /\ stage' = (IF doing = "write" THEN "idle" ELSE "closed")
      /\ UNCHANGED <<inRate, outRate, open, maxIn, fed, produced, doing, data, input, room,
                     pcm, dstFrame, given, skipped, cut>>
  BY DEF FlushEnds, lib, history
<1>2. SoxrTypeOK' /\ Collected' /\ WholeInput' /\ Flushed'
  <2>1. SoxrTypeOK'
    BY <1>0, <1>1 DEF SoxrTypeOK
  <2>2. Collected'
    BY <1>0, <1>1 DEF Collected
  <2>3. WholeInput' /\ Flushed'
    BY <1>0, <1>1 DEF WholeInput, Flushed
  <2> QED BY <2>1, <2>2, <2>3
<1>3. ASSUME stage' = "closed" PROVE given = produced /\ (cut \/ ready(fed) = 0)
  <2>1. doing = "close" /\ minSize = 0
    BY <1>0, <1>1, <1>3 DEF minSize, SoxrTypeOK
  <2>2. Len(pcm) \in Nat
    BY <1>0, LenProperties DEF SoxrTypeOK
  <2>3. Len(pcm) = 0
    BY <1>1, <2>1, <2>2
  <2>4. given = produced
    BY <1>0, <2>3 DEF Collected, SoxrTypeOK
  <2> QED BY <1>0, <1>1, <2>1, <2>4 DEF Flushed
<1> QED BY <1>2, <1>3 DEF SoxrInv

\* What SoxrWhole says of a step.
SoxrStep ==
  /\ given' # given =>
       /\ \A i \in 1..Len(frame') : frame'[i] = given + i
       /\ given' = given + Len(frame')
       /\ doing = "write" /\ dstFrame > 0 => Len(frame') = dstFrame
  /\ stage = "flush" /\ stage' = "closed" =>
       given = produced /\ (cut \/ ready(fed) = 0)
  /\ skipped' # skipped => (data * outRate) % inRate # 0

LEMMA SoxrSteps ==
  ASSUME SoxrInv, [SoxrNext]_soxrVars
  PROVE  SoxrInv' /\ SoxrStep
<1>1. ASSUME NEW n \in DataLens, WriteData(n) PROVE SoxrInv' /\ SoxrStep
  <2>1. /\ n \in Nat /\ Resample(n) /\ data' = n /\ doing' = "write" /\ stage = "idle"
        /\ UNCHANGED <<inRate, outRate, open, fed, produced, pcm, dstFrame, given, skipped, cut>>
    BY <1>1, SoxrAssumption DEF WriteData
  <2>2. SoxrInv'
    BY <2>1, SoxrEntered
  <2> QED BY <2>1, <2>2 DEF SoxrStep
<1>2. CASE CloseSoxr
  <2>1. /\ Resample(0) /\ data' = 0 /\ doing' = "close" /\ stage = "idle"
        /\ UNCHANGED <<inRate, outRate, open, fed, produced, pcm, dstFrame, given, skipped, cut>>
    BY <1>2 DEF CloseSoxr, history
  <2>2. SoxrInv'
    BY <2>1, SoxrEntered
  <2> QED BY <2>1, <2>2 DEF SoxrStep
<1>3. CASE Process
  <2>1. stage = "process"
    BY <1>3 DEF Process
  <2> QED BY <1>3, <2>1, SoxrProcessed DEF SoxrStep, DividesEvenly
<1>4. CASE FlushFrame
  <2>1. stage' = stage /\ skipped' = skipped
    BY <1>4 DEF FlushFrame
  <2> QED BY <1>4, <2>1, SoxrFlushed DEF SoxrStep
<1>5. CASE FlushEnds
  <2>1. given' = given /\ skipped' = skipped
    BY <1>5 DEF FlushEnds, history
  <2> QED BY <1>5, <2>1, SoxrReturns DEF SoxrStep
<1>6. CASE UNCHANGED soxrVars
  <2>1. UNCHANGED <<inRate, outRate, open, maxIn, fed, produced, stage, doing, data, input,
                    room, pcm, dstFrame, given, frame, skipped, cut, writes>>
    BY <1>6 DEF soxrVars, lib, history
  <2>2. SoxrInv'
    <3>1. SoxrTypeOK'
      BY <2>1 DEF SoxrInv, SoxrTypeOK
    <3>2. Collected'
      BY <2>1 DEF SoxrInv, Collected
    <3>3. WholeInput' /\ Flushed'
      BY <2>1 DEF SoxrInv, WholeInput, Flushed, DividesEvenly, ready
    <3> QED BY <3>1, <3>2, <3>3 DEF SoxrInv
  <2> QED BY <2>1, <2>2 DEF SoxrStep
<1> QED BY <1>1, <1>2, <1>3, <1>4, <1>5, <1>6 DEF SoxrNext

----------------------------------------------------------------------------
(* The theorems.                                                           *)

\* Whatever port the search starts from, whatever the range and whatever other
\* programs bind and free meanwhile, bindRange and bindEvenRange try only ports
\* that were asked for and fail only after each of them was in use.
THEOREM PortsTriedHolds == BlocksSpec => []PortsTried
<1>1. BlocksInit => ListenInv
  BY ListenStarts DEF BlocksInit
<1>2. ListenInv /\ [BlocksNext]_blockVars => ListenInv'
  <2>1. [BlocksNext]_blockVars => [ListenNext]_listenVars
    BY DEF BlocksNext, blockVars
  <2> QED BY <2>1, ListenSteps
<1>3. ListenInv => PortsTried
  BY DEF ListenInv
<1> QED BY <1>1, <1>2, <1>3, PTL DEF BlocksSpec

\* However many goroutines accept streams and close the SRTP session, when the
\* calls of Close are over the only streams that are left open are those that
\* were between pion's AcceptStream and the list when it was taken.
THEOREM OnlyInHandLeaksHolds == BlocksSpec => []OnlyInHandLeaks
<1>1. BlocksInit => SRTPInv
  BY SRTPStarts DEF BlocksInit
<1>2. SRTPInv /\ [BlocksNext]_blockVars => SRTPInv'
  <2>1. [BlocksNext]_blockVars => [SRTPNext]_srtpVars
    BY DEF BlocksNext, blockVars
  <2> QED BY <2>1, SRTPSteps
<1>3. SRTPInv => OnlyInHandLeaks
  BY OnlyInHand
<1> QED BY <1>1, <1>2, <1>3, PTL DEF BlocksSpec

\* The ring buffer of the run implements the bounded queue: the specification
\* that TLC checks is the one RingRefines is about.
THEOREM BlocksRingIsFifo == BlocksSpec => RingIsFifo
<1>1. BlocksInit => RingInit
  BY DEF BlocksInit
<1>2. [BlocksNext]_blockVars => [RingNext]_ringVars
  BY DEF BlocksNext, blockVars
<1> QED BY <1>1, <1>2, RingRefines, PTL DEF BlocksSpec, RingSpec

\* Whatever soxr holds back and however the writes are cut, the writer behind the
\* resampler gets every sample once and in order, in whole frames until the close
\* and with the rest then, and input is skipped only where the rates do not divide
\* the length of a write.
THEOREM SoxrWholeHolds == BlocksSpec => SoxrWhole
<1>1. BlocksInit => SoxrInv
  BY SoxrStarts DEF BlocksInit
<1>2. [BlocksNext]_blockVars => [SoxrNext]_soxrVars
  BY DEF BlocksNext, blockVars
<1>3. SoxrInv /\ [BlocksNext]_blockVars => SoxrInv'
  BY <1>2, SoxrSteps
<1>4. SoxrInv /\ [BlocksNext]_blockVars => [SoxrStep]_soxrVars
  BY <1>2, SoxrSteps
<1>5. [][SoxrStep]_soxrVars => SoxrWhole
  BY PTL DEF SoxrWhole, SoxrStep
<1> QED BY <1>1, <1>3, <1>4, <1>5, PTL DEF BlocksSpec
=============================================================================
