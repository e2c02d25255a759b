----------------------------- MODULE ListLemmas -----------------------------
(***************************************************************************)
(* Facts about the library operators the models are built from: extrema of *)
(* sets of naturals, slices and insertions of sequences, what Fifo's       *)
(* operators take from and leave of a queue, and numbers that wrap.        *)
(***************************************************************************)
EXTENDS Fifo, SequencesExt, SequenceTheorems, WellFoundedInduction, TLAPS

\* A set of naturals that is not empty has a least element, and Min is it:
\* the searches of the list end where their first stop is.
LEMMA MinIsLeast ==
  ASSUME NEW S \in SUBSET Nat, S # {}
  PROVE  Min(S) \in S /\ \A y \in S : Min(S) <= y
<1>1. \E x \in S : \A y \in S : ~(<<y, x>> \in OpToRel(<, Nat))
  BY NatLessThanWellFounded, WFMin
<1>2. \E x \in S : \A y \in S : x <= y
  <2>1. \A x, y \in Nat : ~(<<y, x>> \in OpToRel(<, Nat)) => x <= y
    BY DEF OpToRel
  <2> QED BY <1>1, <2>1
<1> QED BY <1>2 DEF Min

\* A bounded set of naturals that is not empty has a greatest element, Max.
LEMMA MaxIsGreatest ==
  ASSUME NEW n \in Nat, NEW S \in SUBSET (0..n), S # {}
  PROVE  Max(S) \in S /\ \A y \in S : y <= Max(S)
<1> DEFINE T == {n - x : x \in S}
<1>1. T \in SUBSET Nat /\ T # {}
  <2>1. \A x \in S : n - x \in Nat
    OBVIOUS
  <2>2. PICK x \in S : TRUE
    OBVIOUS
  <2>3. n - x \in T
    BY <2>2
  <2> QED BY <2>1, <2>3
<1>2. PICK m \in T : \A y \in T : m <= y
  <2> HIDE DEF T
  <2> QED BY <1>1, MinIsLeast
<1>3. PICK x \in S : m = n - x
  BY <1>2
<1>4. \A y \in S : y <= x
  <2> TAKE y \in S
  <2>1. n - y \in T
    OBVIOUS
  <2>2. m <= n - y
    BY <1>2, <2>1
  <2> QED BY <1>3, <2>2
<1>5. \E z \in S : \A y \in S : z >= y
  BY <1>4
<1> QED BY <1>5 DEF Max

\* A slice of a sequence: its type, its length and its elements.
LEMMA SliceProperties ==
  ASSUME NEW S, NEW s \in Seq(S), NEW a \in 1..Len(s) + 1, NEW b \in 0..Len(s),
         a - 1 <= b
  PROVE  /\ SubSeq(s, a, b) \in Seq(S)
         /\ Len(SubSeq(s, a, b)) = b - a + 1
         /\ \A j \in 1..b - a + 1 : SubSeq(s, a, b)[j] = s[a + j - 1]
  OBVIOUS

\* Inserting one element: the sequence grows by one, and keeps its other
\* elements in their order.
LEMMA InsertAtProperties ==
  ASSUME NEW S, NEW s \in Seq(S), NEW i \in 1..Len(s) + 1, NEW e \in S
  PROVE  /\ InsertAt(s, i, e) \in Seq(S)
         /\ Len(InsertAt(s, i, e)) = Len(s) + 1
         /\ \A j \in 1..Len(s) + 1 :
              InsertAt(s, i, e)[j] = IF j < i THEN s[j]
                                     ELSE IF j = i THEN e ELSE s[j - 1]
<1> DEFINE L == SubSeq(s, 1, i - 1)
           R == SubSeq(s, i, Len(s))
           M == L \o <<e>>
<1>1. /\ L \in Seq(S) /\ Len(L) = i - 1
      /\ \A j \in 1..i - 1 : L[j] = s[j]
  BY SliceProperties
<1>2. /\ R \in Seq(S) /\ Len(R) = Len(s) - i + 1
      /\ \A j \in 1..Len(s) - i + 1 : R[j] = s[i + j - 1]
  BY SliceProperties
<1>3. InsertAt(s, i, e) = M \o R
  BY DEF InsertAt
<1> HIDE DEF L, R
<1>4. M \in Seq(S) /\ Len(M) = i /\ \A j \in 1..i : M[j] = IF j < i THEN L[j] ELSE e
  BY <1>1
<1> HIDE DEF M
<1>5. /\ M \o R \in Seq(S) /\ Len(M \o R) = Len(s) + 1
      /\ \A j \in 1..Len(s) + 1 : (M \o R)[j] = IF j <= i THEN M[j] ELSE R[j - i]
  <2>1. Len(M) \in Nat /\ Len(R) \in Nat /\ Len(M) + Len(R) = Len(s) + 1
    BY <1>2, <1>4
  <2>2. M \o R \in Seq(S) /\ Len(M \o R) = Len(M) + Len(R)
    BY <1>2, <1>4, ConcatProperties
  <2>3. ASSUME NEW j \in 1..Len(s) + 1
        PROVE  (M \o R)[j] = IF j <= i THEN M[j] ELSE R[j - i]
    BY <1>2, <1>4, <2>1, ConcatProperties
  <2> QED BY <2>1, <2>2, <2>3
<1> QED BY <1>1, <1>2, <1>3, <1>4, <1>5

----------------------------------------------------------------------------
(* What the operators of Fifo do.                                          *)

LEMMA OldestIs ==
  ASSUME NEW S, NEW s \in Seq(S), NEW k \in Nat
  PROVE  /\ oldest(s, k) \in Seq(S) /\ Len(oldest(s, k)) = Least(k, Len(s))
         /\ \A i \in 1..Least(k, Len(s)) : oldest(s, k)[i] = s[i]
<1> DEFINE m == Least(k, Len(s))
<1>1. Len(s) \in Nat /\ m \in Nat /\ m <= Len(s)
  BY LenProperties DEF Least
<1> HIDE DEF m
<1>2. \A i \in 1..m : s[i] \in S
  BY <1>1, ElementOfSeq
<1>3. 1 \in Int /\ m \in Int
  BY <1>1
<1>4. /\ SubSeq(s, 1, m) \in Seq(S) /\ Len(SubSeq(s, 1, m)) = IF 1 <= m THEN m - 1 + 1 ELSE 0
      /\ \A i \in 1 .. m - 1 + 1 : SubSeq(s, 1, m)[i] = s[1 + i - 1]
  BY <1>2, <1>3, SubSeqProperties
<1>5. Len(SubSeq(s, 1, m)) = m /\ \A i \in 1..m : SubSeq(s, 1, m)[i] = s[i]
  BY <1>1, <1>4
<1> QED BY <1>4, <1>5 DEF oldest, m

LEMMA WithoutIs ==
  ASSUME NEW S, NEW s \in Seq(S), NEW k \in Nat
  PROVE  /\ without(s, k) \in Seq(S) /\ Len(without(s, k)) = Len(s) - Least(k, Len(s))
         /\ \A i \in 1..(Len(s) - Least(k, Len(s))) :
              without(s, k)[i] = s[i + Least(k, Len(s))]
<1> DEFINE m == Least(k, Len(s))
           n == Len(s)
<1>1. n \in Nat /\ m \in Nat /\ m <= n
  BY LenProperties DEF Least
<1>2. \A i \in (m + 1)..n : s[i] \in S
  BY <1>1, ElementOfSeq
<1> HIDE DEF m, n
<1>3. m + 1 \in Int /\ n \in Int
  BY <1>1
<1>4. /\ SubSeq(s, m + 1, n) \in Seq(S)
      /\ Len(SubSeq(s, m + 1, n)) = IF m + 1 <= n THEN n - (m + 1) + 1 ELSE 0
      /\ \A i \in 1 .. n - (m + 1) + 1 : SubSeq(s, m + 1, n)[i] = s[(m + 1) + i - 1]
  BY <1>2, <1>3, SubSeqProperties
<1>5. Len(SubSeq(s, m + 1, n)) = n - m
      /\ \A i \in 1..(n - m) : SubSeq(s, m + 1, n)[i] = s[i + m]
  <2>1. \A i \in 1..(n - m) : i \in 1..(n - (m + 1) + 1) /\ (m + 1) + i - 1 = i + m
    BY <1>1
  <2> QED BY <1>1, <1>4, <2>1
<1> QED BY <1>4, <1>5 DEF without, m, n

LEMMA NewestIs ==
  ASSUME NEW S, NEW s \in Seq(S), NEW k \in Nat
  PROVE  /\ newest(s, k) \in Seq(S) /\ Len(newest(s, k)) = Least(k, Len(s))
         /\ \A i \in 1..Least(k, Len(s)) :
              newest(s, k)[i] = s[i + (Len(s) - Least(k, Len(s)))]
<1> DEFINE m == Least(k, Len(s))
           d == Len(s) - m
<1>1. Len(s) \in Nat /\ m \in Nat /\ m <= Len(s) /\ d \in Nat /\ d <= Len(s)
  BY LenProperties DEF Least
<1>2. newest(s, k) = without(s, d)
  BY DEF newest
<1> HIDE DEF m
<1>6. Len(s) - d = m
  BY <1>1
<1> HIDE DEF d
<1>3. Least(d, Len(s)) = d
  BY <1>1 DEF Least
<1>4. /\ without(s, d) \in Seq(S) /\ Len(without(s, d)) = Len(s) - Least(d, Len(s))
      /\ \A i \in 1..(Len(s) - Least(d, Len(s))) :
           without(s, d)[i] = s[i + Least(d, Len(s))]
  BY <1>1, WithoutIs
<1>5. /\ without(s, d) \in Seq(S) /\ Len(without(s, d)) = m
      /\ \A i \in 1..m : without(s, d)[i] = s[i + d]
  BY <1>3, <1>4, <1>6
<1> QED BY <1>2, <1>5 DEF m, d

----------------------------------------------------------------------------
(* Numbers that wrap: positions are distances from a first number.         *)

\* The distance of two numbers from their positions.
LEMMA WrapBetween ==
  ASSUME NEW N \in Nat \ {0}, NEW o \in 0..N-1, NEW a \in 0..N-1, NEW b \in 0..N-1
  PROVE  (a - b) % N = IF (b - o) % N <= (a - o) % N THEN ((a - o) % N) - ((b - o) % N)
                       ELSE N - (((b - o) % N) - ((a - o) % N))
<1>1. (a - b) % N = IF b <= a THEN a - b ELSE (a - b) + N
  OBVIOUS
<1>2. (a - o) % N = IF o <= a THEN a - o ELSE (a - o) + N
  OBVIOUS
<1>3. (b - o) % N = IF o <= b THEN b - o ELSE (b - o) + N
  OBVIOUS
<1> QED BY <1>1, <1>2, <1>3

\* Adding to a number adds to its position, within one turn.
LEMMA WrapAdds ==
  ASSUME NEW N \in Nat \ {0}, NEW o \in 0..N-1, NEW a \in 0..N-1, NEW k \in Nat,
         ((a - o) % N) + k < N
  PROVE  /\ (a + k) % N \in 0..N-1
         /\ (((a + k) % N) - o) % N = ((a - o) % N) + k
<1>1. (a - o) % N = IF o <= a THEN a - o ELSE (a - o) + N
  OBVIOUS
<1>2. (a + k) % N = IF a + k < N THEN a + k ELSE (a + k) - N
  <2>1. a + k < N + N
    BY <1>1
  <2> QED BY <2>1
<1>3. CASE a + k < N
  <2>1. ((a + k) - o) % N = IF o <= a + k THEN (a + k) - o ELSE ((a + k) - o) + N
    BY <1>3
  <2> QED BY <1>1, <1>2, <1>3, <2>1
<1>4. CASE ~(a + k < N)
  <2> DEFINE c == (a + k) - N
  <2>1. c \in 0..N-1
    BY <1>1, <1>4
  <2>2. (c - o) % N = IF o <= c THEN c - o ELSE (c - o) + N
    BY <2>1
  <2> QED BY <1>1, <1>2, <1>4, <2>1, <2>2
<1> QED BY <1>3, <1>4

\* Division with remainder.
LEMMA Divides ==
  ASSUME NEW N \in Nat \ {0}
  PROVE  /\ \A a \in Int : /\ a \div N \in Int /\ a % N \in 0..N-1
                           /\ a = N * (a \div N) + (a % N)
         /\ \A q \in Int, r \in 0..N-1 : (N * q + r) % N = r
OBVIOUS

\* The remainder of the next number.
LEMMA RemainderNext ==
  ASSUME NEW N \in Nat \ {0}, NEW a \in Int
  PROVE  (a + 1) % N = IF a % N = N - 1 THEN 0 ELSE (a % N) + 1
<1> DEFINE q == a \div N
           r == a % N
<1>1. q \in Int /\ r \in 0..N-1 /\ a = N * q + r
  BY Divides
<1> HIDE DEF q, r
<1>2. CASE r = N - 1
  <2>1. a + 1 = N * (q + 1) + 0 /\ q + 1 \in Int /\ 0 \in 0..N-1
    BY <1>1, <1>2
  <2>2. (N * (q + 1) + 0) % N = 0
    BY <2>1, Divides
  <2> QED BY <1>2, <2>1, <2>2 DEF r
<1>3. CASE r # N - 1
  <2>1. a + 1 = N * q + (r + 1) /\ r + 1 \in 0..N-1
    BY <1>1, <1>3
  <2>2. (N * q + (r + 1)) % N = r + 1
    BY <1>1, <2>1, Divides
  <2> QED BY <1>3, <2>1, <2>2 DEF r
<1> QED BY <1>2, <1>3

\* A remainder is the difference to the multiple below.
LEMMA RemainderIs ==
  ASSUME NEW N \in Nat \ {0}, NEW n \in Int, NEW p \in 0..N-1
  PROVE  n % N = p <=> (n - p) % N = 0
<1>1. ASSUME n % N = p PROVE (n - p) % N = 0
  <2> DEFINE q == n \div N
  <2>1. q \in Int /\ n = N * q + p
    BY <1>1, Divides
  <2> HIDE DEF q
  <2>2. n - p = N * q + 0 /\ 0 \in 0..N-1
    BY <2>1
  <2>3. (N * q + 0) % N = 0
    BY <2>1, <2>2, Divides
  <2> QED BY <2>2, <2>3
<1>2. ASSUME (n - p) % N = 0 PROVE n % N = p
  <2> DEFINE q == (n - p) \div N
  <2>1. n - p \in Int
    OBVIOUS
  <2>2. q \in Int /\ n - p = N * q + 0
    BY <1>2, <2>1, Divides
  <2> HIDE DEF q
  <2>3. n = N * q + p
    BY <2>2
  <2>4. (N * q + p) % N = p
    BY <2>2, Divides
  <2> QED BY <2>3, <2>4
<1> QED BY <1>1, <1>2

\* Within half a turn, the sign of a difference is the order of the positions.
LEMMA WrapAhead ==
  ASSUME NEW N \in Nat \ {0}, NEW o \in 0..N-1, NEW a \in 0..N-1, NEW b \in 0..N-1,
         (a - o) % N < N \div 2, (b - o) % N < N \div 2
  PROVE  /\ (a - b) % N \in 1..(N \div 2 - 1) <=> (b - o) % N < (a - o) % N
         /\ (b - o) % N <= (a - o) % N => (a - b) % N = ((a - o) % N) - ((b - o) % N)
<1> DEFINE x == (a - o) % N
           y == (b - o) % N
           d == (a - b) % N
           H == N \div 2
<1>1. d = IF y <= x THEN x - y ELSE N - (y - x)
  BY WrapBetween
<1>2. x \in Nat /\ y \in Nat /\ H \in Nat /\ H + H <= N
  OBVIOUS
<1> HIDE DEF x, y, d, H
<1>3. x < H /\ y < H
  BY DEF x, y, H
<1>4. d \in 1..H-1 <=> y < x
  BY <1>1, <1>2, <1>3
<1> QED BY <1>1, <1>4 DEF x, y, d, H
=============================================================================
