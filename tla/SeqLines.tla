------------------------------ MODULE SeqLines ------------------------------
(***************************************************************************)
(* Sequence lines (jitter/lines.go): runs of packets on one SSRC that      *)
(* continue each other's numbering.  The vote keeps the line that plays    *)
(* (cur) and one alternate (alt), and decides for each packet whether it   *)
(* belongs to the playing line, is a stray, or makes its line take over.   *)
(*                                                                         *)
(* The sequence distances are the code's.  The durations and the packet    *)
(* count are constants, so that a model can scale them down.               *)
(***************************************************************************)
EXTENDS SeqArith, Sequences, FiniteSetsExt

CONSTANTS LineQuiet,       \* 60ms in the code
          LineWindow,      \* 300ms
          LineParallel,    \* 1s
          LineMinPackets   \* 5

ASSUME LineAssumption ==
  /\ LineQuiet \in Nat /\ LineWindow \in Nat /\ LineParallel \in Nat
  /\ LineQuiet <= LineWindow /\ LineWindow <= LineParallel
  /\ LineMinPackets \in Nat \ {0}

LineAhead  == 50
LineBehind == 100

\* type seqLine; times are naturals, and 0 stands for the zero time.Time.
SeqLine == [ok : BOOLEAN, high : SN, first : Nat, lastAt : Nat, at : Seq(Nat)]

NoLine == [ok |-> FALSE, high |-> 0, first |-> 0, lastAt |-> 0, at |-> <<>>]

LineVote == [cur : SeqLine, alt : SeqLine]

NoLines == [cur |-> NoLine, alt |-> NoLine]

fits(l, sn) ==
  l.ok /\ (Sub(sn, l.high) <= LineAhead \/ Sub(l.high, sn) <= LineBehind)

\* sn is a smaller forward step on l than on the playing line at high.
continues(l, sn, high) ==
  LET step == Sub(sn, l.high)
      jump == Sub(sn, high)
  IN l.ok /\ step >= 1 /\ step < jump /\ jump <= LineAhead

\* Mutant of add: a late packet pulls the line back.
MutAddLatest(l, sn, at) ==
  [ok |-> TRUE, high |-> sn, first |-> IF l.ok THEN l.first ELSE at,
   lastAt |-> at, at |-> Append(l.at, at)]

add(l, sn, at) ==
  [ok     |-> TRUE,
   high   |-> IF ~l.ok \/ before(l.high, sn) THEN sn ELSE l.high,
   first  |-> IF l.ok THEN l.first ELSE at,
   lastAt |-> at,
   at     |-> Append(l.at, at)]

\* The arrivals left once the leading ones older than window are skipped.
since(at, t, window) ==
  LET recent == {i \in 1..Len(at) : t - at[i] <= window}
  IN IF recent = {} THEN <<>> ELSE SubSeq(at, Min(recent), Len(at))

\* count is split in what it forgets and what it returns.
forget(l, t) == [l EXCEPT !.at = since(@, t, LineParallel)]

count(l, t, window) == Len(since(forget(l, t).at, t, window))

----------------------------------------------------------------------------
(* The parts of acceptLine: v is the vote before the packet sn at time t.   *)

plays(v, sn) ==
  ~v.cur.ok \/ (fits(v.cur, sn) /\ ~continues(v.alt, sn, v.cur.high))

\* The alternate line with the packet on it, begun afresh if it does not fit.
altWith(v, sn, t) == add(IF fits(v.alt, sn) THEN v.alt ELSE NoLine, sn, t)

parallel(v, alt) == v.cur.lastAt - alt.first >= LineParallel

quiet(v, alt, t) == ~parallel(v, alt) /\ t - v.cur.lastAt >= LineQuiet

rateWindow(v, alt) == IF parallel(v, alt) THEN LineParallel ELSE LineWindow

enough(v, alt, t) == count(alt, t, rateWindow(v, alt)) >= LineMinPackets

outDelivers(v, alt, t) ==
  /\ enough(v, alt, t)
  /\ count(alt, t, rateWindow(v, alt)) >= 2 * count(v.cur, t, rateWindow(v, alt))

takesOver(v, alt, t) == quiet(v, alt, t) \/ outDelivers(v, alt, t)

\* Counting forgets old arrivals: of alt unless the playing line is quiet, and
\* of cur only if alt has enough packets for the comparison to go on.
strayed(v, alt, t) ==
  [cur |-> IF enough(v, alt, t) THEN forget(v.cur, t) ELSE v.cur,
   alt |-> forget(alt, t)]

takenOver(v, alt, t) ==
  [cur |-> IF quiet(v, alt, t) THEN alt ELSE forget(alt, t), alt |-> NoLine]

\* Mutant of aheadOf: a line close behind passes for one ahead.
MutAheadEither(v, sn) == withinRange(sn, v.cur.high)

\* A line just ahead of the playing one is a gap, anything else a new start.
aheadOf(v, sn) == before(v.cur.high, sn) /\ withinRange(sn, v.cur.high)
=============================================================================
