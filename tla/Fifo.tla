-------------------------------- MODULE Fifo --------------------------------
(***************************************************************************)
(* What a bounded first-in first-out buffer does to its contents: the      *)
(* vocabulary of the abstract buffer and of the components that hold one.  *)
(***************************************************************************)
EXTENDS Integers, Sequences

Least(m, n) == IF m <= n THEN m ELSE n

\* The first k elements of s, or all of them.
oldest(s, k) == SubSeq(s, 1, Least(k, Len(s)))

\* What is left of s once oldest(s, k) has been taken.
without(s, k) == SubSeq(s, Least(k, Len(s)) + 1, Len(s))

\* The last n elements of s, or all of them: the oldest are discarded.
newest(s, n) == without(s, Len(s) - Least(n, Len(s)))
=============================================================================
