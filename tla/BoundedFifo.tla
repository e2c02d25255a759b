----------------------------- MODULE BoundedFifo -----------------------------
(***************************************************************************)
(* What ring.Buffer promises (the comments of ring/buffer.go): a queue of  *)
(* at most Size elements.  Push and Write discard the oldest elements when *)
(* there is no room, TryPush refuses; Read, TryPop and TryPeek hand out    *)
(* the oldest first.  ret is what the last call returned.                  *)
(***************************************************************************)
EXTENDS Fifo

CONSTANTS Size,      \* the capacity
          Values,    \* the elements
          MaxCopy    \* bound on the length of a slice given to Read or Write

VARIABLES items, ret

fifoVars == <<items, ret>>

Slices == UNION {[1..n -> Values] : n \in 0..MaxCopy}

Result(n, vals) == [n |-> n, vals |-> vals]

FifoInit == items = <<>> /\ ret = Result(0, <<>>)

TryPush(v) ==
  IF Len(items) = Size
    THEN items' = items /\ ret' = Result(0, <<>>)
    ELSE items' = Append(items, v) /\ ret' = Result(1, <<>>)

Push(v) ==
  /\ items' = newest(Append(items, v), Size)
  /\ ret' = Result(1, <<>>)

TryPeek ==
  /\ items' = items
  /\ ret' = Result(Least(1, Len(items)), oldest(items, 1))

\* TryPop is Read with room for one element.
Read(k) ==
  /\ items' = without(items, k)
  /\ ret' = Result(Least(k, Len(items)), oldest(items, k))

Write(p) ==
  /\ items' = newest(items \o p, Size)
  /\ ret' = Result(Len(p), <<>>)

FifoNext ==
  \/ \E v \in Values : TryPush(v) \/ Push(v)
  \/ TryPeek
  \/ \E k \in 0..MaxCopy : Read(k)
  \/ \E p \in Slices : Write(p)

FifoSpec == FifoInit /\ [][FifoNext]_fifoVars
=============================================================================
