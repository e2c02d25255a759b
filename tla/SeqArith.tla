------------------------------ MODULE SeqArith ------------------------------
(***************************************************************************)
(* RTP sequence numbers as jitter/buffer.go computes with them: uint16,    *)
(* so every sum and difference is taken modulo 2^16.                       *)
(***************************************************************************)
EXTENDS Integers

SNMod == 256 * 256                   \* 2^16, the number of uint16 values
Half  == 128 * 256                   \* 0x8000
Window == 3000                       \* withinRange's

SN == 0 .. SNMod - 1

Sub(a, b) == (a - b) % SNMod        \* uint16 a - b

NextSN(a) == (a + 1) % SNMod        \* uint16 a + 1

\* (b-a)&0x8000 == 0: b is a itself or at most 32767 ahead of a.  Reflexive.
before(a, b) == Sub(b, a) < Half

withinRange(a, b) == Sub(a, b) < Window \/ Sub(b, a) < Window

\* Mutant of missingBetween: the received packet is counted as missing too.
MutMissingOne(sn, prevSN) == Sub(sn, prevSN)

\* uint64(sn - prevSN - 1), evaluated in uint16.
missingBetween(sn, prevSN) == Sub(Sub(sn, prevSN), 1)
=============================================================================
