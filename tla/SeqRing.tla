------------------------------- MODULE SeqRing ------------------------------
(***************************************************************************)
(* RingNumber<uint16_t, int16_t, int16_t> (NRTPMap.hpp), the type NRTPSeq  *)
(* of RTP sequence numbers: unsigned values that wrap and a signed         *)
(* distance between them.  HalfRange is 2^15 in the code.                  *)
(***************************************************************************)
EXTENDS Integers

CONSTANT HalfRange   \* half the number of sequence numbers

ASSUME HalfRangeAssumption == HalfRange \in Nat \ {0}

SeqRange == 2 * HalfRange

SeqNum == 0 .. SeqRange - 1

\* operator+
Plus(s, d) == (s + d) % SeqRange

\* How far `to' is ahead of `from', in -HalfRange .. HalfRange - 1: the
\* conversion of an unsigned difference to int16_t.
distance(from, to) ==
  LET d == (to - from) % SeqRange
  IN  IF d < HalfRange THEN d ELSE d - SeqRange
=============================================================================
