----------------------------- MODULE WordBytes -----------------------------
(* 32-bit words as two halves, <<upper, lower>>, of 16 bits: C's unsigned  *)
(* int in md5sum.c, for a checker whose integers have 32 bits and a sign.  *)
EXTENDS Naturals, Sequences

Half == 65536

\* A word and its four bytes, the lowest first.
FromBytes(b) == <<b[3] + 256 * b[4], b[1] + 256 * b[2]>>
ToBytes(x)   == <<x[2] % 256, x[2] \div 256, x[1] % 256, x[1] \div 256>>
=============================================================================
