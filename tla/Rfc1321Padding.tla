--------------------------- MODULE Rfc1321Padding ---------------------------
(***************************************************************************)
(* The padding of RFC 1321 and the blocks it is cut into.                  *)
(***************************************************************************)
EXTENDS WordBytes

\* The length in bits of n bytes, n < 2^32, in eight bytes, the lowest first.
LengthInBits(n) ==
    <<(8 * n) % 256, (n \div 32) % 256, (n \div 8192) % 256, (n \div 2097152) % 256,
      n \div 536870912, 0, 0, 0>>

\* Steps 3.1 and 3.2: a one bit, zero bits up to 448 modulo 512, the length.
Padded(message) ==
    LET zeros == (119 - (Len(message) % 64)) % 64
    IN  message \o <<128>> \o [i \in 1 .. zeros |-> 0] \o LengthInBits(Len(message))

\* The k-th block of 64 bytes.
Piece(bytes, k) == SubSeq(bytes, 64 * k - 63, 64 * k)
=============================================================================
