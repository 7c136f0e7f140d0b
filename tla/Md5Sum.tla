------------------------------- MODULE Md5Sum -------------------------------
(***************************************************************************)
(* file_manager/md5sum.c: sum() reads a file in pieces as large as fread   *)
(* returns them, keeps what does not yet fill whole blocks of 64 bytes,    *)
(* and feeds the rest to md5(), which pads the last piece in place.        *)
(*                                                                         *)
(* What md5() makes of one block is a parameter, Transform, here: nothing  *)
(* in this module depends on it, and Md5Block has the code's.  A digest is *)
(* its 16 bytes; "%.2X" and the base64 form, which hex = 1 switches off,   *)
(* are left out.                                                           *)
(***************************************************************************)
EXTENDS Rfc1321Padding

CONSTANTS Files,     \* contents the file may have, sequences of bytes
          ReadCap,   \* what buf takes before it is fed: 128*64 in the code
          Pieces,    \* how much one fread may return when more is left
          Nil,       \* no digest
          Garbage,   \* a digest that was never written
          Transform(_, _)   \* what one block makes of the four words

\* A file has less than 4 GB, so that the 32-bit length does not wrap.
ASSUME Md5Assumption ==
    /\ \A f \in Files : f \in Seq(0 .. 255) /\ Len(f) \div Half < Half
    /\ ReadCap \in Nat \ {0} /\ ReadCap % 64 = 0
    /\ Pieces \subseteq Nat \ {0}

BufSize == 2 * ReadCap

VARIABLES file,        \* what is on the disk
          taken,       \* how many of its bytes fread has returned
          buf,         \* buf[0] .. buf[n - 1]
          s,           \* MD5state: the bytes counted and four words
          noMemory,    \* calloc has failed in md5()
          sum_buffer   \* the result, Nil before it is there

vars == <<file, taken, buf, s, noMemory, sum_buffer>>

-----------------------------------------------------------------------------
(* md5()                                                                   *)

\* A state as md5() makes it when it is given none.  A state that has counted
\* nothing stands for none, for md5() is given whole blocks before the last.
Seed == [len |-> 0, state |-> << <<\h6745, \h2301>>, <<\hefcd, \hab89>>,
                                 <<\h98ba, \hdcfe>>, <<\h1032, \h5476>> >>]

\* Mutant: with 56 bytes in the last block there is still room for the count.
PadLengthAt56(len) == LET i == len % 64 IN IF i <= 56 THEN 56 - i ELSE 120 - i

\* The bytes of padding before the count.
PadLength(len) == LET i == len % 64 IN IF i < 56 THEN 56 - i ELSE 120 - i

\* Mutant: the count of the last call only.
CountOfLast(t, len) == len

\* s->len when len more bytes have come.
Count(t, len) == t.len + len

\* n << 3 and n >> 29, encoded.
Encoded(n) ==
    ToBytes(<<(n \div 8192) % Half, (8 * n) % Half>>) \o ToBytes(<<0, n \div 536870912>>)

\* buf when md5() has padded and counted what is in it.
Completed(p, t) ==
    p \o [i \in 1 .. PadLength(Len(p)) |-> IF i = 1 THEN 128 ELSE 0]
      \o Encoded(Count(t, Len(p)))

\* The state after the blocks of p, one after the other.
Blocks(state, p) ==
    LET after[k \in 0 .. Len(p) \div 64] ==
          IF k = 0 THEN state ELSE Transform(after[k - 1], Piece(p, k))
    IN  after[Len(p) \div 64]

\* md5() on whole blocks, with a state it has or made.
Fed(p, t) == [len |-> Count(t, Len(p)), state |-> Blocks(t.state, p)]

\* The bytes of the four words.
DigestOf(state) ==
    ToBytes(state[1]) \o ToBytes(state[2]) \o ToBytes(state[3]) \o ToBytes(state[4])

\* The last md5(): its digest, state encoded.
Ended(p, t) == DigestOf(Blocks(t.state, Completed(p, t)))

-----------------------------------------------------------------------------
(* sum()                                                                   *)

Init == /\ file \in Files
        /\ taken = 0
        /\ buf = <<>>
        /\ s = Seed
        /\ noMemory = FALSE
        /\ sum_buffer = Nil

\* Mutant: a full piece is read behind what was kept.
RoomIgnoresKept == ReadCap

\* What fread is asked for.
Room == ReadCap - Len(buf)

\* fread returns something; once buf holds whole blocks it is fed.  Without
\* memory for a state md5() drops the blocks and the next one starts over.
Read ==
    LET most == IF Room < Len(file) - taken THEN Room ELSE Len(file) - taken
    IN  /\ sum_buffer = Nil
        /\ \E i \in {j \in 1 .. most : j \in Pieces \/ j = most} :
             LET p == buf \o SubSeq(file, taken + 1, taken + i) IN
             /\ taken' = taken + i
             /\ \/ /\ Len(p) % 64 # 0
                   /\ buf' = p
                   /\ UNCHANGED <<s, noMemory>>
                \/ /\ Len(p) % 64 = 0
                   /\ buf' = <<>>
                   /\ s' = Fed(p, s)
                   /\ UNCHANGED noMemory
                \/ /\ Len(p) % 64 = 0 /\ s.len = 0
                   /\ buf' = <<>>
                   /\ noMemory' = TRUE
                   /\ UNCHANGED s
        /\ UNCHANGED <<file, sum_buffer>>

\* fread returns nothing: the file has ended, or cannot be read on.
ReadEnds ==
    /\ sum_buffer = Nil
    /\ \/ /\ sum_buffer' = Ended(buf, s)
          /\ UNCHANGED noMemory
       \/ /\ s.len = 0
          /\ sum_buffer' = Garbage
          /\ noMemory' = TRUE
    /\ UNCHANGED <<file, taken, buf, s>>

Next == Read \/ ReadEnds

Spec == Init /\ [][Next]_vars

-----------------------------------------------------------------------------
(* Correctness.                                                            *)

\* The digest does not depend on how fread cut the file: it is that of the
\* bytes that could be read, padded in one piece as RFC 1321 says, whatever
\* their number leaves in the last block and whatever a block does, as long as
\* md5() had memory for its state.
SumOfWhole ==
    sum_buffer # Nil /\ ~noMemory =>
      sum_buffer = DigestOf(Blocks(Seed.state, Padded(SubSeq(file, 1, taken))))

\* The last piece, padded and counted in place ("assume there's room",
\* md5sum.c:223), fits into buf, which was allocated for twice ReadCap.
PaddingFits == Len(buf) + PadLength(Len(buf)) + 8 <= BufSize
=============================================================================
