------------------------- MODULE FrameReader_proofs --------------------------
(***************************************************************************)
(* Proofs about the packet format and the receive loop, for packets of any *)
(* command and any data whose length fits into two bytes.                  *)
(*                                                                         *)
(*  - parse_packet2 undoes create_protocol_packet, whatever stands before  *)
(*    and behind the packet, and takes no part of a packet for the whole   *)
(*    (ParsePacket);                                                       *)
(*  - a packet with a changed byte is refused (DamageRefused), and no      *)
(*    buffer makes the parse loop leave main_buf or turn for ever          *)
(*    (ParseInBounds);                                                     *)
(*  - however TCP cuts the byte stream, main_buf is only exceeded by the   *)
(*    longest packets and by bytes not looked at (OverrunByLong), and the  *)
(*    PDUs dispatched are those sent, in order (DeliversInOrder) and when  *)
(*    their last byte has come (DispatchedPromptly).                       *)
(*                                                                         *)
(* Of the checksum DamageRefused needs that it is the sum of the bytes;    *)
(* the others, that it is a function of them.                              *)
(***************************************************************************)
EXTENDS FrameReader, WellFoundedInduction, SequenceTheorems, TLAPS

\* What the checksum is made from.
Body(p) == <<Header, p.cmd, p.cmd_ex, 0, 0,
             Len(p.data) \div 256, Len(p.data) % 256>> \o p.data

Sums(p) == <<Checksum(Body(p)) \div 256, Checksum(Body(p)) % 256>>

\* The bytes of q are those of p's packet, with n bytes of data.
IsPacket(q, n, p) ==
    /\ n \in Nat /\ Len(q) = n + 9
    /\ q[1] = Header /\ q[2] = p.cmd /\ q[3] = p.cmd_ex
    /\ q[4] = 0 /\ q[5] = 0 /\ q[6] = n \div 256 /\ q[7] = n % 256
    /\ \A i \in 1 .. n : q[i + 7] = p.data[i]
    /\ Body(p) \in Seq(Byte) /\ Len(Body(p)) = n + 7
    /\ \A i \in 1 .. n + 7 : q[i] = Body(p)[i]
    /\ q[n + 8] = Sums(p)[1] /\ q[n + 9] = Sums(p)[2]

-----------------------------------------------------------------------------
\* The two length bytes are bytes, and give the length back.
LEMMA LengthBytes ==
    ASSUME NEW n \in Nat, n \div 256 \in Byte
    PROVE  /\ n % 256 \in Byte
           /\ \A high, low : high = n \div 256 /\ low = n % 256
                               => 0 * 65536 + high * 256 + low = n
<1>1. n % 256 \in Byte
  BY DEF Byte
<1>2. ASSUME NEW high, NEW low, high = n \div 256, low = n % 256
      PROVE  0 * 65536 + high * 256 + low = n
  <2>1. high \in Int /\ low \in Int
    BY <1>2
  <2>2. high * 256 + low = n
    BY <1>2, <2>1, SMTT(20)
  <2>3. 0 * 65536 = 0
    OBVIOUS
  <2> QED
    BY <2>1, <2>2, <2>3
<1> QED
  BY <1>1, <1>2

\* The packet, byte by byte.
LEMMA PacketBytes ==
    ASSUME NEW p \in Pdu
    PROVE  IsPacket(CreatePacket(p), Len(p.data), p)
<1> DEFINE n == Len(p.data)
           q == CreatePacket(p)
           high == n \div 256
           low == n % 256
           first == <<Header, p.cmd, p.cmd_ex, 0, 0, high, low>>
           S == Byte \union {Sums(p)[1], Sums(p)[2]}
<1>1. p.data \in Seq(Byte) /\ p.cmd \in Byte /\ p.cmd_ex \in Byte /\ high \in Byte
  BY DEF Pdu
<1>2. n \in Nat
  BY <1>1, LenProperties
<1>3. low \in Byte
  <2> HIDE DEF n
  <2> QED
    BY <1>2 DEF Byte
<1> HIDE DEF high, low
<1>4. first \in Seq(Byte) /\ Len(first) = 7
  BY <1>1, <1>3 DEF Byte, Header
<1>5. /\ first[1] = Header /\ first[2] = p.cmd /\ first[3] = p.cmd_ex
      /\ first[4] = 0 /\ first[5] = 0 /\ first[6] = high /\ first[7] = low
  OBVIOUS
<1>6. Body(p) = first \o p.data
  BY DEF Body, high, low
<1> HIDE DEF first
<1>7. /\ Body(p) \in Seq(Byte) /\ Len(Body(p)) = n + 7
      /\ \A i \in 1 .. n + 7 :
           Body(p)[i] = IF i <= 7 THEN first[i] ELSE p.data[i - 7]
  <2>1. /\ first \o p.data \in Seq(Byte)
        /\ Len(first \o p.data) = Len(first) + Len(p.data)
        /\ \A i \in 1 .. Len(first) + Len(p.data) :
             (first \o p.data)[i] =
               IF i <= Len(first) THEN first[i] ELSE p.data[i - Len(first)]
    BY <1>1, <1>4, ConcatProperties
  <2> QED
    BY <1>2, <1>4, <1>6, <2>1
<1>8. Body(p) \in Seq(S) /\ Sums(p) \in Seq(S) /\ Len(Sums(p)) = 2
  BY <1>7 DEF Sums
<1>9. q = Body(p) \o Sums(p)
  BY DEF CreatePacket, Body, Sums
<1> HIDE DEF q, n, S
<1>10. /\ Len(q) = n + 9
       /\ \A i \in 1 .. n + 9 :
            q[i] = IF i <= n + 7 THEN Body(p)[i] ELSE Sums(p)[i - (n + 7)]
  <2>1. /\ Len(Body(p) \o Sums(p)) = Len(Body(p)) + Len(Sums(p))
        /\ \A i \in 1 .. Len(Body(p)) + Len(Sums(p)) :
             (Body(p) \o Sums(p))[i] =
               IF i <= Len(Body(p)) THEN Body(p)[i] ELSE Sums(p)[i - Len(Body(p))]
    BY <1>8, ConcatProperties
  <2> QED
    BY <1>2, <1>7, <1>8, <1>9, <2>1
<1>11. \A i \in 1 .. n + 7 : q[i] = Body(p)[i]
  BY <1>2, <1>10
<1>12. \A i \in 1 .. 7 : q[i] = first[i]
  BY <1>2, <1>7, <1>11
<1>13. \A i \in 1 .. n : q[i + 7] = p.data[i]
  <2>1. ASSUME NEW i \in 1 .. n PROVE q[i + 7] = p.data[i]
    <3>1. i + 7 \in 1 .. n + 7 /\ ~(i + 7 <= 7) /\ (i + 7) - 7 = i
      BY <1>2
    <3> QED
      BY <1>7, <1>11, <3>1
  <2> QED
    BY <2>1
<1>14. q[n + 8] = Sums(p)[1] /\ q[n + 9] = Sums(p)[2]
  <2>1. /\ n + 8 \in 1 .. n + 9 /\ ~(n + 8 <= n + 7) /\ (n + 8) - (n + 7) = 1
        /\ n + 9 \in 1 .. n + 9 /\ ~(n + 9 <= n + 7) /\ (n + 9) - (n + 7) = 2
    BY <1>2
  <2> QED
    BY <1>10, <2>1
<1> QED
  <2>1. /\ q[1] = Header /\ q[2] = p.cmd /\ q[3] = p.cmd_ex
        /\ q[4] = 0 /\ q[5] = 0 /\ q[6] = high /\ q[7] = low
    BY <1>5, <1>12
  <2>2. IsPacket(q, n, p)
    BY <1>2, <1>7, <1>10, <1>11, <1>13, <1>14, <2>1 DEF IsPacket, high, low
  <2> QED
    BY <2>2 DEF q, n

-----------------------------------------------------------------------------
\* The header byte is looked for from the front.
LEMMA HeaderFound ==
    ASSUME NEW S, NEW x \in Seq(S), NEW c \in Nat, c < Len(x),
           \A i \in 1 .. c : x[i] # Header, x[c + 1] = Header
    PROVE  FirstHeader(x) = c + 1
<1> DEFINE I == {i \in 1 .. Len(x) : x[i] = Header}
<1>1. Len(x) \in Nat
  BY LenProperties
<1>2. c + 1 \in I /\ \A i \in I : c + 1 <= i
  BY <1>1
<1>3. Min(I) = c + 1
  <2>1. \E i \in I : \A j \in I : i <= j
    BY <1>2
  <2>2. Min(I) \in I /\ \A j \in I : Min(I) <= j
    BY <2>1 DEF Min
  <2>3. Min(I) <= c + 1 /\ c + 1 <= Min(I) /\ Min(I) \in Int
    BY <1>1, <1>2, <2>2
  <2> QED
    BY <2>3
<1> QED
  BY <1>2, <1>3 DEF FirstHeader, SelectInSeq

\* Bytes without a header are used up, and hold no PDU.
LEMMA ParseStray ==
    ASSUME NEW S, NEW x \in Seq(S), \A i \in 1 .. Len(x) : x[i] # Header
    PROVE  Parse(x) = [used |-> Len(x), pdu |-> NoPdu]
<1>1. {i \in 1 .. Len(x) : x[i] = Header} = {}
  OBVIOUS
<1>2. FirstHeader(x) = 0
  BY <1>1 DEF FirstHeader, SelectInSeq
<1> QED
  BY <1>2 DEF Parse

\* What remains from the header on, rest, is too short to have a length.
LEMMA ParseShort ==
    ASSUME NEW x, NEW c \in Nat, NEW rest, FirstHeader(x) = c + 1,
           SubSeq(x, c + 1, Len(x)) = rest, Len(rest) \in Nat, Len(rest) <= 7
    PROVE  Parse(x) = [used |-> c, pdu |-> NoPdu]
<1> DEFINE start == c + 1
<1>1. start # 0 /\ start > 0 /\ start - 1 = c
  OBVIOUS
<1>2. Len(rest) <= HeadLen /\ ~(Len(rest) > HeadLen)
  BY DEF HeadLen
<1> HIDE DEF start
<1>3. FirstHeader(x) = start /\ SubSeq(x, start, Len(x)) = rest
  BY DEF start
<1>4. Parse(x) = [used |-> start - 1, pdu |-> NoPdu]
  BY <1>1, <1>2, <1>3 DEF Parse
<1> QED
  BY <1>1, <1>4

\* What remains has a length, but less data than that.
LEMMA ParseWaits ==
    ASSUME NEW x, NEW c \in Nat, NEW rest, FirstHeader(x) = c + 1,
           SubSeq(x, c + 1, Len(x)) = rest, Len(rest) \in Nat, Len(rest) > 7,
           ~TooLong(SubSeq(rest, 4, 7)), Incomplete(rest)
    PROVE  Parse(x) = [used |-> c, pdu |-> NoPdu]
<1> DEFINE start == c + 1
<1>1. start # 0 /\ start > 0 /\ start - 1 = c
  OBVIOUS
<1>2. Len(rest) > HeadLen /\ ~(Len(rest) <= HeadLen)
  BY DEF HeadLen
<1> HIDE DEF start
<1>3. FirstHeader(x) = start /\ SubSeq(x, start, Len(x)) = rest
  BY DEF start
<1> QED
  BY <1>1, <1>2, <1>3 DEF Parse

\* What remains has a length, that much data and the right checksum.
LEMMA ParseTaken ==
    ASSUME NEW x, NEW c \in Nat, NEW rest, FirstHeader(x) = c + 1,
           SubSeq(x, c + 1, Len(x)) = rest, Len(rest) \in Nat, Len(rest) > 7,
           ~TooLong(SubSeq(rest, 4, 7)), ~Incomplete(rest),
           NEW n, DataLength(SubSeq(rest, 4, 7)) = n, SumMatches(rest, n)
    PROVE  Parse(x) = [used |-> c + HeadLen + n + SumLen,
                       pdu  |-> [cmd |-> rest[2], cmd_ex |-> rest[3],
                                 data |-> SubSeq(rest, HeadLen + 1, HeadLen + n)]]
<1> DEFINE start == c + 1
<1>1. start # 0 /\ start > 0 /\ start - 1 = c
  OBVIOUS
<1>2. Len(rest) > HeadLen /\ ~(Len(rest) <= HeadLen)
  BY DEF HeadLen
<1> HIDE DEF start
<1>3. FirstHeader(x) = start /\ SubSeq(x, start, Len(x)) = rest
  BY DEF start
<1> QED
  BY <1>1, <1>2, <1>3 DEF Parse

\* The buffer x holds c bytes that are no header, then the packet of p or its
\* beginning, and then anything.
Holds(x, c, p) ==
    /\ c < Len(x)
    /\ \A i \in 1 .. c : x[i] # Header
    /\ \A i \in 1 .. Len(CreatePacket(p)) :
         c + i <= Len(x) => x[c + i] = CreatePacket(p)[i]

\* A packet that has come completely is taken as it was made, and one that has
\* not is left where it is; the stray bytes before it go.
THEOREM ParsePacket ==
    ASSUME NEW S, NEW x \in Seq(S), NEW c \in Nat, NEW p \in Pdu, Holds(x, c, p)
    PROVE  Parse(x) = IF c + Len(CreatePacket(p)) <= Len(x)
                        THEN [used |-> c + Len(CreatePacket(p)), pdu |-> p]
                        ELSE [used |-> c, pdu |-> NoPdu]
<1> DEFINE q == CreatePacket(p)
           n == Len(p.data)
           rest == SubSeq(x, c + 1, Len(x))
           length == SubSeq(rest, 4, 7)
           start == FirstHeader(x)
           T == S \union Byte
<1>1. IsPacket(q, n, p)
  BY PacketBytes
<1> HIDE DEF q, n
<1>2. /\ n \in Nat /\ Len(q) = n + 9 /\ Len(x) \in Nat /\ c < Len(x)
      /\ x \in [1 .. Len(x) -> S]
      /\ \A i \in 1 .. n + 9 : c + i <= Len(x) => x[c + i] = q[i]
  BY <1>1, LenProperties DEF IsPacket, Holds, q
<1>3. start = c + 1
  <2>1. x[c + 1] = Header
    <3>1. 1 \in 1 .. n + 9 /\ c + 1 <= Len(x)
      BY <1>2
    <3> QED
      BY <1>1, <1>2, <3>1 DEF IsPacket
  <2> QED
    BY <1>2, <2>1, HeaderFound DEF Holds
<1>4. /\ rest \in Seq(T) /\ Len(rest) = Len(x) - c
      /\ \A i \in 1 .. Len(x) - c : rest[i] = x[c + i]
  <2>1. /\ rest \in Seq(T)
        /\ Len(rest) = IF c + 1 <= Len(x) THEN Len(x) - (c + 1) + 1 ELSE 0
        /\ \A i \in 1 .. Len(x) - (c + 1) + 1 : rest[i] = x[(c + 1) + i - 1]
    <3>1. c + 1 \in Int /\ Len(x) \in Int /\ \A i \in c + 1 .. Len(x) : x[i] \in T
      BY <1>2
    <3> QED
      BY <3>1, SubSeqProperties
  <2> HIDE DEF rest
  <2>2. Len(rest) = Len(x) - c
    <3>1. Len(x) \in Nat /\ c < Len(x)
      BY <1>2
    <3>2. Len(rest) = IF c + 1 <= Len(x) THEN Len(x) - (c + 1) + 1 ELSE 0
      BY <2>1
    <3> QED
      BY <3>1, <3>2
  <2>3. ASSUME NEW i \in 1 .. Len(x) - c PROVE rest[i] = x[c + i]
    <3>1. i \in 1 .. Len(x) - (c + 1) + 1 /\ (c + 1) + i - 1 = c + i
      BY <1>2
    <3> QED
      BY <2>1, <3>1
  <2> QED
    BY <2>1, <2>2, <2>3
<1> HIDE DEF rest
<1>5. \A i \in 1 .. n + 9 : i <= Len(rest) => rest[i] = q[i]
  BY <1>2, <1>4
<1>6. c + Len(q) <= Len(x) <=> n + 9 <= Len(rest)
  BY <1>2, <1>4
<1>7. /\ FirstHeader(x) = c + 1 /\ SubSeq(x, c + 1, Len(x)) = rest
      /\ Len(rest) \in Nat
  BY <1>3, <1>4, LenProperties DEF rest
<1>8. CASE Len(rest) <= 7
  <2>1. Parse(x) = [used |-> c, pdu |-> NoPdu]
    BY <1>7, <1>8, ParseShort
  <2> QED
    BY <1>2, <1>6, <1>8, <2>1 DEF q
<1>9. CASE Len(rest) > 7
  <2>1. /\ length[1] = 0 /\ length[2] = 0
        /\ length[3] = n \div 256 /\ length[4] = n % 256
    <3>1. \A i \in 4 .. 7 : rest[i] \in T
      BY <1>2, <1>4, <1>9
    <3>2. \A i \in 1 .. 4 : length[i] = rest[i + 3]
      <4>1. \A i \in 1 .. 7 - 4 + 1 : length[i] = rest[4 + i - 1]
        BY <3>1, SubSeqProperties
      <4> QED
        BY <4>1
    <3>3. rest[4] = q[4] /\ rest[5] = q[5] /\ rest[6] = q[6] /\ rest[7] = q[7]
      BY <1>2, <1>5, <1>9
    <3> QED
      BY <1>1, <3>2, <3>3 DEF IsPacket
  <2> HIDE DEF length
  <2>2. ~TooLong(length)
    BY <2>1 DEF TooLong
  <2>3. DataLength(length) = n
    <3>1. n \div 256 \in Byte
      BY DEF Pdu, n
    <3> QED
      BY <1>2, <2>1, <3>1, LengthBytes DEF DataLength
  <2>4. Incomplete(rest) <=> Len(rest) < n + 9
    BY <1>2, <1>4, <2>3 DEF Incomplete, HeadLen, SumLen, length
  <2>5. CASE Incomplete(rest)
    <3>1. Parse(x) = [used |-> c, pdu |-> NoPdu]
      BY <1>7, <1>9, <2>2, <2>5, ParseWaits DEF length
    <3> QED
      BY <1>2, <1>6, <1>7, <2>4, <2>5, <3>1 DEF q
  <2>6. CASE ~Incomplete(rest)
    <3>1. /\ \A i \in 1 .. n + 9 : rest[i] = q[i] /\ rest[i] \in T
          /\ n + 9 <= Len(rest)
      BY <1>2, <1>4, <1>5, <2>4, <2>6
    <3>2. SubSeq(rest, 1, n + 7) = Body(p)
      <4>1. /\ SubSeq(rest, 1, n + 7) \in Seq(T)
            /\ Len(SubSeq(rest, 1, n + 7)) = n + 7
            /\ \A i \in 1 .. n + 7 : SubSeq(rest, 1, n + 7)[i] = rest[i]
        <5>1. \A i \in 1 .. n + 7 : rest[i] \in T
          BY <1>2, <3>1
        <5>2. /\ SubSeq(rest, 1, n + 7) \in Seq(T)
              /\ Len(SubSeq(rest, 1, n + 7)) = IF 1 <= n + 7 THEN (n + 7) - 1 + 1 ELSE 0
              /\ \A i \in 1 .. (n + 7) - 1 + 1 :
                   SubSeq(rest, 1, n + 7)[i] = rest[1 + i - 1]
          BY <1>2, <5>1, SubSeqProperties
        <5> QED
          BY <1>2, <5>2
      <4>2. Body(p) \in Seq(T) /\ Len(Body(p)) = n + 7
        BY <1>1 DEF IsPacket
      <4>3. \A i \in 1 .. n + 7 : rest[i] = Body(p)[i]
        BY <1>1, <1>2, <3>1 DEF IsPacket
      <4> QED
        BY <4>1, <4>2, <4>3, SeqEqual
    <3>3. SumMatches(rest, n)
      <4>1. /\ rest[n + 8] = Checksum(Body(p)) \div 256
            /\ rest[n + 9] = Checksum(Body(p)) % 256
        BY <1>1, <1>2, <3>1 DEF IsPacket, Sums
      <4>2. /\ HeadLen + n = n + 7 /\ HeadLen + n + 1 = n + 8
            /\ HeadLen + n + 2 = n + 9
        BY <1>2 DEF HeadLen
      <4> QED
        BY <3>2, <4>1, <4>2 DEF SumMatches
    <3>4. SubSeq(rest, 8, 7 + n) = p.data
      <4>1. \A i \in 8 .. 7 + n : rest[i] \in T
        BY <1>2, <3>1
      <4>2. /\ SubSeq(rest, 8, 7 + n) \in Seq(T)
            /\ Len(SubSeq(rest, 8, 7 + n)) = IF 8 <= 7 + n THEN (7 + n) - 8 + 1 ELSE 0
            /\ \A i \in 1 .. (7 + n) - 8 + 1 :
                 SubSeq(rest, 8, 7 + n)[i] = rest[8 + i - 1]
        BY <1>2, <4>1, SubSeqProperties
      <4>3. /\ Len(SubSeq(rest, 8, 7 + n)) = n
            /\ \A i \in 1 .. n : SubSeq(rest, 8, 7 + n)[i] = rest[i + 7]
        BY <1>2, <4>2
      <4>4. p.data \in Seq(T) /\ Len(p.data) = n
        BY DEF Pdu, n
      <4>5. \A i \in 1 .. n : rest[i + 7] = p.data[i]
        BY <1>1, <1>2, <3>1 DEF IsPacket
      <4> QED
        BY <4>2, <4>3, <4>4, <4>5, SeqEqual
    <3>5. p = [cmd |-> rest[2], cmd_ex |-> rest[3], data |-> SubSeq(rest, 8, 7 + n)]
      <4>1. rest[2] = p.cmd /\ rest[3] = p.cmd_ex
        <5>1. q[2] = p.cmd /\ q[3] = p.cmd_ex
          BY <1>1 DEF IsPacket
        <5>2. rest[2] = q[2] /\ rest[3] = q[3]
          BY <1>2, <3>1
        <5> QED
          BY <5>1, <5>2
      <4> QED
        BY <3>4, <4>1 DEF Pdu
    <3>6. HeadLen + 1 = 8 /\ HeadLen + n = 7 + n /\ c + HeadLen + n + SumLen = c + Len(q)
      BY <1>2 DEF HeadLen, SumLen
    <3>7. Parse(x) = [used |-> c + Len(q), pdu |-> p]
      <4>1. Parse(x) = [used |-> c + HeadLen + n + SumLen,
                        pdu  |-> [cmd |-> rest[2], cmd_ex |-> rest[3],
                                  data |-> SubSeq(rest, HeadLen + 1, HeadLen + n)]]
        <5>1. /\ ~TooLong(SubSeq(rest, 4, 7))
              /\ DataLength(SubSeq(rest, 4, 7)) = n
          BY <2>2, <2>3 DEF length
        <5> QED
          BY <1>7, <1>9, <2>6, <3>3, <5>1, ParseTaken
      <4> QED
        BY <3>5, <3>6, <4>1
    <3> QED
      BY <1>6, <3>1, <3>7 DEF q
  <2> QED
    BY <2>5, <2>6
<1> QED
  BY <1>2, <1>4, <1>8, <1>9

-----------------------------------------------------------------------------
(* The byte stream, packet by packet.                                      *)

\* A set of naturals that has 0 and with every number the next is all of them.
LEMMA SetInduction ==
    ASSUME NEW T, 0 \in T, \A n \in Nat : n \in T => n + 1 \in T
    PROVE  Nat \subseteq T
<1> SUFFICES ASSUME Nat \ T # {} PROVE FALSE
  OBVIOUS
<1>1. PICK m \in Nat \ T : \A y \in Nat \ T : ~(<<y, m>> \in OpToRel(<, Nat))
  <2>1. Nat \ T \subseteq Nat
    OBVIOUS
  <2> QED
    BY <2>1, NatLessThanWellFounded, WFMin
<1>2. \A y \in Nat \ T : ~(y < m)
  BY <1>1 DEF OpToRel
<1>3. m # 0
  OBVIOUS
<1>4. m - 1 \in Nat /\ m - 1 < m /\ m - 1 + 1 = m
  BY <1>3
<1> QED
  BY <1>2, <1>4

\* One packet more, and the fold over a set of indices, as Stream is defined.
With(bytes, m) == bytes \o m.gap \o CreatePacket(m.pdu)

Folds(w, n, packets) ==
    w = [S \in SUBSET (1 .. n) |->
           IF S = {} THEN <<>> ELSE With(w[S \ {Max(S)}], packets[Max(S)])]

\* The fold over 1 .. n starts from n.
LEMMA MaxOfInterval ==
    ASSUME NEW n \in Nat
    PROVE  \A S \in SUBSET (1 .. n + 1) : n + 1 \in S => Max(S) = n + 1
<1> SUFFICES ASSUME NEW S \in SUBSET (1 .. n + 1), n + 1 \in S
             PROVE  Max(S) = n + 1
  OBVIOUS
<1>1. n + 1 \in S /\ \A y \in S : n + 1 >= y
  OBVIOUS
<1>2. Max(S) \in S /\ \A y \in S : Max(S) >= y
  BY <1>1 DEF Max
<1>3. Max(S) \in 1 .. n + 1 /\ n + 1 >= Max(S) /\ Max(S) >= n + 1
  BY <1>1, <1>2
<1> QED
  BY <1>3

\* The fold's equation has a solution for any number of packets.
LEMMA FoldExists ==
    ASSUME NEW packets
    PROVE  \A n \in Nat : \E w : Folds(w, n, packets)
<1> DEFINE T == {n \in Nat : \E w : Folds(w, n, packets)}
<1>1. 0 \in T
  <2>1. 1 .. 0 = {}
    OBVIOUS
  <2>2. Folds([S \in SUBSET (1 .. 0) |-> <<>>], 0, packets)
    BY <2>1 DEF Folds
  <2> QED
    BY <2>2
<1>2. ASSUME NEW n \in Nat, n \in T PROVE n + 1 \in T
  <2>1. PICK w : Folds(w, n, packets)
    BY <1>2
  <2> DEFINE more(S) == With(w[S \ {n + 1}], packets[n + 1])
             v == [S \in SUBSET (1 .. n + 1) |-> IF n + 1 \in S THEN more(S) ELSE w[S]]
  <2>2. \A S \in SUBSET (1 .. n + 1) : n + 1 \notin S => S \in SUBSET (1 .. n)
    OBVIOUS
  <2>3. \A S \in SUBSET (1 .. n) : w[S] = IF S = {} THEN <<>>
                                          ELSE With(w[S \ {Max(S)}], packets[Max(S)])
    BY <2>1 DEF Folds
  <2>4. \A S \in SUBSET (1 .. n) : v[S] = w[S]
    <3>1. \A S \in SUBSET (1 .. n) : S \in SUBSET (1 .. n + 1) /\ n + 1 \notin S
      OBVIOUS
    <3> HIDE DEF more
    <3> QED
      BY <3>1
  <2>5. ASSUME NEW S \in SUBSET (1 .. n + 1)
        PROVE  v[S] = IF S = {} THEN <<>>
                      ELSE With(v[S \ {Max(S)}], packets[Max(S)])
    <3>1. CASE n + 1 \in S
      <4>1. Max(S) = n + 1 /\ S \ {n + 1} \in SUBSET (1 .. n)
        BY <3>1, MaxOfInterval
      <4>2. v[S] = With(w[S \ {n + 1}], packets[n + 1])
        BY <3>1
      <4> HIDE DEF v
      <4> QED
        BY <3>1, <4>1, <4>2, <2>4
    <3>2. CASE n + 1 \notin S
      <4>1. S \in SUBSET (1 .. n) /\ S \ {Max(S)} \in SUBSET (1 .. n)
        BY <3>2, <2>2
      <4> HIDE DEF v
      <4> QED
        BY <4>1, <2>3, <2>4
    <3> QED
      BY <3>1, <3>2
  <2>6. Folds(v, n + 1, packets)
    <3>1. v = [S \in SUBSET (1 .. n + 1) |-> v[S]]
      OBVIOUS
    <3> HIDE DEF v
    <3> QED
      BY <3>1, <2>5 DEF Folds
  <2> HIDE DEF v
  <2> QED
    BY <2>6
<1> HIDE DEF T
<1>3. Nat \subseteq T
  BY <1>1, <1>2, SetInduction
<1> QED
  BY <1>3 DEF T

\* The stream grows packet by packet from nothing.
LEMMA StreamParts ==
    ASSUME NEW packets, NEW n \in Nat, DOMAIN packets = 1 .. n
    PROVE  \E part : /\ part[0] = <<>>
                     /\ \A k \in 1 .. n : part[k] = With(part[k - 1], packets[k])
                     /\ part[n] = Stream(packets)
<1> DEFINE w == CHOOSE w : Folds(w, n, packets)
<1>1. Folds(w, n, packets)
  BY FoldExists
<1>2. Stream(packets) = w[1 .. n]
  BY DEF Stream, FoldLeft, MapThenFoldSet, Folds, With
<1> HIDE DEF w
<1>3. \A S \in SUBSET (1 .. n) : w[S] = IF S = {} THEN <<>>
                                        ELSE With(w[S \ {Max(S)}], packets[Max(S)])
  BY <1>1 DEF Folds
<1> DEFINE part == [k \in 0 .. n |-> w[1 .. k]]
<1>4. part[0] = <<>>
  <2>1. 1 .. 0 = {} /\ {} \in SUBSET (1 .. n) /\ part[0] = w[1 .. 0]
    OBVIOUS
  <2>2. w[{}] = <<>>
    BY <1>3, <2>1
  <2> QED
    BY <2>1, <2>2
<1>5. ASSUME NEW k \in 1 .. n PROVE part[k] = With(part[k - 1], packets[k])
  <2>1. k - 1 \in Nat /\ k - 1 + 1 = k /\ k - 1 \in 0 .. n
    OBVIOUS
  <2>2. 1 .. k \in SUBSET (1 .. n) /\ k \in 1 .. k /\ (1 .. k) \ {k} = 1 .. k - 1
    OBVIOUS
  <2>3. Max(1 .. k) = k
    BY <2>1, <2>2, MaxOfInterval
  <2>4. part[k] = w[1 .. k] /\ part[k - 1] = w[1 .. k - 1]
    BY <2>1
  <2>5. w[1 .. k] = With(w[(1 .. k) \ {k}], packets[k])
    BY <1>3, <2>2, <2>3
  <2> QED
    BY <2>2, <2>4, <2>5
<1>6. part[n] = Stream(packets)
  BY <1>2
<1> QED
  BY <1>4, <1>5, <1>6

\* The first u elements.
LEMMA FirstBytes ==
    ASSUME NEW Z, NEW x \in Seq(Z), NEW u \in Nat, u <= Len(x)
    PROVE  /\ SubSeq(x, 1, u) \in Seq(Z) /\ Len(SubSeq(x, 1, u)) = u
           /\ \A i \in 1 .. u : SubSeq(x, 1, u)[i] = x[i]
<1> DEFINE y == SubSeq(x, 1, u)
<1>1. Len(x) \in Nat /\ \A i \in 1 .. u : x[i] \in Z
  OBVIOUS
<1>2. /\ y \in Seq(Z) /\ Len(y) = IF 1 <= u THEN u - 1 + 1 ELSE 0
      /\ \A i \in 1 .. u - 1 + 1 : y[i] = x[1 + i - 1]
  BY <1>1, SubSeqProperties
<1> HIDE DEF y
<1>3. Len(y) = u
  BY <1>2
<1>4. ASSUME NEW i \in 1 .. u PROVE y[i] = x[i]
  <2>1. i \in 1 .. u - 1 + 1 /\ 1 + i - 1 = i
    OBVIOUS
  <2> QED
    BY <1>2, <2>1
<1> QED
  BY <1>2, <1>3, <1>4 DEF y

\* Each part is the stream of the packets up to there.
LEMMA StreamPrefix ==
    ASSUME NEW Z, NEW packets \in Seq(Z), NEW part, part[0] = <<>>,
           \A k \in 1 .. Len(packets) : part[k] = With(part[k - 1], packets[k])
    PROVE  \A k \in 0 .. Len(packets) : part[k] = Stream(SubSeq(packets, 1, k))
<1> SUFFICES ASSUME NEW k \in 0 .. Len(packets)
             PROVE  part[k] = Stream(SubSeq(packets, 1, k))
  OBVIOUS
<1> DEFINE first == SubSeq(packets, 1, k)
<1>1. k \in Nat /\ k <= Len(packets) /\ Len(packets) \in Nat
  OBVIOUS
<1>2. first \in Seq(Z) /\ Len(first) = k /\ \A i \in 1 .. k : first[i] = packets[i]
  BY <1>1, FirstBytes
<1> HIDE DEF first
<1>3. DOMAIN first = 1 .. k
  BY <1>2
<1>4. PICK own : /\ own[0] = <<>>
                 /\ \A i \in 1 .. k : own[i] = With(own[i - 1], first[i])
                 /\ own[k] = Stream(first)
  BY <1>1, <1>3, StreamParts
<1> DEFINE T == {i \in Nat : i <= k => own[i] = part[i]}
<1>5. 0 \in T
  BY <1>4
<1>6. ASSUME NEW i \in Nat, i \in T PROVE i + 1 \in T
  <2> SUFFICES ASSUME i + 1 <= k PROVE own[i + 1] = part[i + 1]
    OBVIOUS
  <2> DEFINE j == i + 1
  <2>1. j \in 1 .. k /\ j \in 1 .. Len(packets) /\ j - 1 = i /\ own[i] = part[i]
    BY <1>1, <1>6
  <2> HIDE DEF j
  <2>2. own[j] = With(own[j - 1], packets[j]) /\ part[j] = With(part[j - 1], packets[j])
    BY <1>2, <1>4, <2>1
  <2>3. own[j] = part[j]
    BY <2>1, <2>2
  <2> QED
    BY <2>3 DEF j
<1> HIDE DEF T
<1>7. Nat \subseteq T
  BY <1>5, <1>6, SetInduction
<1>8. own[k] = part[k]
  BY <1>1, <1>7 DEF T
<1> QED
  BY <1>4, <1>8 DEF first

-----------------------------------------------------------------------------
(* The checksum.                                                           *)

\* The fold over a set of indices, as Checksum is defined.
Adds(w, n, bytes) ==
    w = [S \in SUBSET (1 .. n) |->
           IF S = {} THEN 0 ELSE w[S \ {Max(S)}] + bytes[Max(S)]]

\* That fold's equation has a solution too.
LEMMA SumExists ==
    ASSUME NEW bytes
    PROVE  \A n \in Nat : \E w : Adds(w, n, bytes)
<1> DEFINE T == {n \in Nat : \E w : Adds(w, n, bytes)}
<1>1. 0 \in T
  <2>1. 1 .. 0 = {}
    OBVIOUS
  <2>2. Adds([S \in SUBSET (1 .. 0) |-> 0], 0, bytes)
    BY <2>1 DEF Adds
  <2> QED
    BY <2>2
<1>2. ASSUME NEW n \in Nat, n \in T PROVE n + 1 \in T
  <2>1. PICK w : Adds(w, n, bytes)
    BY <1>2
  <2> DEFINE more(S) == w[S \ {n + 1}] + bytes[n + 1]
             v == [S \in SUBSET (1 .. n + 1) |-> IF n + 1 \in S THEN more(S) ELSE w[S]]
  <2>2. \A S \in SUBSET (1 .. n + 1) : n + 1 \notin S => S \in SUBSET (1 .. n)
    OBVIOUS
  <2>3. \A S \in SUBSET (1 .. n) : w[S] = IF S = {} THEN 0
                                          ELSE w[S \ {Max(S)}] + bytes[Max(S)]
    BY <2>1 DEF Adds
  <2>4. \A S \in SUBSET (1 .. n) : v[S] = w[S]
    <3>1. \A S \in SUBSET (1 .. n) : S \in SUBSET (1 .. n + 1) /\ n + 1 \notin S
      OBVIOUS
    <3> HIDE DEF more
    <3> QED
      BY <3>1
  <2>5. ASSUME NEW S \in SUBSET (1 .. n + 1)
        PROVE  v[S] = IF S = {} THEN 0 ELSE v[S \ {Max(S)}] + bytes[Max(S)]
    <3>1. CASE n + 1 \in S
      <4>1. Max(S) = n + 1 /\ S \ {n + 1} \in SUBSET (1 .. n)
        BY <3>1, MaxOfInterval
      <4>2. v[S] = w[S \ {n + 1}] + bytes[n + 1]
        BY <3>1
      <4> HIDE DEF v
      <4> QED
        BY <3>1, <4>1, <4>2, <2>4
    <3>2. CASE n + 1 \notin S
      <4>1. S \in SUBSET (1 .. n) /\ S \ {Max(S)} \in SUBSET (1 .. n)
        BY <3>2, <2>2
      <4> HIDE DEF v
      <4> QED
        BY <4>1, <2>3, <2>4
    <3> QED
      BY <3>1, <3>2
  <2>6. Adds(v, n + 1, bytes)
    <3>1. v = [S \in SUBSET (1 .. n + 1) |-> v[S]]
      OBVIOUS
    <3> HIDE DEF v
    <3> QED
      BY <3>1, <2>5 DEF Adds
  <2> HIDE DEF v
  <2> QED
    BY <2>6
<1> HIDE DEF T
<1>3. Nat \subseteq T
  BY <1>1, <1>2, SetInduction
<1> QED
  BY <1>3 DEF T

\* The sum grows byte by byte from 0.
LEMMA SumParts ==
    ASSUME NEW bytes, NEW n \in Nat, DOMAIN bytes = 1 .. n
    PROVE  \E part : /\ part[0] = 0
                     /\ \A k \in 1 .. n : part[k] = part[k - 1] + bytes[k]
                     /\ part[n] % 65536 = Checksum(bytes)
<1> DEFINE w == CHOOSE w : Adds(w, n, bytes)
<1>1. Adds(w, n, bytes)
  BY SumExists
<1>2. Checksum(bytes) = w[1 .. n] % 65536
  BY DEF Checksum, FoldLeft, MapThenFoldSet, Adds
<1> HIDE DEF w
<1>3. \A S \in SUBSET (1 .. n) : w[S] = IF S = {} THEN 0
                                        ELSE w[S \ {Max(S)}] + bytes[Max(S)]
  BY <1>1 DEF Adds
<1> DEFINE part == [k \in 0 .. n |-> w[1 .. k]]
<1>4. part[0] = 0
  <2>1. 1 .. 0 = {} /\ {} \in SUBSET (1 .. n) /\ part[0] = w[1 .. 0]
    OBVIOUS
  <2>2. w[{}] = 0
    BY <1>3, <2>1
  <2> QED
    BY <2>1, <2>2
<1>5. ASSUME NEW k \in 1 .. n PROVE part[k] = part[k - 1] + bytes[k]
  <2>1. k - 1 \in Nat /\ k - 1 + 1 = k /\ k - 1 \in 0 .. n
    OBVIOUS
  <2>2. 1 .. k \in SUBSET (1 .. n) /\ k \in 1 .. k /\ (1 .. k) \ {k} = 1 .. k - 1
    OBVIOUS
  <2>3. Max(1 .. k) = k
    BY <2>1, <2>2, MaxOfInterval
  <2>4. part[k] = w[1 .. k] /\ part[k - 1] = w[1 .. k - 1]
    BY <2>1
  <2>5. w[1 .. k] = w[(1 .. k) \ {k}] + bytes[k]
    BY <1>3, <2>2, <2>3
  <2> QED
    BY <2>2, <2>4, <2>5
<1>6. part[n] % 65536 = Checksum(bytes)
  <2>1. n \in 0 .. n
    OBVIOUS
  <2>2. part[n] = w[1 .. n]
    BY <2>1
  <2> DEFINE sum == w[1 .. n]
  <2>3. part[n] = sum /\ Checksum(bytes) = sum % 65536
    BY <1>2, <2>2
  <2> HIDE DEF sum, part
  <2> QED
    BY <2>3
<1> HIDE DEF part
<1> QED
  BY <1>4, <1>5, <1>6

\* Numbers less than 256 apart do not become the same in two bytes.
LEMMA SumsApart ==
    ASSUME NEW a \in Nat, NEW b \in Nat, NEW d \in Int, b = a + d,
           d # 0, d < 256, d > -256
    PROVE  a % 65536 # b % 65536
  OBVIOUS

\* Two different numbers differ in the lower byte or above it.
LEMMA TwoBytesApart ==
    ASSUME NEW a \in Nat, NEW b \in Nat, a # b
    PROVE  a \div 256 # b \div 256 \/ a % 256 # b % 256
<1>1. a = 256 * (a \div 256) + (a % 256) /\ b = 256 * (b \div 256) + (b % 256)
  OBVIOUS
<1> QED
  BY <1>1

\* A byte is a small number.
LEMMA ByteRange == \A b \in Byte : b \in Nat /\ b < 256
  BY DEF Byte

\* The checksum is a number, and one changed byte changes it.
LEMMA ChecksumTells ==
    ASSUME NEW x \in Seq(Byte), NEW y \in Seq(Byte), Len(x) = Len(y)
    PROVE  /\ Checksum(x) \in Nat
           /\ \A i \in 1 .. Len(x) :
                x[i] # y[i] /\ (\A j \in 1 .. Len(x) : j # i => x[j] = y[j])
                  => Checksum(x) # Checksum(y)
<1> DEFINE n == Len(x)
<1>1. /\ n \in Nat /\ DOMAIN x = 1 .. n /\ DOMAIN y = 1 .. n
      /\ \A k \in 1 .. n : x[k] \in Byte /\ y[k] \in Byte
  BY ElementOfSeq, LenProperties
<1> HIDE DEF n
<1>2. PICK a : /\ a[0] = 0
               /\ \A k \in 1 .. n : a[k] = a[k - 1] + x[k]
               /\ a[n] % 65536 = Checksum(x)
  BY <1>1, SumParts
<1>3. PICK b : /\ b[0] = 0
               /\ \A k \in 1 .. n : b[k] = b[k - 1] + y[k]
               /\ b[n] % 65536 = Checksum(y)
  BY <1>1, SumParts
<1>4. \A k \in Nat : k <= n => a[k] \in Nat /\ b[k] \in Nat
  <2> DEFINE T == {k \in Nat : k <= n => a[k] \in Nat /\ b[k] \in Nat}
  <2>1. 0 \in T
    BY <1>2, <1>3
  <2>2. ASSUME NEW k \in Nat, k \in T PROVE k + 1 \in T
    <3> SUFFICES ASSUME k + 1 <= n PROVE a[k + 1] \in Nat /\ b[k + 1] \in Nat
      OBVIOUS
    <3> DEFINE l == k + 1
    <3>1. l \in 1 .. n /\ l - 1 = k /\ a[k] \in Nat /\ b[k] \in Nat
      BY <1>1, <2>2
    <3> HIDE DEF l
    <3>2. x[l] \in Nat /\ y[l] \in Nat
      BY <1>1, <3>1, ByteRange
    <3>3. a[l] = a[k] + x[l] /\ b[l] = b[k] + y[l]
      BY <1>2, <1>3, <3>1
    <3>4. a[l] \in Nat /\ b[l] \in Nat
      BY <3>1, <3>2, <3>3
    <3> QED
      BY <3>4 DEF l
  <2> HIDE DEF T
  <2>3. Nat \subseteq T
    BY <2>1, <2>2, SetInduction
  <2> QED
    BY <2>3 DEF T
<1>5. a[n] \in Nat /\ b[n] \in Nat
  BY <1>1, <1>4
<1>6. Checksum(x) \in Nat
  <2> DEFINE m == a[n]
  <2>1. m \in Nat /\ m % 65536 = Checksum(x)
    BY <1>2, <1>5
  <2> HIDE DEF m
  <2> QED
    BY <2>1
<1>7. ASSUME NEW i \in 1 .. n, x[i] # y[i],
             \A j \in 1 .. n : j # i => x[j] = y[j]
      PROVE  Checksum(x) # Checksum(y)
  <2>1. i \in 1 .. n /\ i \in Nat /\ x[i] \in Byte /\ y[i] \in Byte
    BY <1>1
  <2>2. \A k \in Nat : k < i => a[k] = b[k]
    <3> DEFINE T == {k \in Nat : k < i => a[k] = b[k]}
    <3>1. 0 \in T
      BY <1>2, <1>3
    <3>2. ASSUME NEW k \in Nat, k \in T PROVE k + 1 \in T
      <4> SUFFICES ASSUME k + 1 < i PROVE a[k + 1] = b[k + 1]
        OBVIOUS
      <4> DEFINE l == k + 1
      <4>1. l \in 1 .. n /\ l # i /\ l - 1 = k /\ a[k] = b[k]
        BY <1>1, <2>1, <3>2
      <4> HIDE DEF l
      <4>2. a[l] = b[l]
        BY <1>2, <1>3, <1>7, <4>1
      <4> QED
        BY <4>2 DEF l
    <3> HIDE DEF T
    <3>3. Nat \subseteq T
      BY <3>1, <3>2, SetInduction
    <3> QED
      BY <3>3 DEF T
  <2> DEFINE d == y[i] - x[i]
  <2>3. d \in Int /\ d # 0 /\ d < 256 /\ d > -256
    <3> DEFINE u == x[i]
               v == y[i]
    <3>1. u \in Nat /\ v \in Nat /\ u < 256 /\ v < 256 /\ u # v
      BY <1>7, <2>1, ByteRange
    <3> HIDE DEF u, v
    <3>2. v - u \in Int /\ v - u # 0 /\ v - u < 256 /\ v - u > -256
      BY <3>1
    <3> QED
      BY <3>2 DEF u, v
  <2>4. b[i] = a[i] + d
    <3>1. i - 1 \in Nat /\ i - 1 < i /\ i - 1 <= n
      BY <1>1, <2>1
    <3>2. a[i - 1] = b[i - 1] /\ a[i - 1] \in Nat
      BY <1>4, <2>2, <3>1
    <3>3. a[i] = a[i - 1] + x[i] /\ b[i] = b[i - 1] + y[i]
      BY <1>2, <1>3, <2>1
    <3>4. x[i] \in Int /\ y[i] \in Int
      BY <2>1, ByteRange
    <3> QED
      BY <3>2, <3>3, <3>4
  <2> HIDE DEF d
  <2>5. \A k \in Nat : i <= k /\ k <= n => b[k] = a[k] + d
    <3> DEFINE T == {k \in Nat : i <= k /\ k <= n => b[k] = a[k] + d}
    <3>1. 0 \in T
      BY <2>1
    <3>2. ASSUME NEW k \in Nat, k \in T PROVE k + 1 \in T
      <4> SUFFICES ASSUME i <= k + 1, k + 1 <= n PROVE b[k + 1] = a[k + 1] + d
        OBVIOUS
      <4>1. CASE k + 1 = i
        BY <2>4, <4>1
      <4>2. CASE k + 1 # i
        <5> DEFINE l == k + 1
        <5>1. /\ l \in 1 .. n /\ l # i /\ l - 1 = k /\ b[k] = a[k] + d
              /\ a[k] \in Nat
          BY <1>1, <1>4, <2>1, <3>2, <4>2
        <5> HIDE DEF l
        <5>2. x[l] = y[l] /\ x[l] \in Int
          BY <1>1, <1>7, <5>1, ByteRange
        <5>3. a[l] = a[k] + x[l] /\ b[l] = b[k] + y[l]
          BY <1>2, <1>3, <5>1
        <5>4. b[l] = a[l] + d
          BY <2>3, <5>1, <5>2, <5>3
        <5> QED
          BY <5>4 DEF l
      <4> QED
        BY <4>1, <4>2
    <3> HIDE DEF T
    <3>3. Nat \subseteq T
      BY <3>1, <3>2, SetInduction
    <3> QED
      BY <3>3 DEF T
  <2>6. b[n] = a[n] + d
    BY <1>1, <2>1, <2>5
  <2> DEFINE m == a[n]
             o == b[n]
  <2>7. m \in Nat /\ o \in Nat /\ o = m + d
    BY <1>5, <2>6
  <2>8. Checksum(x) = m % 65536 /\ Checksum(y) = o % 65536
    BY <1>2, <1>3
  <2> HIDE DEF m, o
  <2>9. m % 65536 # o % 65536
    BY <2>3, <2>7, SumsApart
  <2> QED
    BY <2>8, <2>9
<1> QED
  BY <1>6, <1>7 DEF n

\* What remains has a length, that much data and a wrong checksum.
LEMMA ParseRefused ==
    ASSUME NEW x, NEW c \in Nat, NEW rest, FirstHeader(x) = c + 1,
           SubSeq(x, c + 1, Len(x)) = rest, Len(rest) \in Nat, Len(rest) > 7,
           ~TooLong(SubSeq(rest, 4, 7)), ~Incomplete(rest),
           NEW n, DataLength(SubSeq(rest, 4, 7)) = n, ~SumMatches(rest, n)
    PROVE  Parse(x) = [used |-> c + 1, pdu |-> NoPdu]
<1> DEFINE start == c + 1
<1>1. start # 0 /\ start > 0 /\ start - 1 = c
  OBVIOUS
<1>2. Len(rest) > HeadLen /\ ~(Len(rest) <= HeadLen)
  BY DEF HeadLen
<1> HIDE DEF start
<1>3. FirstHeader(x) = start /\ SubSeq(x, start, Len(x)) = rest
  BY DEF start
<1> QED
  BY <1>1, <1>2, <1>3 DEF Parse

\* What is left of a sequence without its first u elements.
LEMMA RestBytes ==
    ASSUME NEW Z, NEW x \in Seq(Z), NEW u \in Nat, u <= Len(x)
    PROVE  /\ SubSeq(x, u + 1, Len(x)) \in Seq(Z)
           /\ Len(SubSeq(x, u + 1, Len(x))) = Len(x) - u
           /\ \A i \in 1 .. Len(x) - u : SubSeq(x, u + 1, Len(x))[i] = x[u + i]
<1> DEFINE y == SubSeq(x, u + 1, Len(x))
<1>1. Len(x) \in Nat /\ u + 1 \in Int /\ \A i \in u + 1 .. Len(x) : x[i] \in Z
  OBVIOUS
<1>2. /\ y \in Seq(Z)
      /\ Len(y) = IF u + 1 <= Len(x) THEN Len(x) - (u + 1) + 1 ELSE 0
      /\ \A i \in 1 .. Len(x) - (u + 1) + 1 : y[i] = x[(u + 1) + i - 1]
  BY <1>1, SubSeqProperties
<1> HIDE DEF y
<1>3. Len(y) = Len(x) - u
  BY <1>1, <1>2
<1>4. ASSUME NEW i \in 1 .. Len(x) - u PROVE y[i] = x[u + i]
  <2>1. i \in 1 .. Len(x) - (u + 1) + 1 /\ (u + 1) + i - 1 = u + i
    BY <1>1
  <2> QED
    BY <1>2, <2>1
<1> QED
  BY <1>2, <1>3, <1>4 DEF y

\* Among bytes one of which is a header there is a first one.
LEMMA HeaderExists ==
    ASSUME NEW S, NEW x \in Seq(S), NEW h \in 1 .. Len(x), x[h] = Header
    PROVE  \E c \in Nat : c < Len(x) /\ FirstHeader(x) = c + 1
<1> DEFINE I == {i \in Nat : i \in 1 .. Len(x) /\ x[i] = Header}
<1>1. h \in I
  BY LenProperties
<1>2. PICK m \in I : \A y \in I : ~(<<y, m>> \in OpToRel(<, Nat))
  <2>1. I \subseteq Nat
    OBVIOUS
  <2> QED
    BY <1>1, <2>1, NatLessThanWellFounded, WFMin
<1>3. \A y \in I : ~(y < m)
  BY <1>2 DEF OpToRel
<1>4. m - 1 \in Nat /\ m - 1 < Len(x) /\ m - 1 + 1 = m /\ x[m] = Header
  BY LenProperties
<1>5. ASSUME NEW i \in 1 .. m - 1 PROVE x[i] # Header
  <2>1. i \in Nat /\ i \in 1 .. Len(x) /\ i < m
    BY <1>4, LenProperties
  <2> QED
    BY <1>3, <2>1
<1>6. FirstHeader(x) = m - 1 + 1
  BY <1>4, <1>5, HeaderFound
<1> QED
  BY <1>4, <1>6

\* What remains has a length beyond the limit.
LEMMA ParseTooLong ==
    ASSUME NEW x, NEW c \in Nat, NEW rest, FirstHeader(x) = c + 1,
           SubSeq(x, c + 1, Len(x)) = rest, Len(rest) \in Nat, Len(rest) > 7,
           TooLong(SubSeq(rest, 4, 7))
    PROVE  Parse(x) = [used |-> c + 1, pdu |-> NoPdu]
<1> DEFINE start == c + 1
<1>1. start # 0 /\ start > 0 /\ start - 1 = c
  OBVIOUS
<1>2. Len(rest) > HeadLen /\ ~(Len(rest) <= HeadLen)
  BY DEF HeadLen
<1> HIDE DEF start
<1>3. FirstHeader(x) = start /\ SubSeq(x, start, Len(x)) = rest
  BY DEF start
<1>4. Parse(x) = [used |-> start - 1 + 1, pdu |-> NoPdu]
  BY <1>1, <1>2, <1>3 DEF Parse
<1> QED
  BY <1>1, <1>4

\* The length parse_packet2 reads is a number.
LEMMA LengthIsNat ==
    ASSUME NEW rest \in Seq(Byte), Len(rest) > 7
    PROVE  DataLength(SubSeq(rest, 4, 7)) \in Nat
<1> DEFINE length == SubSeq(rest, 4, 7)
<1>1. \A i \in 4 .. 7 : rest[i] \in Byte
  BY ElementOfSeq, LenProperties
<1>2. \A i \in 1 .. 4 : length[i] = rest[i + 3]
  <2>1. \A i \in 1 .. 7 - 4 + 1 : length[i] = rest[4 + i - 1]
    BY <1>1, SubSeqProperties
  <2> QED
    BY <2>1
<1> HIDE DEF length
<1>3. /\ length[2] = rest[5] /\ length[3] = rest[6] /\ length[4] = rest[7]
      /\ rest[5] \in Nat /\ rest[6] \in Nat /\ rest[7] \in Nat
  <2>1. length[2] = rest[5] /\ length[3] = rest[6] /\ length[4] = rest[7]
    BY <1>2
  <2>2. rest[5] \in Byte /\ rest[6] \in Byte /\ rest[7] \in Byte
    BY <1>1
  <2> QED
    BY <2>1, <2>2, ByteRange
<1>4. \A a, b, d \in Nat : a * 65536 + b * 256 + d \in Nat
  OBVIOUS
<1>5. DataLength(length) \in Nat
  BY <1>3, <1>4 DEF DataLength
<1> QED
  BY <1>5 DEF length

\* A turn of the parse loop is in bounds and gets on, whatever the bytes are: it
\* uses no more than there is, a PDU comes with all its bytes used, and only a
\* turn without a PDU uses nothing.  So recvLen never gets below zero, and the
\* loop turns at most once for each byte.  (A negative length apart, for which
\* parse_packet2 has no defined result.)
THEOREM ParseInBounds ==
    ASSUME NEW x \in Seq(Byte), x # <<>>, ~NegativeLength(x)
    PROVE  LET r == Parse(x)
           IN  /\ r.used \in 0 .. Len(x)
               /\ r.pdu # NoPdu => r.used > 0 /\ HeadLen + Len(r.pdu.data) + SumLen <= r.used
<1> DEFINE r == Parse(x)
           Goal == /\ r.used \in 0 .. Len(x)
                   /\ r.pdu # NoPdu =>
                        r.used > 0 /\ HeadLen + Len(r.pdu.data) + SumLen <= r.used
<1>1. Len(x) \in Nat
  BY LenProperties
<1>2. CASE \A i \in 1 .. Len(x) : x[i] # Header
  <2>1. r = [used |-> Len(x), pdu |-> NoPdu]
    BY <1>2, ParseStray
  <2> QED
    BY <1>1, <2>1
<1>3. CASE \E i \in 1 .. Len(x) : x[i] = Header
  <2>1. PICK c \in Nat : c < Len(x) /\ FirstHeader(x) = c + 1
    BY <1>3, HeaderExists
  <2> DEFINE rest == SubSeq(x, c + 1, Len(x))
             length == SubSeq(rest, 4, 7)
             n == DataLength(length)
  <2>2. rest \in Seq(Byte) /\ Len(rest) = Len(x) - c
    <3>1. c <= Len(x)
      BY <1>1, <2>1
    <3> QED
      BY <3>1, RestBytes
  <2> HIDE DEF rest, r
  <2>3. Len(rest) \in Nat /\ SubSeq(x, c + 1, Len(x)) = rest
    BY <1>1, <2>1, <2>2 DEF rest
  <2>4. c \in 0 .. Len(x) /\ c + 1 \in 0 .. Len(x)
    BY <1>1, <2>1
  <2>5. CASE Len(rest) <= 7
    <3>1. r = [used |-> c, pdu |-> NoPdu]
      BY <2>1, <2>3, <2>5, ParseShort DEF r
    <3> QED
      BY <2>4, <3>1 DEF r
  <2>6. CASE Len(rest) > 7 /\ TooLong(length)
    <3>1. r = [used |-> c + 1, pdu |-> NoPdu]
      BY <2>1, <2>3, <2>6, ParseTooLong DEF r
    <3> QED
      BY <2>4, <3>1 DEF r
  <2>7. CASE Len(rest) > 7 /\ ~TooLong(length) /\ Incomplete(rest)
    <3>1. r = [used |-> c, pdu |-> NoPdu]
      BY <2>1, <2>3, <2>7, ParseWaits DEF r
    <3> QED
      BY <2>4, <3>1 DEF r
  <2>8. CASE Len(rest) > 7 /\ ~TooLong(length) /\ ~Incomplete(rest) /\ ~SumMatches(rest, n)
    <3>1. r = [used |-> c + 1, pdu |-> NoPdu]
      BY <2>1, <2>3, <2>8, ParseRefused DEF r
    <3> QED
      BY <2>4, <3>1 DEF r
  <2>9. CASE Len(rest) > 7 /\ ~TooLong(length) /\ ~Incomplete(rest) /\ SumMatches(rest, n)
    <3>1. r = [used |-> c + HeadLen + n + SumLen,
               pdu  |-> [cmd |-> rest[2], cmd_ex |-> rest[3],
                         data |-> SubSeq(rest, HeadLen + 1, HeadLen + n)]]
      BY <2>1, <2>3, <2>9, ParseTaken DEF r
    <3>2. n \in Nat
      BY <2>2, <2>9, LengthIsNat
    <3>3. HeadLen + n + SumLen <= Len(rest)
      <4> HIDE DEF length
      <4>1. ~(Len(rest) < HeadLen + n + SumLen)
        BY <2>9 DEF Incomplete, length
      <4> HIDE DEF n
      <4> QED
        BY <2>3, <3>2, <4>1 DEF HeadLen, SumLen
    <3> HIDE DEF n
    <3>4. Len(SubSeq(rest, HeadLen + 1, HeadLen + n)) = n
      <4> DEFINE hi == 7 + n
      <4>1. hi \in Int /\ 8 \in Int /\ hi <= Len(rest) /\ hi - 8 + 1 = n
            /\ (8 <= hi \/ n = 0)
        BY <2>3, <3>2, <3>3 DEF HeadLen, SumLen
      <4> HIDE DEF hi
      <4>2. \A i \in 8 .. hi : rest[i] \in Byte
        BY <2>2, <2>3, <4>1, ElementOfSeq
      <4>3. Len(SubSeq(rest, 8, hi)) = IF 8 <= hi THEN hi - 8 + 1 ELSE 0
        BY <4>1, <4>2, SubSeqProperties
      <4>4. Len(SubSeq(rest, 8, hi)) = n
        BY <4>1, <4>3
      <4>5. HeadLen + 1 = 8 /\ HeadLen + n = hi
        BY DEF HeadLen, hi
      <4> QED
        BY <4>4, <4>5
    <3>5. r.used = c + HeadLen + n + SumLen /\ Len(r.pdu.data) = n
      BY <3>1, <3>4
    <3>6. r.used \in 0 .. Len(x) /\ r.used > 0 /\ HeadLen + n + SumLen <= r.used
      BY <1>1, <2>2, <3>2, <3>3, <3>5 DEF HeadLen, SumLen
    <3> QED
      BY <3>5, <3>6 DEF r
  <2>10. \/ Len(rest) <= 7 \/ Len(rest) > 7
    BY <2>3
  <2> QED
    BY <2>5, <2>6, <2>7, <2>8, <2>9, <2>10
<1> QED
  BY <1>2, <1>3

\* The buffer x holds c bytes that are no header and then the packet of p, whose
\* i-th byte has changed.
Damaged(x, c, p, i) ==
    LET q == CreatePacket(p) IN
    /\ c + Len(q) <= Len(x)
    /\ \A j \in 1 .. c : x[j] # Header
    /\ x[c + i] # q[i]
    /\ \A j \in 1 .. Len(q) : j # i => x[c + j] = q[j]

\* The length of a packet as parse_packet2 reads it.
LEMMA LengthRead ==
    ASSUME NEW rest \in Seq(Byte), Len(rest) > 7, NEW n \in Nat, n \div 256 \in Byte,
           rest[4] = 0, rest[5] = 0, rest[6] = n \div 256, rest[7] = n % 256
    PROVE  ~TooLong(SubSeq(rest, 4, 7)) /\ DataLength(SubSeq(rest, 4, 7)) = n
<1> DEFINE length == SubSeq(rest, 4, 7)
<1>1. \A i \in 4 .. 7 : rest[i] \in Byte
  BY ElementOfSeq, LenProperties
<1>2. \A i \in 1 .. 4 : length[i] = rest[i + 3]
  <2>1. \A i \in 1 .. 7 - 4 + 1 : length[i] = rest[4 + i - 1]
    BY <1>1, SubSeqProperties
  <2> QED
    BY <2>1
<1> HIDE DEF length
<1>3. /\ length[1] = 0 /\ length[2] = 0
      /\ length[3] = n \div 256 /\ length[4] = n % 256
  BY <1>2
<1>4. ~TooLong(length)
  BY <1>3 DEF TooLong
<1>5. DataLength(length) = n
  BY <1>3, LengthBytes DEF DataLength
<1> QED
  BY <1>4, <1>5 DEF length

\* A packet with one byte changed, in its command, its data or its checksum, is
\* refused: its header is thrown away and no PDU is made of it (the comparison
\* with the checksum in parse_packet2).  With a changed length the checksum is
\* looked for elsewhere, and with a changed header the packet is not one.
THEOREM DamageRefused ==
    ASSUME NEW x \in Seq(Byte), NEW c \in Nat, NEW p \in Pdu,
           NEW i \in {2, 3} \union 8 .. Len(CreatePacket(p)), Damaged(x, c, p, i)
    PROVE  Parse(x) = [used |-> c + 1, pdu |-> NoPdu]
<1> DEFINE q == CreatePacket(p)
           n == Len(p.data)
           rest == SubSeq(x, c + 1, Len(x))
           body == SubSeq(rest, 1, n + 7)
<1>1. IsPacket(q, n, p) /\ n \in Nat /\ n \div 256 \in Byte
  <2>1. IsPacket(q, n, p)
    BY PacketBytes
  <2>2. n \div 256 \in Byte
    BY DEF Pdu
  <2>3. n \in Nat
    BY <2>1 DEF IsPacket
  <2> QED
    BY <2>1, <2>2, <2>3
<1> HIDE DEF q, n
<1>2. /\ Len(q) = n + 9 /\ Len(x) \in Nat /\ c + (n + 9) <= Len(x)
      /\ i \in {2, 3} \union 8 .. n + 9
      /\ x[c + i] # q[i]
      /\ \A j \in 1 .. n + 9 : j # i => x[c + j] = q[j]
  BY <1>1, LenProperties DEF IsPacket, Damaged, q
<1>3. FirstHeader(x) = c + 1
  <2>1. 1 \in 1 .. n + 9 /\ 1 # i
    BY <1>1, <1>2
  <2>2. x[c + 1] = Header
    BY <1>1, <1>2, <2>1 DEF IsPacket
  <2>3. c < Len(x)
    BY <1>1, <1>2
  <2> QED
    BY <2>2, <2>3, HeaderFound DEF Damaged
<1>4. /\ rest \in Seq(Byte) /\ Len(rest) = Len(x) - c /\ Len(rest) \in Nat
      /\ \A j \in 1 .. Len(x) - c : rest[j] = x[c + j]
  <2>1. /\ rest \in Seq(Byte)
        /\ Len(rest) = IF c + 1 <= Len(x) THEN Len(x) - (c + 1) + 1 ELSE 0
        /\ \A j \in 1 .. Len(x) - (c + 1) + 1 : rest[j] = x[(c + 1) + j - 1]
    <3>1. c + 1 \in Int /\ Len(x) \in Int /\ \A j \in c + 1 .. Len(x) : x[j] \in Byte
      BY <1>2, ElementOfSeq
    <3> QED
      BY <3>1, SubSeqProperties
  <2> HIDE DEF rest
  <2>2. Len(rest) = Len(x) - c /\ Len(rest) \in Nat
    <3>1. Len(x) \in Nat /\ c < Len(x)
      BY <1>1, <1>2
    <3>2. Len(rest) = IF c + 1 <= Len(x) THEN Len(x) - (c + 1) + 1 ELSE 0
      BY <2>1
    <3> QED
      BY <3>1, <3>2
  <2>3. ASSUME NEW j \in 1 .. Len(x) - c PROVE rest[j] = x[c + j]
    <3>1. j \in 1 .. Len(x) - (c + 1) + 1 /\ (c + 1) + j - 1 = c + j
      BY <1>2
    <3> QED
      BY <2>1, <3>1
  <2> QED
    BY <2>1, <2>2, <2>3
<1>5. SubSeq(x, c + 1, Len(x)) = rest
  OBVIOUS
<1> HIDE DEF rest
<1>6. /\ rest[i] # q[i]
      /\ \A j \in 1 .. n + 9 : j # i => rest[j] = q[j]
      /\ n + 9 <= Len(rest)
      /\ \A j \in 1 .. n + 9 : rest[j] \in Byte
  <2>1. n + 9 <= Len(rest) /\ \A j \in 1 .. n + 9 : rest[j] = x[c + j]
    BY <1>1, <1>2, <1>4
  <2>2. i \in 1 .. n + 9
    BY <1>1, <1>2
  <2>3. \A j \in 1 .. n + 9 : rest[j] \in Byte
    BY <1>1, <1>4, <2>1, ElementOfSeq
  <2> QED
    BY <1>2, <2>1, <2>2, <2>3
<1>7. ~TooLong(SubSeq(rest, 4, 7)) /\ DataLength(SubSeq(rest, 4, 7)) = n
  <2>1. \A j \in 4 .. 7 : j \in 1 .. n + 9 /\ j # i
    BY <1>1, <1>2
  <2>2. /\ rest[4] = q[4] /\ rest[5] = q[5] /\ rest[6] = q[6] /\ rest[7] = q[7]
    BY <1>6, <2>1
  <2>3. /\ rest[4] = 0 /\ rest[5] = 0 /\ rest[6] = n \div 256 /\ rest[7] = n % 256
    BY <1>1, <2>2 DEF IsPacket
  <2>4. Len(rest) > 7
    BY <1>1, <1>4, <1>6
  <2> QED
    BY <1>1, <1>4, <2>3, <2>4, LengthRead
<1>8. Len(rest) > 7 /\ ~Incomplete(rest)
  BY <1>1, <1>4, <1>6, <1>7 DEF Incomplete, HeadLen, SumLen
<1>9. /\ body \in Seq(Byte) /\ Len(body) = n + 7
      /\ \A j \in 1 .. n + 7 : body[j] = rest[j]
  <2>1. \A j \in 1 .. n + 7 : rest[j] \in Byte
    BY <1>1, <1>6
  <2>2. /\ body \in Seq(Byte)
        /\ Len(body) = IF 1 <= n + 7 THEN (n + 7) - 1 + 1 ELSE 0
        /\ \A j \in 1 .. (n + 7) - 1 + 1 : body[j] = rest[1 + j - 1]
    BY <1>1, <2>1, SubSeqProperties
  <2> QED
    BY <1>1, <2>2
<1>10. /\ Body(p) \in Seq(Byte) /\ Len(Body(p)) = n + 7
       /\ \A j \in 1 .. n + 7 : q[j] = Body(p)[j]
       /\ q[n + 8] = Checksum(Body(p)) \div 256 /\ q[n + 9] = Checksum(Body(p)) % 256
  BY <1>1 DEF IsPacket, Sums
<1>11. SumMatches(rest, n) <=> /\ Checksum(body) \div 256 = rest[n + 8]
                               /\ Checksum(body) % 256 = rest[n + 9]
  <2>1. /\ HeadLen + n = n + 7 /\ HeadLen + n + 1 = n + 8
        /\ HeadLen + n + 2 = n + 9
    BY <1>1 DEF HeadLen
  <2> QED
    BY <2>1 DEF SumMatches
<1> HIDE DEF body
<1>12. CASE i <= n + 7
  <2>1. /\ i \in 1 .. n + 7 /\ n + 8 \in 1 .. n + 9 /\ n + 9 \in 1 .. n + 9
        /\ n + 8 # i /\ n + 9 # i
    BY <1>1, <1>2, <1>12
  <2>2. rest[n + 8] = q[n + 8] /\ rest[n + 9] = q[n + 9]
    BY <1>6, <2>1
  <2>3. body[i] # Body(p)[i] /\ \A j \in 1 .. n + 7 : j # i => body[j] = Body(p)[j]
    <3>1. body[i] = rest[i] /\ Body(p)[i] = q[i]
      BY <1>9, <1>10, <2>1
    <3>2. ASSUME NEW j \in 1 .. n + 7, j # i PROVE body[j] = Body(p)[j]
      <4>1. j \in 1 .. n + 9
        BY <1>1
      <4> QED
        BY <1>6, <1>9, <1>10, <3>2, <4>1
    <3> QED
      BY <1>6, <3>1, <3>2
  <2> DEFINE was == Body(p)
             sum == Checksum(body)
             old == Checksum(was)
  <2>4. /\ was \in Seq(Byte) /\ Len(was) = n + 7 /\ Len(body) = Len(was)
        /\ i \in 1 .. Len(body)
        /\ body[i] # was[i] /\ \A j \in 1 .. Len(body) : j # i => body[j] = was[j]
    BY <1>9, <1>10, <2>1, <2>3
  <2>5. sum \in Nat /\ old \in Nat /\ sum # old
    <3> HIDE DEF was
    <3> QED
      BY <1>9, <2>4, ChecksumTells
  <2> HIDE DEF sum, old
  <2>6. sum \div 256 # old \div 256 \/ sum % 256 # old % 256
    BY <2>5, TwoBytesApart
  <2>7. ~SumMatches(rest, n)
    BY <1>10, <1>11, <2>2, <2>6 DEF sum, old
  <2> QED
    BY <1>3, <1>4, <1>5, <1>7, <1>8, <2>7, ParseRefused
<1>13. CASE ~(i <= n + 7)
  <2>1. i = n + 8 \/ i = n + 9
    BY <1>1, <1>2, <1>13
  <2>2. \A j \in 1 .. n + 7 : j \in 1 .. n + 9 /\ j # i
    BY <1>1, <1>2, <1>13
  <2>3. body = Body(p)
    <3>1. \A j \in 1 .. n + 7 : body[j] = Body(p)[j]
      BY <1>6, <1>9, <1>10, <2>2
    <3> QED
      BY <1>9, <1>10, <3>1, SeqEqual
  <2>4. ~SumMatches(rest, n)
    BY <1>6, <1>10, <1>11, <2>1, <2>3
  <2> QED
    BY <1>3, <1>4, <1>5, <1>7, <1>8, <2>4, ParseRefused
<1> QED
  BY <1>12, <1>13

-----------------------------------------------------------------------------
(* Where the packets stand in the stream.                                  *)

\* What may stand on the wire.
Octets == Byte \union {Sums(p)[i] : p \in Pdus, i \in {1, 2}}

Messages == [gap : Gaps, pdu : Pdus]

\* The packets of Pdus are sequences of bytes.
LEMMA PacketType ==
    ASSUME NEW p \in Pdus
    PROVE  /\ CreatePacket(p) \in Seq(Octets) /\ Len(CreatePacket(p)) \in Nat
           /\ 9 <= Len(CreatePacket(p)) /\ p \in Pdu /\ p # NoPdu
<1>1. p \in Pdu /\ p # NoPdu
  BY ReaderAssumption
<1>2. IsPacket(CreatePacket(p), Len(p.data), p)
  BY <1>1, PacketBytes
<1>3. Body(p) \in Seq(Octets)
  BY <1>2 DEF IsPacket, Octets
<1>4. Sums(p)[1] \in Octets /\ Sums(p)[2] \in Octets
  BY DEF Octets
<1>5. Sums(p) \in Seq(Octets)
  <2>1. Sums(p) = <<Sums(p)[1], Sums(p)[2]>>
    BY DEF Sums
  <2>2. \A a, b \in Octets : <<a, b>> \in Seq(Octets)
    OBVIOUS
  <2> QED
    BY <1>4, <2>1, <2>2
<1>6. CreatePacket(p) = Body(p) \o Sums(p)
  BY DEF CreatePacket, Body, Sums
<1> QED
  BY <1>1, <1>2, <1>3, <1>5, <1>6 DEF IsPacket

\* Three sequences in a row.
LEMMA ThreeInARow ==
    ASSUME NEW Z, NEW a \in Seq(Z), NEW b \in Seq(Z), NEW d \in Seq(Z)
    PROVE  LET x == a \o b \o d
           IN  /\ x \in Seq(Z) /\ Len(x) = Len(a) + Len(b) + Len(d)
               /\ \A i \in 1 .. Len(a) : x[i] = a[i]
               /\ \A i \in 1 .. Len(b) : x[Len(a) + i] = b[i]
               /\ \A i \in 1 .. Len(d) : x[Len(a) + Len(b) + i] = d[i]
<1> DEFINE y == a \o b
           x == y \o d
<1>1. Len(a) \in Nat /\ Len(b) \in Nat /\ Len(d) \in Nat
  OBVIOUS
<1>2. /\ y \in Seq(Z) /\ Len(y) = Len(a) + Len(b)
      /\ \A i \in 1 .. Len(a) + Len(b) :
           y[i] = IF i <= Len(a) THEN a[i] ELSE b[i - Len(a)]
  BY ConcatProperties
<1> HIDE DEF y
<1>3. /\ x \in Seq(Z) /\ Len(x) = Len(y) + Len(d)
      /\ \A i \in 1 .. Len(y) + Len(d) :
           x[i] = IF i <= Len(y) THEN y[i] ELSE d[i - Len(y)]
  <2>1. y \in Seq(Z)
    BY <1>2
  <2> QED
    BY <2>1, ConcatProperties
<1> HIDE DEF x
<1>4. \A i \in 1 .. Len(a) : x[i] = a[i]
  BY <1>1, <1>2, <1>3
<1>5. ASSUME NEW i \in 1 .. Len(b) PROVE x[Len(a) + i] = b[i]
  <2>1. /\ Len(a) + i \in 1 .. Len(a) + Len(b) /\ ~(Len(a) + i <= Len(a))
        /\ Len(a) + i - Len(a) = i
    BY <1>1
  <2>2. Len(a) + i \in 1 .. Len(y) + Len(d) /\ Len(a) + i <= Len(y)
    BY <1>1, <1>2, <2>1
  <2> QED
    BY <1>2, <1>3, <2>1, <2>2
<1>6. ASSUME NEW i \in 1 .. Len(d) PROVE x[Len(a) + Len(b) + i] = d[i]
  <2>1. /\ Len(a) + Len(b) + i \in 1 .. Len(y) + Len(d)
        /\ ~(Len(a) + Len(b) + i <= Len(y)) /\ Len(a) + Len(b) + i - Len(y) = i
    BY <1>1, <1>2
  <2> DEFINE j == Len(a) + Len(b) + i
  <2> HIDE DEF j
  <2>2. j \in 1 .. Len(y) + Len(d) /\ ~(j <= Len(y)) /\ j - Len(y) = i
    BY <2>1 DEF j
  <2>3. x[j] = d[i]
    BY <1>3, <2>2
  <2> QED
    BY ONLY <2>3 DEF j
<1> QED
  BY <1>1, <1>2, <1>3, <1>4, <1>5, <1>6 DEF x, y

\* In the stream w of the messages ms, the k-th gap starts behind pos[k - 1] and
\* the k-th packet stands behind start[k], up to pos[k].
Layout(w, ms, pos, start) ==
    /\ w \in Seq(Octets)
    /\ pos \in [0 .. Len(ms) -> Nat] /\ start \in [1 .. Len(ms) -> Nat]
    /\ pos[0] = 0 /\ pos[Len(ms)] = Len(w)
    /\ \A k \in 1 .. Len(ms) : pos[k] = Len(Stream(SubSeq(ms, 1, k)))
    /\ \A k \in 1 .. Len(ms) :
         /\ pos[k - 1] <= start[k]
         /\ pos[k] = start[k] + Len(CreatePacket(ms[k].pdu))
         /\ pos[k] <= Len(w)
         /\ \A i \in pos[k - 1] + 1 .. start[k] : w[i] # Header
         /\ \A i \in 1 .. Len(CreatePacket(ms[k].pdu)) :
              w[start[k] + i] = CreatePacket(ms[k].pdu)[i]

\* Every stream of packets is laid out like that.
LEMMA StreamLayout ==
    ASSUME NEW ms \in Seq(Messages)
    PROVE  \E pos, start : Layout(Stream(ms), ms, pos, start)
<1> DEFINE n == Len(ms)
           gap(k) == ms[k].gap
           q(k) == CreatePacket(ms[k].pdu)
           w == Stream(ms)
<1>1. n \in Nat /\ DOMAIN ms = 1 .. n
  OBVIOUS
<1>2. PICK part : /\ part[0] = <<>>
                  /\ \A k \in 1 .. n : part[k] = With(part[k - 1], ms[k])
                  /\ part[n] = w
  BY <1>1, StreamParts
<1>3. \A k \in 1 .. n : part[k] = part[k - 1] \o gap(k) \o q(k)
  BY <1>2 DEF With
<1>4. ASSUME NEW k \in 1 .. n
      PROVE  /\ gap(k) \in Seq(Octets) /\ q(k) \in Seq(Octets)
             /\ \A i \in 1 .. Len(gap(k)) : gap(k)[i] # Header
             /\ Len(gap(k)) \in Nat /\ Len(q(k)) \in Nat
  <2>1. ms[k] \in Messages
    OBVIOUS
  <2>2. gap(k) \in Seq(Byte \ {Header}) /\ ms[k].pdu \in Pdus
    BY <2>1, ReaderAssumption DEF Messages
  <2> HIDE DEF gap
  <2>3. gap(k) \in Seq(Octets)
    BY <2>2 DEF Octets
  <2> QED
    BY <2>2, <2>3, PacketType
<1>5. \A k \in 0 .. n : part[k] = Stream(SubSeq(ms, 1, k))
  BY <1>2, StreamPrefix
<1> HIDE DEF n, gap, q, w
<1>6. \A k \in 0 .. n : part[k] \in Seq(Octets)
  <2> DEFINE T == {k \in Nat : k <= n => part[k] \in Seq(Octets)}
  <2>1. 0 \in T
    <3>1. part[0] = <<>> /\ <<>> \in Seq(Octets)
      BY <1>2
    <3> QED
      BY <3>1
  <2>2. ASSUME NEW k \in Nat, k \in T PROVE k + 1 \in T
    <3> SUFFICES ASSUME k + 1 <= n PROVE part[k + 1] \in Seq(Octets)
      OBVIOUS
    <3> DEFINE l == k + 1
    <3>1. l \in 1 .. n /\ l - 1 = k /\ part[k] \in Seq(Octets)
      BY <1>1, <2>2
    <3> HIDE DEF l
    <3>2. part[l] = part[l - 1] \o gap(l) \o q(l)
      BY <1>3, <3>1
    <3>3. gap(l) \in Seq(Octets) /\ q(l) \in Seq(Octets) /\ part[l - 1] \in Seq(Octets)
      BY <1>4, <3>1
    <3>4. part[l] \in Seq(Octets)
      BY <3>2, <3>3, ThreeInARow
    <3> QED
      BY <3>4 DEF l
  <2> HIDE DEF T
  <2>3. Nat \subseteq T
    BY <2>1, <2>2, SetInduction
  <2> QED
    BY <1>1, <2>3 DEF T
<1> DEFINE pos == [k \in 0 .. n |-> Len(part[k])]
           start == [k \in 1 .. n |-> Len(part[k - 1]) + Len(gap(k))]
<1>7. \A k \in 0 .. n : Len(part[k]) \in Nat
  BY <1>6
<1>8. ASSUME NEW k \in 1 .. n
      PROVE  /\ Len(part[k]) = Len(part[k - 1]) + Len(gap(k)) + Len(q(k))
             /\ \A i \in 1 .. Len(part[k - 1]) : part[k][i] = part[k - 1][i]
             /\ \A i \in 1 .. Len(gap(k)) : part[k][Len(part[k - 1]) + i] = gap(k)[i]
             /\ \A i \in 1 .. Len(q(k)) :
                  part[k][Len(part[k - 1]) + Len(gap(k)) + i] = q(k)[i]
  <2>1. k - 1 \in 0 .. n
    BY <1>1
  <2>2. part[k - 1] \in Seq(Octets) /\ gap(k) \in Seq(Octets) /\ q(k) \in Seq(Octets)
    BY <1>4, <1>6, <2>1
  <2>3. part[k] = part[k - 1] \o gap(k) \o q(k)
    BY <1>3
  <2> QED
    BY <2>2, <2>3, ThreeInARow
<1>9. ASSUME NEW k \in 0 .. n
      PROVE  Len(part[k]) <= Len(w) /\ \A i \in 1 .. Len(part[k]) : w[i] = part[k][i]
  <2> DEFINE Prefix(a, b) == Len(a) <= Len(b) /\ \A i \in 1 .. Len(a) : b[i] = a[i]
             T == {j \in Nat : k + j <= n => Prefix(part[k], part[k + j])}
  <2>1. 0 \in T
    <3>1. k + 0 = k
      OBVIOUS
    <3> QED
      BY <1>7, <3>1
  <2>2. ASSUME NEW j \in Nat, j \in T PROVE j + 1 \in T
    <3> SUFFICES ASSUME k + (j + 1) <= n PROVE Prefix(part[k], part[k + (j + 1)])
      OBVIOUS
    <3> DEFINE l == k + (j + 1)
    <3>1. l \in 1 .. n /\ l - 1 = k + j /\ l - 1 \in 0 .. n /\ Prefix(part[k], part[k + j])
      BY <1>1, <2>2
    <3> HIDE DEF l
    <3>2. /\ Len(part[l]) = Len(part[l - 1]) + Len(gap(l)) + Len(q(l))
          /\ \A i \in 1 .. Len(part[l - 1]) : part[l][i] = part[l - 1][i]
      BY <1>8, <3>1
    <3>3. /\ Len(part[l]) \in Nat /\ Len(part[l - 1]) \in Nat /\ Len(gap(l)) \in Nat
          /\ Len(q(l)) \in Nat /\ Len(part[k]) \in Nat
      BY <1>4, <1>7, <3>1
    <3>4. Prefix(part[k], part[l - 1])
      BY <3>1
    <3>5. Len(part[l - 1]) <= Len(part[l])
      BY <3>2, <3>3
    <3>6. \A i \in 1 .. Len(part[k]) :
             i \in 1 .. Len(part[l - 1]) /\ part[l - 1][i] = part[k][i]
      BY <3>3, <3>4
    <3>7. Prefix(part[k], part[l])
      BY <3>2, <3>3, <3>4, <3>5, <3>6
    <3> QED
      BY <3>7 DEF l
  <2>3. Nat \subseteq T
    <3> HIDE DEF T
    <3> QED
      BY <2>1, <2>2, SetInduction
  <2>4. n - k \in Nat /\ k + (n - k) = n
    BY <1>1
  <2>5. n - k \in T
    BY <2>3, <2>4
  <2> QED
    BY <1>1, <1>2, <2>4, <2>5
<1>10. ASSUME NEW k \in 1 .. n
      PROVE  /\ pos[k - 1] <= start[k] /\ pos[k] = start[k] + Len(q(k))
             /\ pos[k] <= Len(w)
             /\ \A i \in pos[k - 1] + 1 .. start[k] : w[i] # Header
             /\ \A i \in 1 .. Len(q(k)) : w[start[k] + i] = q(k)[i]
  <2>1. k - 1 \in 0 .. n /\ k \in 0 .. n
    BY <1>1
  <2> DEFINE a == Len(part[k - 1])
             b == Len(gap(k))
             d == Len(q(k))
  <2>2. pos[k - 1] = a /\ pos[k] = Len(part[k]) /\ start[k] = a + b
    BY <2>1
  <2>3. a \in Nat /\ b \in Nat /\ d \in Nat /\ Len(part[k]) = a + b + d
    BY <1>4, <1>7, <1>8, <2>1
  <2>4. Len(part[k]) <= Len(w) /\ \A i \in 1 .. Len(part[k]) : w[i] = part[k][i]
    BY <1>9, <2>1
  <2>5. /\ \A i \in 1 .. b : part[k][a + i] = gap(k)[i] /\ gap(k)[i] # Header
        /\ \A i \in 1 .. d : part[k][a + b + i] = q(k)[i]
    BY <1>4, <1>8
  <2> HIDE DEF a, b, d, pos, start
  <2>6. ASSUME NEW i \in a + 1 .. a + b PROVE w[i] # Header
    <3>1. i - a \in 1 .. b /\ a + (i - a) = i /\ i \in 1 .. Len(part[k])
      BY <2>3
    <3> QED
      BY <2>4, <2>5, <3>1
  <2>7. ASSUME NEW i \in 1 .. d PROVE w[a + b + i] = q(k)[i]
    <3>1. a + b + i \in 1 .. Len(part[k])
      BY <2>3
    <3> QED
      BY <2>4, <2>5, <3>1
  <2>8. a <= a + b /\ a + b + d <= Len(w)
    BY <2>3, <2>4
  <2>9. \A i \in 1 .. Len(q(k)) : w[a + b + i] = q(k)[i]
    BY <2>7 DEF d
  <2> QED
    BY <2>2, <2>3, <2>6, <2>8, <2>9 DEF d
<1>11. /\ pos \in [0 .. n -> Nat] /\ start \in [1 .. n -> Nat]
       /\ pos[0] = 0 /\ pos[n] = Len(w)
  <2>1. \A k \in 1 .. n : Len(part[k - 1]) \in Nat /\ Len(gap(k)) \in Nat
    BY <1>1, <1>4, <1>7
  <2>2. 0 \in 0 .. n /\ n \in 0 .. n /\ Len(part[0]) = 0
    BY <1>1, <1>2
  <2> QED
    BY <1>2, <1>7, <2>1, <2>2
<1>12. w \in Seq(Octets)
  <2>1. n \in 0 .. n
    BY <1>1
  <2> QED
    BY <1>2, <1>6, <2>1
<1>13. \A k \in 1 .. n : pos[k] = Len(Stream(SubSeq(ms, 1, k)))
  <2> SUFFICES ASSUME NEW k \in 1 .. n PROVE Len(part[k]) = Len(Stream(SubSeq(ms, 1, k)))
    BY <1>1
  <2>1. k \in 0 .. n
    BY <1>1
  <2> QED
    BY <1>5, <2>1
<1> HIDE DEF pos, start
<1>14. Layout(w, ms, pos, start)
  BY <1>10, <1>11, <1>12, <1>13 DEF Layout, n, q
<1> QED
  BY <1>14 DEF w

-----------------------------------------------------------------------------
(* The reader.                                                             *)

\* The bytes x stand in w behind the first c.
Stands(x, w, c) == \A i \in 1 .. Len(x) : x[i] = w[c + i]

\* The reader has used c bytes of the stream w: the packets delivered, and at
\* most the gap before the next one.  The buffer and the wire hold the others.
Reading(w, pos, start, c) ==
    /\ c + Len(main_buf) + Len(wire) = Len(w)
    /\ Stands(main_buf, w, c) /\ Stands(wire, w, c + Len(main_buf))
    /\ pos[Len(got)] <= c
    /\ Len(got) < Len(msgs) => c <= start[Len(got) + 1]

\* No turn of the loop is more than a packet behind.
Waits ==
    pc = "recv" /\ ~skipped /\ main_buf # <<>> =>
      /\ Len(got) < Len(msgs)
      /\ Len(main_buf) < Len(CreatePacket(msgs[Len(got) + 1].pdu))

ReaderType ==
    /\ msgs \in Seq(Messages)
    /\ wire \in Seq(Octets) /\ main_buf \in Seq(Octets)
    /\ pc \in {"recv", "parse", "overrun"} /\ skipped \in BOOLEAN

\* What was delivered is what the client sent, so far.
Delivered ==
    /\ got \in Seq(Pdus) /\ Len(got) <= Len(msgs)
    /\ \A i \in 1 .. Len(got) : got[i] = msgs[i].pdu

\* OverrunOnlyByLong is not inductive: what parse_packet2 leaves in the buffer is
\* shorter than a packet only because it is the beginning of one.
ReaderInv ==
    /\ ReaderType /\ Delivered /\ Waits /\ OverrunOnlyByLong
    /\ \E pos, start : \E c \in Nat :
         /\ Layout(Stream(msgs), msgs, pos, start)
         /\ Reading(Stream(msgs), pos, start, c)

\* At first the wire holds the whole stream.
LEMMA ReaderInit == Init => ReaderInv
<1> SUFFICES ASSUME Init PROVE ReaderInv
  OBVIOUS
<1>1. MaxPdus \in Nat
  BY ReaderAssumption
<1>2. PICK n \in 0 .. MaxPdus : msgs \in [1 .. n -> Messages]
  BY DEF Init, Messages
<1>3. msgs \in Seq(Messages) /\ Len(msgs) \in Nat
  BY <1>1, <1>2
<1>4. PICK pos, start : Layout(Stream(msgs), msgs, pos, start)
  BY <1>3, StreamLayout
<1>5. /\ wire = Stream(msgs) /\ main_buf = <<>> /\ pc = "recv" /\ got = <<>>
      /\ skipped \in BOOLEAN
  BY Zenon DEF Init
<1>6. wire \in Seq(Octets) /\ pos[0] = 0
      /\ \A k \in 1 .. Len(msgs) : pos[k - 1] <= start[k]
  BY <1>4, <1>5 DEF Layout
<1>7. ReaderType
  BY <1>3, <1>5, <1>6 DEF ReaderType
<1>8. Delivered
  BY <1>3, <1>5 DEF Delivered
<1>9. Waits /\ OverrunOnlyByLong
  BY <1>5 DEF Waits, OverrunOnlyByLong
<1>10. Reading(Stream(msgs), pos, start, 0)
  <2>1. Len(main_buf) = 0 /\ Len(got) = 0 /\ Len(wire) = Len(Stream(msgs))
        /\ Len(wire) \in Nat
    BY <1>5, <1>6
  <2>2. 0 < Len(msgs) => 0 <= start[0 + 1]
    <3> SUFFICES ASSUME 0 < Len(msgs) PROVE 0 <= start[0 + 1]
      OBVIOUS
    <3>1. 0 + 1 = 1 /\ 1 \in 1 .. Len(msgs) /\ 1 - 1 = 0
      BY <1>3
    <3> QED
      BY <1>6, <3>1
  <2>3. Stands(main_buf, Stream(msgs), 0)
    BY <2>1 DEF Stands
  <2>4. Stands(wire, Stream(msgs), 0 + Len(main_buf))
    BY <1>5, <2>1 DEF Stands
  <2> QED
    BY <1>6, <2>1, <2>2, <2>3, <2>4 DEF Reading
<1> QED
  BY <1>4, <1>7, <1>8, <1>9, <1>10 DEF ReaderInv

\* Some more bytes arrive.
LEMMA ReceiveKeeps ==
    ASSUME ReaderInv, NEW n \in 1 .. RecvMax, Receive(n)
    PROVE  ReaderInv'
<1>1. /\ n <= Len(wire)
      /\ main_buf' = main_buf \o SubSeq(wire, 1, n)
      /\ wire' = SubSeq(wire, n + 1, Len(wire))
  BY DEF Receive, Coming
<1>2. /\ msgs' = msgs /\ got' = got
      /\ wire \in Seq(Octets) /\ main_buf \in Seq(Octets) /\ n \in Nat
  BY ReaderAssumption DEF Receive, ReaderInv, ReaderType
<1>3. skipped' \in BOOLEAN /\ (pc' = "parse" \/ (pc' = "recv" /\ skipped'))
  BY Zenon DEF Receive
<1> DEFINE x == SubSeq(wire, 1, n)
           l == Len(main_buf)
<1>4. x \in Seq(Octets) /\ Len(x) = n /\ \A i \in 1 .. n : x[i] = wire[i]
  BY <1>1, <1>2, FirstBytes
<1>5. /\ wire' \in Seq(Octets) /\ Len(wire') = Len(wire) - n
      /\ \A i \in 1 .. Len(wire) - n : wire'[i] = wire[n + i]
  BY <1>1, <1>2, RestBytes
<1> HIDE DEF x
<1>6. /\ main_buf' \in Seq(Octets) /\ Len(main_buf') = l + n
      /\ \A i \in 1 .. l + n : main_buf'[i] = IF i <= l THEN main_buf[i] ELSE x[i - l]
  <2>1. main_buf' = main_buf \o x
    BY <1>1 DEF x
  <2>2. main_buf \in Seq(Octets) /\ x \in Seq(Octets)
    BY <1>2, <1>4
  <2>3. /\ main_buf \o x \in Seq(Octets) /\ Len(main_buf \o x) = l + Len(x)
        /\ \A i \in 1 .. l + Len(x) :
             (main_buf \o x)[i] = IF i <= l THEN main_buf[i] ELSE x[i - l]
    BY <2>2, ConcatProperties
  <2> QED
    BY <1>4, <2>1, <2>3
<1>7. l \in Nat /\ Len(wire) \in Nat
  BY <1>2
<1>8. Waits' /\ OverrunOnlyByLong'
  BY <1>3 DEF Waits, OverrunOnlyByLong
<1>9. PICK pos, start : \E c \in Nat : /\ Layout(Stream(msgs), msgs, pos, start)
                                       /\ Reading(Stream(msgs), pos, start, c)
  BY DEF ReaderInv
<1>10. PICK c \in Nat : /\ Layout(Stream(msgs), msgs, pos, start)
                        /\ Reading(Stream(msgs), pos, start, c)
  BY <1>9
<1> HIDE DEF l
<1>11. Reading(Stream(msgs), pos, start, c)'
  <2> DEFINE w == Stream(msgs)
  <2>1. /\ c + l + Len(wire) = Len(w)
        /\ \A i \in 1 .. l : main_buf[i] = w[c + i]
        /\ \A i \in 1 .. Len(wire) : wire[i] = w[c + l + i]
    BY <1>10 DEF Reading, Stands, l
  <2> HIDE DEF w
  <2>2. Stands(main_buf', w, c)
    <3> SUFFICES ASSUME NEW i \in 1 .. l + n PROVE main_buf'[i] = w[c + i]
      BY <1>6 DEF Stands
    <3>1. CASE i <= l
      <4>1. i \in 1 .. l /\ main_buf'[i] = main_buf[i]
        BY <1>6, <1>7, <3>1
      <4> QED
        BY <2>1, <4>1
    <3>2. CASE ~(i <= l)
      <4>1. i - l \in 1 .. n /\ i - l \in 1 .. Len(wire) /\ c + l + (i - l) = c + i
        BY <1>1, <1>2, <1>7, <3>2
      <4> QED
        BY <1>4, <1>6, <2>1, <3>2, <4>1
    <3> QED
      BY <3>1, <3>2
  <2>3. Stands(wire', w, c + (l + n))
    <3> SUFFICES ASSUME NEW i \in 1 .. Len(wire) - n PROVE wire'[i] = w[c + (l + n) + i]
      BY <1>5 DEF Stands
    <3>1. n + i \in 1 .. Len(wire) /\ c + l + (n + i) = c + (l + n) + i
      BY <1>1, <1>2, <1>7
    <3> QED
      BY <1>5, <2>1, <3>1
  <2>4. c + (l + n) + (Len(wire) - n) = c + l + Len(wire)
    BY <1>1, <1>2, <1>7
  <2>5. w = Stream(msgs)' /\ w = Stream(msgs)
    BY <1>2 DEF w
  <2> QED
    BY <1>2, <1>5, <1>6, <1>10, <2>1, <2>2, <2>3, <2>4, <2>5 DEF Reading
<1>12. Layout(Stream(msgs), msgs, pos, start)'
  BY <1>2, <1>10
<1>13. ReaderType' /\ Delivered'
  BY <1>2, <1>5, <1>6, <1>3 DEF ReaderInv, ReaderType, Delivered
<1> QED
  BY <1>8, <1>11, <1>12, <1>13 DEF ReaderInv

\* One turn of the parse loop on a buffer that is not empty: it throws stray
\* bytes away and keeps the beginning of a packet, or delivers the next packet.
LEMMA Turn ==
    ASSUME ReaderType, Delivered, NEW pos, NEW start, NEW c \in Nat,
           Layout(Stream(msgs), msgs, pos, start),
           Reading(Stream(msgs), pos, start, c), main_buf # <<>>
    PROVE  LET r == Parse(main_buf)
               k == Len(got) + 1
           IN  /\ k \in 1 .. Len(msgs) /\ r.used \in 0 .. Len(main_buf)
               /\ \/ /\ r.pdu = NoPdu /\ c + r.used <= start[k]
                     /\ r.used = 0 => Len(main_buf) < Len(CreatePacket(msgs[k].pdu))
                  \/ /\ r.pdu = msgs[k].pdu /\ r.pdu # NoPdu /\ r.used > 0
                     /\ c + r.used = pos[k]
<1> DEFINE r == Parse(main_buf)
           k == Len(got) + 1
           w == Stream(msgs)
           l == Len(main_buf)
           n == Len(msgs)
           p == msgs[k].pdu
           q == CreatePacket(p)
<1>1. /\ main_buf \in Seq(Octets) /\ l \in Nat \ {0} /\ Len(wire) \in Nat
      /\ n \in Nat /\ Len(got) \in Nat /\ Len(got) <= n
  BY DEF ReaderType, Delivered
<1>2. /\ c + l + Len(wire) = Len(w) /\ \A i \in 1 .. l : main_buf[i] = w[c + i]
      /\ pos[Len(got)] <= c /\ (Len(got) < n => c <= start[k])
  BY DEF Reading, Stands
<1> HIDE DEF w, l
<1>3. k \in 1 .. n
  <2>1. Len(got) # n
    <3>1. pos[n] = Len(w)
      BY DEF Layout, w
    <3> QED
      BY <1>1, <1>2, <3>1
  <2> QED
    BY <1>1, <2>1
<1>4. p \in Pdus
  <2>1. msgs \in Seq(Messages)
    BY DEF ReaderType
  <2> HIDE DEF k
  <2>2. msgs[k] \in Messages
    BY <1>3, <2>1
  <2> QED
    BY <2>2 DEF Messages
<1>5. /\ q \in Seq(Octets) /\ Len(q) \in Nat /\ 9 <= Len(q)
      /\ p \in Pdu /\ p # NoPdu
  BY <1>4, PacketType
<1>6. /\ pos[Len(got)] \in Nat /\ start[k] \in Nat /\ pos[k] = start[k] + Len(q)
      /\ c <= start[k]
      /\ \A i \in pos[Len(got)] + 1 .. start[k] : w[i] # Header
      /\ \A i \in 1 .. Len(q) : w[start[k] + i] = q[i]
  <2>1. k - 1 = Len(got) /\ Len(got) \in 0 .. n /\ Len(got) < n
    BY <1>1, <1>3
  <2> HIDE DEF k
  <2> QED
    BY <1>2, <1>3, <2>1 DEF Layout, w
<1> DEFINE s == start[k] - c
<1>7. s \in Nat /\ c + s = start[k]
  BY <1>6
<1> HIDE DEF s, k, n, p, q
<1>8. \A i \in 1 .. l : i <= s => main_buf[i] # Header
  <2> SUFFICES ASSUME NEW i \in 1 .. l, i <= s PROVE main_buf[i] # Header
    OBVIOUS
  <2>1. c + i \in pos[Len(got)] + 1 .. start[k]
    BY <1>2, <1>6, <1>7
  <2> QED
    BY <1>2, <1>6, <2>1
<1>9. CASE l <= s
  <2>1. \A i \in 1 .. Len(main_buf) : main_buf[i] # Header
    BY <1>1, <1>7, <1>8, <1>9 DEF l
  <2>2. r = [used |-> l, pdu |-> NoPdu]
    BY <1>1, <2>1, ParseStray DEF l
  <2> HIDE DEF r
  <2>3. /\ r.pdu = NoPdu /\ r.used = l /\ r.used \in 0 .. l /\ c + r.used <= start[k]
        /\ r.used # 0
    BY <1>1, <1>7, <1>9, <2>2
  <2> QED
    BY <1>3, <2>3 DEF r, k, n, l
<1>10. CASE s < l
  <2>1. Holds(main_buf, s, p)
    <3>1. \A i \in 1 .. s : main_buf[i] # Header
      BY <1>1, <1>7, <1>8, <1>10
    <3>2. \A i \in 1 .. Len(q) : s + i <= l => main_buf[s + i] = q[i]
      <4> SUFFICES ASSUME NEW i \in 1 .. Len(q), s + i <= l
                   PROVE  main_buf[s + i] = q[i]
        OBVIOUS
      <4>1. s + i \in 1 .. l /\ c + (s + i) = start[k] + i
        BY <1>1, <1>7
      <4> QED
        BY <1>2, <1>6, <4>1
    <3> QED
      BY <1>10, <3>1, <3>2 DEF Holds, l, q
  <2>2. r = IF s + Len(q) <= l THEN [used |-> s + Len(q), pdu |-> p]
                               ELSE [used |-> s, pdu |-> NoPdu]
    BY <1>1, <1>5, <1>7, <2>1, ParsePacket DEF l, q
  <2> HIDE DEF r
  <2>3. CASE s + Len(q) <= l
    <3>1. r.used = s + Len(q) /\ r.pdu = p
      BY <2>2, <2>3
    <3>2. /\ r.used \in 0 .. l /\ r.used > 0 /\ c + r.used = pos[k]
      BY <1>1, <1>5, <1>6, <1>7, <2>3, <3>1
    <3> QED
      BY <1>3, <1>5, <3>1, <3>2 DEF r, k, n, l, p
  <2>4. CASE ~(s + Len(q) <= l)
    <3>1. r.used = s /\ r.pdu = NoPdu
      BY <2>2, <2>4
    <3>2. /\ r.used \in 0 .. l /\ c + r.used <= start[k]
          /\ r.used = 0 => l < Len(q)
      BY <1>1, <1>5, <1>6, <1>7, <1>10, <2>4, <3>1
    <3> QED
      BY <1>3, <3>1, <3>2 DEF r, k, n, l, q, p
  <2> QED
    BY <2>3, <2>4
<1> QED
  BY <1>1, <1>7, <1>9, <1>10

\* What the turn leaves stands in the stream behind what it has used.
LEMMA ParseOneReads ==
    ASSUME ReaderInv, ParseOne
    PROVE  /\ \E pos, start : \E c \in Nat :
                /\ Layout(Stream(msgs), msgs, pos, start)'
                /\ Reading(Stream(msgs), pos, start, c)'
           /\ ReaderType' /\ Waits' /\ OverrunOnlyByLong'
           /\ \/ got' = got
              \/ /\ Len(got) + 1 \in 1 .. Len(msgs)
                 /\ got' = Append(got, msgs[Len(got) + 1].pdu)
<1> DEFINE r == Parse(main_buf)
           k == Len(got) + 1
           w == Stream(msgs)
           l == Len(main_buf)
           u == r.used
<1>1. PICK pos, start : \E c \in Nat : /\ Layout(Stream(msgs), msgs, pos, start)
                                       /\ Reading(Stream(msgs), pos, start, c)
  BY DEF ReaderInv
<1>2. PICK c \in Nat : /\ Layout(Stream(msgs), msgs, pos, start)
                       /\ Reading(Stream(msgs), pos, start, c)
  BY <1>1
<1>3. /\ main_buf # <<>> /\ pc = "parse" /\ msgs' = msgs /\ wire' = wire
      /\ skipped' = skipped
      /\ main_buf' = IF u = 0 THEN main_buf ELSE SubSeq(main_buf, u + 1, l)
      /\ pc' = IF u = 0 THEN "recv" ELSE "parse"
      /\ got' = IF r.pdu = NoPdu THEN got ELSE Append(got, r.pdu)
  BY DEF ParseOne, Rest
<1>4. /\ k \in 1 .. Len(msgs) /\ u \in 0 .. l
      /\ \/ /\ r.pdu = NoPdu /\ c + u <= start[k]
            /\ u = 0 => l < Len(CreatePacket(msgs[k].pdu))
         \/ /\ r.pdu = msgs[k].pdu /\ r.pdu # NoPdu /\ u > 0
            /\ c + u = pos[k]
  BY <1>2, <1>3, Turn DEF ReaderInv
<1>5. /\ main_buf \in Seq(Octets) /\ l \in Nat /\ wire \in Seq(Octets)
      /\ Len(wire) \in Nat /\ got \in Seq(Pdus) /\ Len(got) \in Nat
      /\ Len(msgs) \in Nat
  BY DEF ReaderInv, ReaderType, Delivered
<1>6. /\ c + l + Len(wire) = Len(w) /\ \A i \in 1 .. l : main_buf[i] = w[c + i]
      /\ \A i \in 1 .. Len(wire) : wire[i] = w[c + l + i]
      /\ pos[Len(got)] <= c /\ (Len(got) < Len(msgs) => c <= start[k])
  BY <1>2 DEF Reading, Stands
<1> HIDE DEF r, w, l, k, u
<1>7. /\ main_buf' \in Seq(Octets) /\ Len(main_buf') = l - u
      /\ \A i \in 1 .. l - u : main_buf'[i] = main_buf[u + i]
  <2>1. CASE u = 0
    BY <2>1, <1>3, <1>5 DEF l
  <2>2. CASE u # 0
    <3>1. u \in Nat /\ u <= Len(main_buf)
      BY <1>4, <1>5 DEF l
    <3>2. main_buf' = SubSeq(main_buf, u + 1, Len(main_buf))
      BY <2>2, <1>3 DEF l
    <3> QED
      BY <3>1, <3>2, <1>5, RestBytes DEF l
  <2> QED
    BY <2>1, <2>2
<1>8. ReaderType'
  BY <1>3, <1>7 DEF ReaderInv, ReaderType
<1>9. Waits' /\ OverrunOnlyByLong'
  <2>1. CASE u = 0
    <3>1. /\ main_buf' = main_buf /\ got' = got /\ msgs' = msgs /\ pc' = "recv"
          /\ l < Len(CreatePacket(msgs[k].pdu))
      BY <1>3, <1>4, <2>1
    <3>2. Len(got) < Len(msgs)
      BY <1>4, <1>5 DEF k
    <3> QED
      BY <3>1, <3>2 DEF Waits, OverrunOnlyByLong, k, l
  <2>2. CASE u # 0
    <3>1. pc' = "parse"
      BY <1>3, <2>2
    <3> QED
      BY <3>1 DEF Waits, OverrunOnlyByLong
  <2> QED
    BY <2>1, <2>2
<1>10. \/ got' = got /\ r.pdu = NoPdu
       \/ got' = Append(got, msgs[k].pdu) /\ r.pdu # NoPdu
  BY <1>3, <1>4
<1>11. Layout(Stream(msgs), msgs, pos, start)'
  BY <1>2, <1>3
<1>12. pos[Len(got')] <= c + u /\ (Len(got') < Len(msgs) => c + u <= start[Len(got') + 1])
  <2>1. CASE r.pdu = NoPdu
    <3>1. got' = got /\ c + u <= start[k]
      BY <2>1, <1>4, <1>10
    <3>2. pos[Len(got)] \in Int
      <4>1. Len(got) \in 0 .. Len(msgs)
        BY <1>4, <1>5 DEF k
      <4> QED
        BY <4>1, <1>2 DEF Layout
    <3> QED
      BY <3>1, <3>2, <1>4, <1>5, <1>6 DEF k
  <2>2. CASE r.pdu # NoPdu
    <3>1. got' = Append(got, msgs[k].pdu) /\ c + u = pos[k] /\ msgs[k].pdu \in Pdus
      <4>1. msgs[k] \in Messages
        BY <1>4 DEF ReaderInv, ReaderType
      <4> QED
        BY <4>1, <2>2, <1>4, <1>10 DEF Messages
    <3>2. Len(got') = k
      BY <3>1, <1>5 DEF k
    <3>3. pos[k] \in Nat /\ (k < Len(msgs) => pos[k] <= start[k + 1])
      <4>1. k \in 0 .. Len(msgs)
        BY <1>4, <1>5
      <4>2. ASSUME k < Len(msgs) PROVE pos[k] <= start[k + 1]
        <5> DEFINE m == k + 1
        <5>1. m \in 1 .. Len(msgs) /\ m - 1 = k
          BY <1>4, <1>5, <4>2
        <5> HIDE DEF m
        <5>2. pos[m - 1] <= start[m]
          BY <5>1, <1>2 DEF Layout
        <5> QED
          BY <5>1, <5>2 DEF m
      <4> QED
        BY <4>1, <4>2, <1>2 DEF Layout
    <3> QED
      BY <3>1, <3>2, <3>3
  <2> QED
    BY <2>1, <2>2
<1>13. PICK d \in Nat : d = c + u
  BY <1>4, <1>5
<1>14. Reading(Stream(msgs), pos, start, d)'
  <2>1. c + u + (l - u) + Len(wire) = Len(w)
    <3>1. c + l + Len(wire) = Len(w)
      BY <1>6
    <3>2. u \in Nat /\ l \in Nat /\ Len(wire) \in Nat
      BY <1>4, <1>5
    <3> QED
      BY <3>1, <3>2
  <2>2. Stands(main_buf', w, c + u)
    <3> SUFFICES ASSUME NEW i \in 1 .. l - u PROVE main_buf'[i] = w[c + u + i]
      BY <1>7 DEF Stands
    <3>1. u + i \in 1 .. l /\ c + (u + i) = c + u + i
      BY <1>4, <1>5
    <3> QED
      BY <3>1, <1>6, <1>7
  <2>3. Stands(wire, w, c + u + (l - u))
    <3>1. c + u + (l - u) = c + l
      BY <1>4, <1>5
    <3> QED
      BY <3>1, <1>6 DEF Stands
  <2>4. Stream(msgs)' = w
    BY <1>3 DEF w
  <2>5. /\ d + Len(main_buf') + Len(wire') = Len(w)
        /\ Stands(main_buf', w, d)
        /\ Stands(wire', w, d + Len(main_buf'))
        /\ pos[Len(got')] <= d
        /\ Len(got') < Len(msgs') => d <= start[Len(got') + 1]
    BY <1>3, <1>7, <1>12, <1>13, <2>1, <2>2, <2>3
  <2> QED
    BY ONLY <2>4, <2>5 DEF Reading
<1>15. \/ got' = got
       \/ /\ Len(got) + 1 \in 1 .. Len(msgs)
          /\ got' = Append(got, msgs[Len(got) + 1].pdu)
  <2>1. k \in 1 .. Len(msgs) /\ (got' = got \/ got' = Append(got, msgs[k].pdu))
    BY <1>4, <1>10
  <2> QED
    BY ONLY <2>1 DEF k
<1> QED
  BY <1>8, <1>9, <1>11, <1>14, <1>15

\* A turn of the parse loop keeps the invariant.
LEMMA ParseOneKeeps ==
    ASSUME ReaderInv, ParseOne
    PROVE  ReaderInv'
<1>1. /\ \E pos, start : \E c \in Nat :
           /\ Layout(Stream(msgs), msgs, pos, start)'
           /\ Reading(Stream(msgs), pos, start, c)'
      /\ ReaderType' /\ Waits' /\ OverrunOnlyByLong'
      /\ \/ got' = got
         \/ /\ Len(got) + 1 \in 1 .. Len(msgs)
            /\ got' = Append(got, msgs[Len(got) + 1].pdu)
  BY ParseOneReads
<1>2. msgs' = msgs /\ Delivered /\ msgs \in Seq(Messages)
  BY DEF ParseOne, ReaderInv, ReaderType
<1>3. Delivered'
  <2>1. CASE got' = got
    BY <2>1, <1>2 DEF Delivered
  <2>2. CASE /\ Len(got) + 1 \in 1 .. Len(msgs)
             /\ got' = Append(got, msgs[Len(got) + 1].pdu)
    <3> DEFINE k == Len(got) + 1
               p == msgs[k].pdu
    <3>1. k \in 1 .. Len(msgs) /\ got \in Seq(Pdus) /\ Len(got) \in Nat
          /\ \A i \in 1 .. Len(got) : got[i] = msgs[i].pdu
      BY <2>2, <1>2 DEF Delivered
    <3>2. p \in Pdus
      <4> HIDE DEF k
      <4>1. msgs[k] \in Messages
        BY <3>1, <1>2
      <4> QED
        BY <4>1 DEF Messages
    <3> HIDE DEF p
    <3>3. got' = Append(got, p)
      BY <2>2 DEF p
    <3>4. got' \in Seq(Pdus) /\ Len(got') = k /\ got'[k] = p
          /\ \A i \in 1 .. Len(got) : got'[i] = got[i]
      BY <3>1, <3>2, <3>3
    <3>5. \A i \in 1 .. k : i \in 1 .. Len(got) \/ i = k
      BY <3>1
    <3> QED
      BY <1>2, <3>1, <3>4, <3>5 DEF Delivered, p
  <2> QED
    BY <1>1, <2>1, <2>2
<1> QED
  BY <1>1, <1>3 DEF ReaderInv

\* A step that only moves the control keeps what the invariant says of the bytes.
LEMMA SameBytes ==
    ASSUME ReaderInv, UNCHANGED <<msgs, wire, main_buf, skipped, got>>,
           pc' \in {"recv", "parse", "overrun"}, Waits', OverrunOnlyByLong'
    PROVE  ReaderInv'
<1>1. /\ msgs' = msgs /\ wire' = wire /\ main_buf' = main_buf /\ got' = got
      /\ skipped' = skipped
  OBVIOUS
<1>2. ReaderType' /\ Delivered'
  BY <1>1 DEF ReaderInv, ReaderType, Delivered
<1>3. PICK pos, start : \E c \in Nat : /\ Layout(Stream(msgs), msgs, pos, start)
                                       /\ Reading(Stream(msgs), pos, start, c)
  BY DEF ReaderInv
<1>4. PICK c \in Nat : /\ Layout(Stream(msgs), msgs, pos, start)
                       /\ Reading(Stream(msgs), pos, start, c)
  BY <1>3
<1>5. Layout(Stream(msgs), msgs, pos, start)'
  BY <1>1, <1>4
<1>6. Reading(Stream(msgs), pos, start, c)'
  BY <1>1, <1>4 DEF Reading
<1> QED
  BY <1>2, <1>5, <1>6 DEF ReaderInv

\* The buffer overruns: what is in it is shorter than a packet, or was not looked at.
LEMMA OverrunKeeps ==
    ASSUME ReaderInv, NEW n \in 1 .. RecvMax, Overrun(n)
    PROVE  ReaderInv'
<1>1. /\ pc = "recv" /\ pc' = "overrun" /\ Len(main_buf) + n > 2 * RecvMax
      /\ UNCHANGED <<msgs, wire, main_buf, skipped, got>>
  BY DEF Overrun, Coming
<1>2. /\ msgs \in Seq(Messages) /\ Len(main_buf) \in Nat /\ RecvMax \in Nat
      /\ got \in Seq(Pdus)
  BY ReaderAssumption DEF ReaderInv, ReaderType, Delivered
<1>3. Len(main_buf) > RecvMax
  BY <1>1, <1>2
<1>4. ASSUME ~skipped
      PROVE  \E i \in DOMAIN msgs : Len(CreatePacket(msgs[i].pdu)) > RecvMax + 1
  <2> DEFINE k == Len(got) + 1
             m == msgs[k]
  <2>1. main_buf # <<>>
    BY <1>2, <1>3
  <2>2. Len(got) < Len(msgs) /\ Len(main_buf) < Len(CreatePacket(m.pdu))
    BY <1>1, <1>4, <2>1 DEF ReaderInv, Waits
  <2>3. k \in DOMAIN msgs
    BY <1>2, <2>2
  <2>4. Len(CreatePacket(m.pdu)) \in Nat
    <3> HIDE DEF k
    <3>1. m \in Messages
      BY <1>2, <2>3
    <3> QED
      BY <3>1, PacketType DEF Messages
  <2> HIDE DEF m
  <2>5. Len(CreatePacket(m.pdu)) > RecvMax + 1
    BY <1>2, <1>3, <2>2, <2>4
  <2> QED
    BY <2>3, <2>5 DEF m
<1>5. OverrunOnlyByLong' /\ Waits'
  BY <1>1, <1>4 DEF OverrunOnlyByLong, Waits
<1> QED
  BY <1>1, <1>5, SameBytes

\* ReaderInv is inductive.
LEMMA ReaderStep ==
    ASSUME ReaderInv, [Next]_vars
    PROVE  ReaderInv'
<1>1. CASE UNCHANGED vars
  <2>1. UNCHANGED <<msgs, wire, main_buf, skipped, got>> /\ pc' = pc
    BY <1>1 DEF vars
  <2>2. pc' \in {"recv", "parse", "overrun"} /\ Waits' /\ OverrunOnlyByLong'
    BY <2>1 DEF ReaderInv, ReaderType, Waits, OverrunOnlyByLong
  <2> QED
    BY <2>1, <2>2, SameBytes
<1>2. CASE BatchDone
  <2>1. UNCHANGED <<msgs, wire, main_buf, skipped, got>> /\ pc' = "recv" /\ main_buf = <<>>
    BY <1>2 DEF BatchDone
  <2>2. Waits' /\ OverrunOnlyByLong'
    BY <2>1 DEF Waits, OverrunOnlyByLong
  <2> QED
    BY <2>1, <2>2, SameBytes
<1> QED
  BY <1>1, <1>2, ReceiveKeeps, OverrunKeeps, ParseOneKeeps DEF Next

\* The inductive invariant holds however TCP cuts the stream.
THEOREM ReaderInvariant == Spec => []ReaderInv
  BY ReaderInit, ReaderStep, PTL DEF Spec

\* memcpy leaves main_buf only on a connection with a packet longer than RecvMax by
\* two bytes or more, or behind bytes that were not looked at when they came.
THEOREM OverrunByLong == Spec => []OverrunOnlyByLong
<1>1. ReaderInv => OverrunOnlyByLong
  BY DEF ReaderInv
<1> QED
  BY <1>1, ReaderInvariant, PTL

\* Packets end one behind the other.
LEMMA EndsInOrder ==
    ASSUME NEW w, NEW ms \in Seq(Messages), NEW pos, NEW start,
           Layout(w, ms, pos, start),
           NEW j \in 0 .. Len(ms), NEW k \in 0 .. Len(ms), j <= k
    PROVE  pos[j] <= pos[k]
<1> DEFINE n == Len(ms)
           T == {i \in Nat : j + i <= n => pos[j] <= pos[j + i]}
<1>1. /\ n \in Nat /\ pos \in [0 .. n -> Nat] /\ start \in [1 .. n -> Nat]
      /\ \A i \in 1 .. n : /\ pos[i - 1] <= start[i] /\ ms[i] \in Messages
                           /\ pos[i] = start[i] + Len(CreatePacket(ms[i].pdu))
  BY DEF Layout
<1>2. ASSUME NEW i \in 1 .. n PROVE pos[i - 1] <= pos[i]
  <2>1. Len(CreatePacket(ms[i].pdu)) \in Nat
    BY <1>1, PacketType DEF Messages
  <2>2. i - 1 \in 0 .. n
    BY <1>1
  <2> HIDE DEF n
  <2>3. pos[i - 1] \in Nat /\ start[i] \in Nat
    BY <1>1, <2>2
  <2>4. pos[i - 1] <= start[i] /\ pos[i] = start[i] + Len(CreatePacket(ms[i].pdu))
    BY <1>1
  <2> QED
    BY <2>1, <2>3, <2>4
<1> HIDE DEF n
<1>3. 0 \in T
  <2>1. j \in 0 .. n /\ j + 0 = j
    BY DEF n
  <2>2. pos \in [0 .. n -> Nat]
    BY <1>1
  <2>3. pos[j] \in Nat
    BY <2>1, <2>2
  <2> QED
    BY <2>1, <2>3
<1>4. ASSUME NEW i \in Nat, i \in T PROVE i + 1 \in T
  <2> SUFFICES ASSUME j + (i + 1) <= n PROVE pos[j] <= pos[j + (i + 1)]
    OBVIOUS
  <2> DEFINE l == j + (i + 1)
  <2>1. /\ l \in 1 .. n /\ l - 1 = j + i /\ pos[j] <= pos[j + i]
        /\ j \in 0 .. n /\ l - 1 \in 0 .. n /\ l \in 0 .. n
    BY <1>1, <1>4 DEF n
  <2> HIDE DEF l
  <2>2. pos[j] \in Nat /\ pos[l - 1] \in Nat /\ pos[l] \in Nat /\ pos[l - 1] <= pos[l]
    BY <1>1, <1>2, <2>1
  <2>3. pos[j] <= pos[l]
    BY <2>1, <2>2
  <2> QED
    BY <2>3 DEF l
<1> HIDE DEF T
<1>5. Nat \subseteq T
  BY <1>3, <1>4, SetInduction
<1>6. k - j \in Nat /\ j + (k - j) = k /\ k <= n
  BY <1>1 DEF n
<1>7. k - j \in T
  BY <1>5, <1>6
<1> QED
  BY <1>6, <1>7 DEF T

\* A packet that has come completely and is not dispatched would stand in main_buf,
\* which is shorter.
LEMMA WaitsPromptly == ReaderInv => Prompt
<1> SUFFICES ASSUME ReaderInv, pc = "recv", ~skipped, NEW i \in 1 .. Len(msgs),
                    Len(Stream(SubSeq(msgs, 1, i))) <= Len(Stream(msgs)) - Len(wire),
                    ~(i <= Len(got))
             PROVE  FALSE
  BY DEF Prompt
<1> DEFINE k == Len(got) + 1
           q == CreatePacket(msgs[k].pdu)
           l == Len(main_buf)
<1>1. /\ msgs \in Seq(Messages) /\ Len(msgs) \in Nat /\ Len(got) \in Nat
      /\ l \in Nat /\ Len(wire) \in Nat
  BY DEF ReaderInv, ReaderType, Delivered
<1>2. PICK pos, start : \E c \in Nat : /\ Layout(Stream(msgs), msgs, pos, start)
                                       /\ Reading(Stream(msgs), pos, start, c)
  BY DEF ReaderInv
<1>3. PICK c \in Nat : /\ Layout(Stream(msgs), msgs, pos, start)
                       /\ Reading(Stream(msgs), pos, start, c)
  BY <1>2
<1>4. k \in 1 .. Len(msgs) /\ k \in 0 .. Len(msgs) /\ i \in 0 .. Len(msgs) /\ k <= i
  BY <1>1
<1>5. Len(q) \in Nat /\ 9 <= Len(q)
  <2> HIDE DEF k
  <2>1. msgs[k] \in Messages
    BY <1>1, <1>4
  <2> QED
    BY <2>1, PacketType DEF Messages
<1>6. pos[i] <= c + l
  <2>1. pos[i] = Len(Stream(SubSeq(msgs, 1, i)))
    BY <1>3 DEF Layout
  <2>2. c + l + Len(wire) = Len(Stream(msgs))
    BY <1>3 DEF Reading
  <2>3. Len(Stream(msgs)) - Len(wire) = c + l
    BY <1>1, <2>2
  <2> QED
    BY <2>1, <2>3
<1>7. c <= start[k]
  <2>1. Len(got) < Len(msgs)
    BY <1>1, <1>4
  <2> QED
    BY <1>3, <2>1 DEF Reading
<1>8. l < Len(q)
  <2>1. CASE main_buf = <<>>
    BY <1>5, <2>1
  <2>2. CASE main_buf # <<>>
    BY <2>2 DEF ReaderInv, Waits
  <2> QED
    BY <2>1, <2>2
<1> HIDE DEF k, q, l
<1>9. pos[k] = start[k] + Len(q) /\ start[k] \in Nat /\ pos[i] \in Nat /\ pos[k] \in Nat
  BY <1>3, <1>4 DEF Layout, q
<1>10. pos[k] <= pos[i]
  <2>1. Layout(Stream(msgs), msgs, pos, start) /\ msgs \in Seq(Messages)
    BY <1>1, <1>3
  <2> QED
    BY <1>4, <2>1, EndsInOrder, Zenon
<1> QED
  BY <1>1, <1>5, <1>6, <1>7, <1>8, <1>9, <1>10

\* When the thread waits for more, every packet whose last byte has come is
\* dispatched, unless the last bytes were not looked at.
THEOREM DispatchedPromptly == Spec => []Prompt
  BY WaitsPromptly, ReaderInvariant, PTL

-----------------------------------------------------------------------------
\* A step of the reader delivers the next PDU the client has sent, or none.
LEMMA StepDelivers ==
    ASSUME ReaderInv, [Next]_vars
    PROVE  [Channel!Deliver]_<<[i \in 1 .. Len(msgs) - Len(got) |->
                                  msgs[i + Len(got)].pdu], got>>
<1> DEFINE coming == [i \in 1 .. Len(msgs) - Len(got) |-> msgs[i + Len(got)].pdu]
<1>1. CASE msgs' = msgs /\ got' = got
  BY <1>1
<1>2. CASE /\ msgs' = msgs /\ Len(got) + 1 \in 1 .. Len(msgs)
           /\ got' = Append(got, msgs[Len(got) + 1].pdu)
  <2> DEFINE j == Len(got)
             n == Len(msgs)
             p(i) == msgs[i].pdu
  <2>1. j \in Nat /\ n \in Nat /\ j + 1 <= n /\ got \in Seq(Pdus)
    BY <1>2 DEF ReaderInv, ReaderType, Delivered
  <2>2. \A i \in 1 .. n : p(i) \in Pdus
    <3>1. \A i \in 1 .. n : msgs[i] \in Messages
      BY DEF ReaderInv, ReaderType
    <3> QED
      BY <3>1 DEF Messages
  <2>3. Len(got') = j + 1
    BY <1>2, <2>1, <2>2
  <2>4. coming' = [i \in 1 .. n - (j + 1) |-> p(i + (j + 1))]
    BY <1>2, <2>3
  <2>5. coming = [i \in 1 .. n - j |-> p(i + j)]
    OBVIOUS
  <2>6. got' = Append(got, p(j + 1))
    BY <1>2
  <2> HIDE DEF j, n, p, coming
  <2>7. /\ coming \in Seq(Pdus) /\ Len(coming) = n - j
        /\ \A i \in 1 .. n - j : coming[i] = p(i + j)
    <3>1. \A i \in 1 .. n - j : p(i + j) \in Pdus
      BY <2>1, <2>2
    <3> QED
      BY <2>1, <2>5, <3>1
  <2>8. /\ coming' \in Seq(Pdus) /\ Len(coming') = n - j - 1
        /\ \A i \in 1 .. n - j - 1 : coming'[i] = p(i + (j + 1))
    <3>1. \A i \in 1 .. n - (j + 1) : p(i + (j + 1)) \in Pdus
      BY <2>1, <2>2
    <3>2. n - (j + 1) = n - j - 1 /\ n - (j + 1) \in Nat
      BY <2>1
    <3> QED
      BY <2>4, <3>1, <3>2
  <2>9. coming # <<>> /\ Head(coming) = p(j + 1)
    <3>1. 1 \in 1 .. n - j /\ 1 + j = j + 1 /\ n - j # 0
      BY <2>1
    <3> QED
      BY <2>7, <3>1
  <2>10. coming' = Tail(coming)
    <3>1. Tail(coming) \in Seq(Pdus) /\ Len(Tail(coming)) = n - j - 1
      BY <2>7, <2>9
    <3>2. ASSUME NEW i \in 1 .. n - j - 1 PROVE Tail(coming)[i] = coming'[i]
      <4>1. i + 1 \in 1 .. n - j /\ i + 1 + j = i + (j + 1)
        BY <2>1
      <4>2. Tail(coming)[i] = coming[i + 1]
        BY <2>7, <2>9
      <4> QED
        BY <2>7, <2>8, <4>1, <4>2
    <3> QED
      BY <2>8, <3>1, <3>2, SeqEqual
  <2> QED
    BY <2>6, <2>9, <2>10 DEF Channel!Deliver, coming
<1>3. ASSUME NEW n \in 1 .. RecvMax, Receive(n) \/ Overrun(n)
      PROVE  msgs' = msgs /\ got' = got
  BY <1>3 DEF Receive, Overrun
<1>4. CASE ParseOne
  <2>1. msgs' = msgs
    BY <1>4 DEF ParseOne
  <2> QED
    BY <1>1, <1>2, <1>4, <2>1, ParseOneReads
<1>5. CASE BatchDone \/ UNCHANGED vars
  BY <1>1, <1>5 DEF BatchDone, vars
<1> QED
  BY <1>1, <1>3, <1>4, <1>5 DEF Next

\* Whatever the pieces TCP hands over, and whatever stands between the packets,
\* what is dispatched is what was sent: nothing twice, nothing out of turn and
\* nothing else.
THEOREM DeliversInOrder == Spec => InOrder
<1>1. Init => Channel!Init
  BY DEF Init, Channel!Init
<1> QED
  BY <1>1, StepDelivers, ReaderInvariant, PTL DEF Spec, InOrder, Channel!Spec
=============================================================================
