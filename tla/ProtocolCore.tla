---------------------------- MODULE ProtocolCore ----------------------------
(***************************************************************************)
(* protocol/protocol_core.c: the packet format, as functions on bytes.     *)
(*                                                                         *)
(*   0x7E  cmd  cmd_ex  length(4, big endian)  data  checksum(2)           *)
(*                                                                         *)
(* The checksum is the 16-bit sum of everything before it.                 *)
(***************************************************************************)
EXTENDS Naturals, Sequences, SequencesExt

Header == 126           \* 0x7E
HeadLen == 7            \* header, two command bytes, four length bytes
SumLen == 2

Byte == 0 .. 255

\* The PDUs of less than 64 KB.
Pdu == [cmd : Byte, cmd_ex : Byte,
        data : {d \in Seq(Byte) : Len(d) \div 256 \in Byte}]

NoPdu == [cmd |-> 0, cmd_ex |-> 0, data |-> <<>>]   \* b_enable = 0

\* Mutant: the sum starts behind the length.
ChecksumOfData(bytes) ==
    FoldLeft(LAMBDA sum, b : sum + b, 0, SubSeq(bytes, HeadLen + 1, Len(bytes))) % 65536

Checksum(bytes) == FoldLeft(LAMBDA sum, b : sum + b, 0, bytes) % 65536

\* create_protocol_packet; data shorter than 64 KB here, so the two upper
\* length bytes are zero.
CreatePacket(pdu) ==
    LET n    == Len(pdu.data)
        body == <<Header, pdu.cmd, pdu.cmd_ex, 0, 0, n \div 256, n % 256>> \o pdu.data
        sum  == Checksum(body)
    IN  body \o <<sum \div 256, sum % 256>>

\* parse_packet2's limit on the length, 0xFFFFF, in terms of the bytes read.
\* From 2^31 on the length is negative in the code's int and passes the limit,
\* with undefined results: Parse is meant for buffers without such a length.
TooLong(length) == length[1] > 0 \/ length[2] > 15

DataLength(length) == length[2] * 65536 + length[3] * 256 + length[4]

\* Mutant: one byte beyond the packet is waited for.
IncompleteAtEnd(rest) ==
    Len(rest) <= HeadLen + DataLength(SubSeq(rest, 4, 7)) + SumLen

\* The packet that starts rest has not come completely.
Incomplete(rest) == Len(rest) < HeadLen + DataLength(SubSeq(rest, 4, 7)) + SumLen

SumMatches(rest, n) ==
    LET sum == Checksum(SubSeq(rest, 1, HeadLen + n))
    IN  sum \div 256 = rest[HeadLen + n + 1] /\ sum % 256 = rest[HeadLen + n + 2]

\* Where the first header byte is; 0 when there is none.
FirstHeader(buffer) == SelectInSeq(buffer, LAMBDA b : b = Header)

\* The buffer starts a packet whose length is negative.
NegativeLength(buffer) ==
    LET start == FirstHeader(buffer)
    IN  start > 0 /\ Len(buffer) - start >= HeadLen /\ buffer[start + 3] >= 128

\* parse_packet2 on a non-empty buffer: how many bytes it has used, the ones it
\* threw away included, and the PDU it found, if any.
Parse(buffer) ==
    LET start   == FirstHeader(buffer)
        discard == start - 1
        rest    == SubSeq(buffer, start, Len(buffer))
        n       == DataLength(SubSeq(rest, 4, 7))
    IN  CASE start = 0 ->
               [used |-> Len(buffer), pdu |-> NoPdu]
          [] start > 0 /\ Len(rest) <= HeadLen ->
               [used |-> discard, pdu |-> NoPdu]
          [] start > 0 /\ Len(rest) > HeadLen /\ TooLong(SubSeq(rest, 4, 7)) ->
               [used |-> discard + 1, pdu |-> NoPdu]
          [] OTHER ->
               CASE Incomplete(rest) -> [used |-> discard, pdu |-> NoPdu]
                 [] ~Incomplete(rest) /\ ~SumMatches(rest, n) ->
                      [used |-> discard + 1, pdu |-> NoPdu]
                 [] OTHER ->
                      [used |-> discard + HeadLen + n + SumLen,
                       pdu  |-> [cmd |-> rest[2], cmd_ex |-> rest[3],
                                 data |-> SubSeq(rest, HeadLen + 1, HeadLen + n)]]
=============================================================================
