---------------------------- MODULE FrameReader ----------------------------
(***************************************************************************)
(* The receive loop of one connection (client_manager.c) around the parse  *)
(* loop of protocol_adapter_process_data: TCP cuts the client's packets    *)
(* into pieces anywhere, main_buf collects them, and every complete packet *)
(* is dispatched.                                                          *)
(***************************************************************************)
EXTENDS ProtocolCore

CONSTANTS Pdus,       \* the requests a client may send
          Gaps,       \* stray bytes that may stand before a packet
          MaxPdus,    \* bound: packets per connection
          RecvMax     \* RECV_DATA_BUFFER, and PROTO_DATA_LEN_MAX: both are 4096

ASSUME ReaderAssumption ==
    /\ Pdus \subseteq {p \in Pdu \ {NoPdu} : Len(p.data) <= RecvMax}
    /\ Gaps \subseteq Seq(Byte \ {Header})
    /\ MaxPdus \in Nat /\ RecvMax \in Nat \ {0}

VARIABLES msgs,       \* what the client sends (constant)
          wire,       \* the bytes TCP has not handed over yet
          main_buf,   \* the bytes collected, before the next parse
          pc,         \* "recv", "parse", or "overrun": memcpy left main_buf
          skipped,    \* what the last recv brought was not looked at
          got         \* the PDUs dispatched

vars == <<msgs, wire, main_buf, pc, skipped, got>>

\* The byte stream of a sequence of packets, each after a gap.
Stream(packets) ==
    FoldLeft(LAMBDA bytes, m : bytes \o m.gap \o CreatePacket(m.pdu), <<>>, packets)

Init == /\ \E n \in 0 .. MaxPdus : msgs \in [1 .. n -> [gap : Gaps, pdu : Pdus]]
        /\ wire = Stream(msgs)
        /\ main_buf = <<>>
        /\ pc = "recv" /\ skipped = FALSE
        /\ got = <<>>

\* recv returns n bytes, between one and a full recBuffer.
Coming(n) == pc = "recv" /\ n \in 1 .. RecvMax /\ n <= Len(wire)

\* They are appended and given to the parse loop; or to nobody, while main has not
\* set the callback yet, or when the pool has no packet for process_data.
Receive(n) ==
    /\ Coming(n) /\ Len(main_buf) + n <= 2 * RecvMax
    /\ main_buf' = main_buf \o SubSeq(wire, 1, n)
    /\ wire' = SubSeq(wire, n + 1, Len(wire))
    /\ \/ pc' = "parse" /\ skipped' = FALSE
       \/ pc' = "recv" /\ skipped' = TRUE
    /\ UNCHANGED <<msgs, got>>

\* They do not fit: what the thread does from here on is undefined.
Overrun(n) ==
    /\ Coming(n) /\ Len(main_buf) + n > 2 * RecvMax
    /\ pc' = "overrun"
    /\ UNCHANGED <<msgs, wire, main_buf, skipped, got>>

\* Mutant: the end of the loop resets recvLen.
RestForgotten(bytes, used) == <<>>

\* What memmove leaves in the buffer.
Rest(bytes, used) == SubSeq(bytes, used + 1, Len(bytes))

\* One turn of the parse loop.
ParseOne ==
    /\ pc = "parse" /\ main_buf # <<>>
    /\ LET r == Parse(main_buf) IN
         /\ main_buf' = IF r.used = 0 THEN main_buf ELSE Rest(main_buf, r.used)
         /\ pc' = IF r.used = 0 THEN "recv" ELSE "parse"
         /\ got' = IF r.pdu = NoPdu THEN got ELSE Append(got, r.pdu)
    /\ UNCHANGED <<msgs, wire, skipped>>

BatchDone ==
    /\ pc = "parse" /\ main_buf = <<>>
    /\ pc' = "recv"
    /\ UNCHANGED <<msgs, wire, main_buf, skipped, got>>

Next == \/ \E n \in 1 .. RecvMax : Receive(n) \/ Overrun(n)
        \/ ParseOne \/ BatchDone

\* The client's bytes arrive and the thread runs.
Spec == Init /\ [][Next]_vars /\ WF_vars(Next)

-----------------------------------------------------------------------------
(* Correctness.                                                            *)

\* main_buf, which has room for twice what one recv returns, is only exceeded on
\* a connection with a packet longer than RecvMax by two bytes or more, or by
\* bytes that were not looked at when they came (client_manager.c:188).
OverrunOnlyByLong ==
    pc = "overrun" =>
      skipped \/ \E i \in DOMAIN msgs : Len(CreatePacket(msgs[i].pdu)) > RecvMax + 1

\* When the thread waits for more, it has dispatched every packet whose last byte
\* has come, so that no client waits for an answer that waits for the client;
\* unless the last bytes were not looked at.
Prompt ==
    pc = "recv" /\ ~skipped =>
      \A i \in 1 .. Len(msgs) :
        Len(Stream(SubSeq(msgs, 1, i))) <= Len(Stream(msgs)) - Len(wire) => i <= Len(got)

\* One byte of a packet changed on the way is noticed: no PDU comes out that the
\* client has not sent.
DamageNoticed ==
    main_buf # <<>> /\ Parse(main_buf).pdu # NoPdu =>
      \A i \in 1 .. Parse(main_buf).used : \A b \in {0, 1, 2, Header, 255} :
        LET damaged == [main_buf EXCEPT ![i] = b] IN
        NegativeLength(damaged)
          \/ Parse(damaged).pdu \in {NoPdu} \union {msgs[j].pdu : j \in DOMAIN msgs}

\* The reader delivers as PduChannel does, whatever the pieces.
Channel == INSTANCE PduChannel
    WITH coming <- [i \in 1 .. Len(msgs) - Len(got) |-> msgs[i + Len(got)].pdu],
         delivered <- got

InOrder == Channel!Spec

\* All that was sent is dispatched in the end, and the parse loop never turns for
\* ever, unless main_buf overruns or the last bytes were not looked at.
AllServed ==
    <>[](pc = "overrun" \/ (wire = <<>> /\ (skipped \/ Len(got) = Len(msgs))))
=============================================================================
