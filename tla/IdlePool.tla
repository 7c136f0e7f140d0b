------------------------------ MODULE IdlePool ------------------------------
(***************************************************************************)
(* What packet_pool promises its users: idle packets are kept in the order *)
(* they came back, at most MaxIdle of them, the oldest one is handed out   *)
(* first, and a new packet is made only when none is idle.                 *)
(***************************************************************************)
EXTENDS Naturals, Sequences

CONSTANTS Packets, MaxIdle

VARIABLES idle,   \* the packets waiting to be used again, oldest first
          out     \* the packets that were handed out and have not come back

IdlePackets == {idle[i] : i \in DOMAIN idle}

Init == idle = <<>> /\ out = {}

Reuse == /\ idle # <<>>
         /\ idle' = Tail(idle)
         /\ out' = out \union {Head(idle)}

Make == /\ idle = <<>>
        /\ \E p \in Packets \ out : out' = out \union {p}
        /\ UNCHANGED idle

Return(p) == /\ p \in out
             /\ out' = out \ {p}
             /\ idle' = IF Len(idle) < MaxIdle THEN Append(idle, p)
                                               ELSE Append(Tail(idle), p)

Next == Reuse \/ Make \/ \E p \in Packets : Return(p)

Spec == Init /\ [][Next]_<<idle, out>>
=============================================================================
