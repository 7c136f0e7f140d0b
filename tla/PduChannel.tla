----------------------------- MODULE PduChannel -----------------------------
(***************************************************************************)
(* What the framing promises a client that keeps to the protocol: its      *)
(* packets are delivered unchanged and in order, each at most once.        *)
(***************************************************************************)
EXTENDS Sequences

VARIABLES coming, delivered

Init == delivered = <<>>

Deliver == /\ coming # <<>>
           /\ delivered' = Append(delivered, Head(coming))
           /\ coming' = Tail(coming)

\* Nothing twice, nothing out of turn, nothing else.
Spec == Init /\ [][Deliver]_<<coming, delivered>>
=============================================================================
