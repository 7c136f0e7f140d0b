---------------------------- MODULE SessionGate ----------------------------
(***************************************************************************)
(* What the client manager promises the commands behind its login gate.    *)
(* At most one slot has a session.  A receive thread belongs to a slot for *)
(* its whole life, but a slot that was taken over before anybody logged in *)
(* has several threads.  A thread becomes entitled to carry out commands   *)
(* at the start of a batch, if its slot has the session, and stays so      *)
(* until the end of the batch, whatever becomes of the session.            *)
(***************************************************************************)

CONSTANTS Threads, Slots, None

VARIABLES session,   \* the slot that is logged in, or None
          slotOf,    \* the slot of each receive thread
          entitled   \* the threads that carry out commands

Init == /\ session = None
        /\ slotOf \in [Threads -> Slots]
        /\ entitled = {}

Start(t) == /\ t \notin entitled
            /\ \E s \in Slots : slotOf' = [slotOf EXCEPT ![t] = s]
            /\ UNCHANGED <<session, entitled>>

\* Logging in ends the session of the other slot.
Enter(t) == session' = slotOf[t] /\ UNCHANGED <<slotOf, entitled>>

Begin(t) == /\ session = slotOf[t]
            /\ entitled' = entitled \union {t}
            /\ UNCHANGED <<session, slotOf>>

End(t) == entitled' = entitled \ {t} /\ UNCHANGED <<session, slotOf>>

\* A thread that ends takes the session of its slot with it.
Leave(t) == /\ t \notin entitled /\ session = slotOf[t]
            /\ session' = None
            /\ UNCHANGED <<slotOf, entitled>>

Next == \E t \in Threads :
            Start(t) \/ Enter(t) \/ Begin(t) \/ End(t) \/ Leave(t)

Spec == Init /\ [][Next]_<<session, slotOf, entitled>>
=============================================================================
