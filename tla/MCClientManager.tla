-------------------------- MODULE MCClientManager --------------------------
(* ClientManager on small instances: interchangeable clients, and a second *)
(* starting point for the larger one, the state start-up ends in when no   *)
(* client came during it.                                                  *)
EXTENDS ClientManager, TLC

Symmetry == Permutations(Conns)

StartedInit == NobodyYet /\ boot = "ready" /\ k = 1 /\ sock = [s \in Slot |-> -1]

StartedSpec == StartedInit /\ [][Next]_vars
=============================================================================
