---------------------------- MODULE MCPacketPool ----------------------------
(* PacketPool on small instances: packets, nodes and receive threads are   *)
(* interchangeable.                                                        *)
EXTENDS PacketPool, TLC

Symmetry == Permutations(Packets) \union Permutations(Nodes)
              \union Permutations(Threads)
=============================================================================
