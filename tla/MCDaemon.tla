------------------------------ MODULE MCDaemon ------------------------------
(* Daemon on small instances: packets, nodes, receive threads and peers are *)
(* interchangeable.                                                         *)
EXTENDS Daemon, TLC

MCInterfaceLists == { <<"lo", "running", "other", "down", "running">>,
                      <<"running", "bare">> }

Symmetry == Permutations(Packets) \union Permutations(Nodes)
              \union Permutations(Threads) \union Permutations(Askers)
=============================================================================
