--------------------------- MODULE MCUpgradeServer ---------------------------
(* UpgradeServer on small instances; names, data and streams are             *)
(* interchangeable.                                                          *)
EXTENDS UpgradeServer, TLC

Symmetry == Permutations(Names) \union Permutations(Bytes)
              \union Permutations(Streams)
=============================================================================
