-------------------------- MODULE MCUploadSessions --------------------------
(* UploadSessions on small instances; threads, slots and uploads are        *)
(* interchangeable.                                                         *)
EXTENDS UploadSessions, TLC

Symmetry == Permutations(Threads) \union Permutations(Slots)
                \union Permutations(Uploads)
=============================================================================
