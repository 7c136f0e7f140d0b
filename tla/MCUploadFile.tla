---------------------------- MODULE MCUploadFile ----------------------------
(* UploadFile on small instances; names, data and streams are interchangeable. *)
EXTENDS UploadFile, TLC

Symmetry == Permutations(Names) \union Permutations(Bytes)
              \union Permutations(Streams)
=============================================================================
