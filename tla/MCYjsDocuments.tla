--------------------------- MODULE MCYjsDocuments ---------------------------
(* YjsDocuments on small sets, for TLC. *)
EXTENDS YjsDocuments, TLC

Symmetry == Permutations(Edits) \cup Permutations(Releasers) \cup Permutations(Purgers)
=============================================================================
