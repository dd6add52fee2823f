---------------------------- MODULE MCYjsMemory ----------------------------
(* YjsMemory on small sets, for TLC. *)
EXTENDS YjsMemory, TLC

Symmetry == Permutations(Edits) \cup Permutations(Releasers) \cup Permutations(Purgers)
=============================================================================
