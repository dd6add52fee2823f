--------------------------- MODULE MCSessionRoom ---------------------------
(* SessionRoom on small sets, for TLC. *)
EXTENDS SessionRoom, TLC

CONSTANTS s1, s2, s3, alice, bob

\* Every socket a user of its own, or all of one user.
OneEach == s1 :> alice @@ s2 :> bob
AllAlice == [s \in Sockets |-> alice]

Symmetry == Permutations(Requests)
=============================================================================
