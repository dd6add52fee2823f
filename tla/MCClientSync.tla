---------------------------- MODULE MCClientSync ----------------------------
(* Two browsers: the guest draws twice, so that an edit can meet a flight   *)
(* of the first, and the owner, whom the lock does not stop, looks on.      *)
EXTENDS ClientSync

CONSTANTS owner, guest

TwoClients == {owner, guest}
OneOwner == {owner}
FewEdits == [c \in TwoClients |-> IF c = owner THEN 0 ELSE 2]

\* Two light disturbances may follow each other; a heavy one happens alone.
Light == {"break", "late", "lock"}
Weights == [kind \in AllFaults |-> IF kind \in Light THEN 1 ELSE 2]
OnlyTheLock == [kind \in {"lock"} |-> 1]
=============================================================================
