------------------------------- MODULE MCRoom -------------------------------
(* SessionRoom in three scopes, each an instance of its own.  One run covers *)
(* two of them: two sockets without failures, and one socket with canvas     *)
(* updates, saves, a purge and one failing database call.  The third, one    *)
(* socket and one request without failures, is that of the run under         *)
(* fairness.                                                                 *)
EXTENDS MCSessionRoom

VARIABLE scope

CoreOps    == {"join", "update", "facilitate", "write", "close", "kick"}
FailureOps == {"join", "facilitate", "canvas", "save", "purge", "kick"}
FairOps    == {"join", "update", "facilitate", "register", "read", "close", "purge", "kick"}
ScopeOps   == CASE scope = "core" -> CoreOps [] scope = "failures" -> FailureOps [] scope = "fair" -> FairOps

\* What a step of the scope may do.
InScope ==
  /\ \A c \in Callers : call'[c].op \in ScopeOps \cup {"none"}
  /\ IF scope = "failures" THEN connected' \subseteq {s1} ELSE failures' = 0

RoomInit == Init /\ scope \in {"core", "failures"}
RoomNext == Next /\ InScope /\ UNCHANGED scope
roomScope == <<vars, scope>>

RoomSpec == RoomInit /\ [][RoomNext]_roomScope
RoomFairInit == Init /\ scope = "fair"
RoomFairSpec == RoomFairInit /\ [][RoomNext]_roomScope /\ Fairness
=============================================================================
