-------------------------- MODULE SessionRoomProofs --------------------------
(***************************************************************************)
(* Proofs about SessionRoom, for any number of sockets, users, requests    *)
(* and failures: its state has the declared types, the presence list shows *)
(* no ghosts and hides nobody, the document of a room with participants    *)
(* stays in memory and that of an empty room has somebody to release it,   *)
(* and facilitation is not lost under participants.  The room uses the     *)
(* document only as DocumentMemory allows, no call waits for what is not   *)
(* under way, and closed sessions stay closed and empty as long as no      *)
(* second status change and no join cross the close.                       *)
(***************************************************************************)
EXTENDS SessionRoom, FiniteSetTheorems, TLAPS

-----------------------------------------------------------------------------
(* Types.                                                                  *)

\* A call's record has the type of calls.
LEMMA CallInCalls ==
  ASSUME NEW op \in AllOps \cup {"none"}, NEW await \in Awaits,
         NEW on \in Sockets \cup {Nobody}
  PROVE  Call(op, await, on) \in Calls
  BY DEF Call, Calls

\* Starting, going on with and ending a call keep the type of call.
LEMMA StartsTypes ==
  ASSUME TypeOK, NEW c \in Callers, NEW op, NEW await \in Awaits, Starts(c, op, await)
  PROVE  call' \in [Callers -> Calls]
<1>1. Call(op, await, Nobody) \in Calls
  BY CallInCalls, RoomAssumption DEF Starts
<1> QED BY <1>1 DEF Starts, TypeOK, CallTypes

LEMMA ProceedsTypes ==
  ASSUME TypeOK, NEW c \in Callers, NEW await \in Awaits, Proceeds(c, await)
  PROVE  call' \in [Callers -> Calls]
<1>1. call[c].op \in AllOps \cup {"none"}
  BY DEF TypeOK, CallTypes, Calls
<1>2. Call(call[c].op, await, Nobody) \in Calls
  BY <1>1, CallInCalls
<1> QED BY <1>2 DEF Proceeds, TypeOK, CallTypes

LEMMA ReturnsTypes ==
  ASSUME TypeOK, NEW c \in Callers, Returns(c)
  PROVE  call' \in [Callers -> Calls]
<1>1. NoCall \in Calls
  BY CallInCalls DEF NoCall, Awaits
<1> QED BY <1>1 DEF Returns, TypeOK, CallTypes

\* What the document's specification does keeps its types.
LEMMA MemoryTypes ==
  ASSUME Memory!TypeOK,
         \/ Memory!Use \/ Memory!LoadDone \/ Memory!LoadFails \/ Memory!Discard
         \/ \E r \in Requests \cup {Eviction} :
              Memory!StartRelease(r) \/ Memory!Drop(r) \/ Memory!Keep(r)
         \/ UNCHANGED memoryVars
  PROVE  Memory!TypeOK'
  BY DEF Memory!TypeOK, Memory!Use, Memory!LoadDone, Memory!LoadFails, Memory!Discard,
         Memory!StartRelease, Memory!Drop, Memory!Keep, Memory!Forget, memoryVars

\* A handler on its way out, and a handler that ends early.
LEMMA LeavesTypes ==
  ASSUME TypeOK, NEW c \in Callers, Leaves(c) \/ Refused(c)
  PROVE  call' \in [Callers -> Calls] /\ timer' \in BOOLEAN
  BY ReturnsTypes DEF Leaves, Refused, ScheduleIfEmpty, TypeOK, RoomTypes

\* The steps of sockets.
LEMMA TypeClient == ASSUME TypeOK, NEW s \in Sockets, Client(s) PROVE TypeOK'
<1> USE DEF TypeOK
<1> s \in Callers
  BY DEF Callers
<1>1. CASE Connect(s) \/ Disconnect(s) \/ Facilitate(s)
  <2>1. RoomTypes'
    BY <1>1 DEF Connect, Disconnect, Facilitate, ScheduleIfEmpty, RoomTypes,
              sessionVars, socketVars, countVars
  <2>2. CallTypes'
    BY <1>1 DEF Connect, Disconnect, Facilitate, CallTypes, callVars
  <2>3. Memory!TypeOK'
    BY <1>1, MemoryTypes DEF Connect, Disconnect, Facilitate
  <2> QED BY <2>1, <2>2, <2>3
<1>2. CASE Join(s) \/ JoinRefused(s)
  <2>1. RoomTypes'
    BY <1>2 DEF Join, JoinRefused, RoomTypes, sessionVars, socketVars, countVars
  <2>2. CallTypes'
    BY <1>2, StartsTypes DEF Join, JoinRefused, CallTypes, callVars, Awaits
  <2>3. Memory!TypeOK'
    BY <1>2, MemoryTypes DEF Join, JoinRefused
  <2> QED BY <2>1, <2>2, <2>3
<1>3. CASE Update(s) \/ Write(s)
  <2>1. RoomTypes'
    BY <1>3 DEF Update, Write, RoomTypes, sessionVars, socketVars, countVars
  <2>2. CallTypes'
    BY <1>3, StartsTypes DEF Update, Write, CallTypes, Awaits
  <2>3. Memory!TypeOK'
    BY <1>3, MemoryTypes DEF Update, Write
  <2> QED BY <2>1, <2>2, <2>3
<1> QED BY <1>1, <1>2, <1>3 DEF Client

\* The requests.
LEMMA TypeRequest == ASSUME TypeOK, NEW q \in Requests, Request(q) PROVE TypeOK'
<1> USE DEF TypeOK
<1> q \in Callers
  BY DEF Callers
<1>1. CASE Register(q) \/ Read(q) \/ Write(q) \/ ChangeStatus(q)
  <2>1. RoomTypes'
    BY <1>1 DEF Register, Read, Write, ChangeStatus, RoomTypes, sessionVars, socketVars, countVars
  <2>2. CallTypes'
    BY <1>1, StartsTypes DEF Register, Read, Write, ChangeStatus, CallTypes, Awaits
  <2>3. Memory!TypeOK'
    BY <1>1, MemoryTypes DEF Register, Read, Write, ChangeStatus
  <2> QED BY <2>1, <2>2, <2>3
<1>2. CASE Purge(q)
  <2>1. RoomTypes'
    BY <1>2 DEF Purge, EndSession, RoomTypes, countVars
  <2>2. CallTypes'
    BY <1>2, StartsTypes DEF Purge, CallTypes, Awaits
  <2>3. Memory!TypeOK'
    BY <1>2, MemoryTypes DEF Purge, EndSession
  <2> QED BY <2>1, <2>2, <2>3
<1>3. ASSUME NEW s \in Sockets, Kick(q, s) PROVE TypeOK'
  <2>1. RoomTypes'
    BY <1>3 DEF Kick, RoomTypes, Users, socketVars, countVars
  <2>2. CallTypes'
    BY <1>3, StartsTypes DEF Kick, CallTypes, RoomTypes, Awaits
  <2>3. Memory!TypeOK'
    BY <1>3, MemoryTypes DEF Kick
  <2> QED BY <2>1, <2>2, <2>3
<1> QED BY <1>1, <1>2, <1>3 DEF Request

\* The steps of calls, those of joining and writing first.
LEMMA TypeJoining ==
  ASSUME TypeOK, NEW c \in Callers,
         \/ CapacityChecked(c) \/ StatusChecked(c) \/ SessionCreated(c)
         \/ c \in Sockets /\ (EnterRoom(c) \/ UpdateApplied(c))
  PROVE  TypeOK'
<1> USE DEF TypeOK
<1>1. CASE CapacityChecked(c) \/ StatusChecked(c)
  <2>1. RoomTypes'
    BY <1>1, LeavesTypes
       DEF CapacityChecked, StatusChecked, RoomTypes, sessionVars, socketVars, countVars
  <2>2. CallTypes'
    BY <1>1, LeavesTypes, ProceedsTypes DEF CapacityChecked, StatusChecked, CallTypes, Awaits
  <2>3. Memory!TypeOK'
    BY <1>1, MemoryTypes DEF CapacityChecked, StatusChecked
  <2> QED BY <2>1, <2>2, <2>3
<1>2. CASE SessionCreated(c)
  <2>1. RoomTypes'
    BY <1>2 DEF SessionCreated, Upserted, RoomTypes, socketVars, countVars
  <2>2. CallTypes'
    BY <1>2, ProceedsTypes DEF SessionCreated, CallTypes, Awaits
  <2>3. Memory!TypeOK'
    BY <1>2, MemoryTypes DEF SessionCreated
  <2> QED BY <2>1, <2>2, <2>3
<1>3. CASE c \in Sockets /\ (EnterRoom(c) \/ UpdateApplied(c))
  <2>1. RoomTypes'
    BY <1>3, LeavesTypes DEF EnterRoom, UpdateApplied, RoomTypes, sessionVars, socketVars, countVars
  <2>2. CallTypes'
    BY <1>3, LeavesTypes, ReturnsTypes DEF EnterRoom, UpdateApplied, CallTypes
  <2>3. Memory!TypeOK'
    BY <1>3, MemoryTypes DEF EnterRoom, UpdateApplied
  <2> QED BY <2>1, <2>2, <2>3
<1> QED BY <1>1, <1>2, <1>3

LEMMA TypeWriting ==
  ASSUME TypeOK, NEW c \in Callers,
         \/ SessionRead(c) \/ SnapshotUpserted(c) \/ Mirrored(c) \/ MirrorWritten(c)
         \/ c \in Requests /\ DocumentRead(c)
  PROVE  TypeOK'
<1> USE DEF TypeOK
<1>1. CASE SessionRead(c) \/ SnapshotUpserted(c)
  <2>1. RoomTypes'
    BY <1>1 DEF SessionRead, SnapshotUpserted, Upserted, RoomTypes,
                sessionVars, socketVars, countVars
  <2>2. CallTypes'
    BY <1>1, ProceedsTypes, ReturnsTypes DEF SessionRead, SnapshotUpserted, CallTypes, Awaits
  <2>3. Memory!TypeOK'
    BY <1>1, MemoryTypes DEF SessionRead, SnapshotUpserted
  <2> QED BY <2>1, <2>2, <2>3
<1>2. CASE Mirrored(c) \/ MirrorWritten(c)
  <2>1. RoomTypes'
    BY <1>2, LeavesTypes DEF Mirrored, MirrorWritten, Upserted, RoomTypes,
                             sessionVars, socketVars, countVars
  <2>2. CallTypes'
    BY <1>2, LeavesTypes, ProceedsTypes DEF Mirrored, MirrorWritten, CallTypes, Awaits
  <2>3. Memory!TypeOK'
    BY <1>2, MemoryTypes DEF Mirrored, MirrorWritten
  <2> QED BY <2>1, <2>2, <2>3
<1>3. CASE c \in Requests /\ DocumentRead(c)
  <2>1. RoomTypes'
    BY <1>3, LeavesTypes DEF DocumentRead, RoomTypes, sessionVars, countVars
  <2>2. CallTypes'
    BY <1>3, LeavesTypes DEF DocumentRead, CallTypes
  <2>3. Memory!TypeOK'
    BY <1>3, MemoryTypes DEF DocumentRead
  <2> QED BY <2>1, <2>2, <2>3
<1> QED BY <1>1, <1>2, <1>3

\* The steps that end a session.
LEMMA TypeEnding ==
  ASSUME TypeOK, NEW q \in Requests,
         \/ TransitionChecked(q) \/ StatusCommitted(q)
         \/ SessionEnded(q) \/ PurgeDrained(q) \/ RowDeleted(q)
  PROVE  TypeOK'
<1> USE DEF TypeOK
<1> q \in Callers
  BY DEF Callers
<1>1. CASE TransitionChecked(q) \/ RowDeleted(q) \/ PurgeDrained(q)
  <2>1. RoomTypes'
    BY <1>1 DEF TransitionChecked, RowDeleted, PurgeDrained, RoomTypes,
                sessionVars, socketVars, countVars
  <2>2. CallTypes'
    BY <1>1, ProceedsTypes, ReturnsTypes
       DEF TransitionChecked, RowDeleted, PurgeDrained, CallTypes, Awaits
  <2>3. Memory!TypeOK'
    BY <1>1, MemoryTypes DEF TransitionChecked, RowDeleted, PurgeDrained
  <2> QED BY <2>1, <2>2, <2>3
<1>2. CASE StatusCommitted(q)
  <2>1. RoomTypes'
    BY <1>2 DEF StatusCommitted, EndSession, RoomTypes, socketVars, countVars
  <2>2. CallTypes'
    BY <1>2, ProceedsTypes, ReturnsTypes DEF StatusCommitted, CallTypes, Awaits
  <2>3. Memory!TypeOK'
    BY <1>2, MemoryTypes DEF StatusCommitted, EndSession
  <2> QED BY <2>1, <2>2, <2>3
<1>3. CASE SessionEnded(q)
  <2>1. RoomTypes'
    BY <1>3 DEF SessionEnded, RoomTypes, socketVars
  <2>2. CallTypes'
    BY <1>3, ProceedsTypes, ReturnsTypes DEF SessionEnded, CallTypes, Awaits
  <2>3. Memory!TypeOK'
    BY <1>3, MemoryTypes DEF SessionEnded
  <2> QED BY <2>1, <2>2, <2>3
<1> QED BY <1>1, <1>2, <1>3

\* The steps of a kick.
LEMMA TypeKicking ==
  ASSUME TypeOK, NEW q \in Requests,
         \/ KickMissesOne(q) \/ KickAudited(q) \/ KickDone(q)
         \/ \E s \in Sockets : KickTakes(q, s) \/ KickTakesAbsent(q, s)
  PROVE  TypeOK'
<1> USE DEF TypeOK
<1> q \in Callers
  BY DEF Callers
<1>1. CASE KickMissesOne(q) \/ KickAudited(q) \/ KickDone(q)
  <2>1. RoomTypes'
    BY <1>1 DEF KickMissesOne, KickAudited, KickDone, ScheduleIfEmpty, RoomTypes,
                sessionVars, socketVars, countVars
  <2>2. CallTypes'
    BY <1>1, ProceedsTypes, ReturnsTypes
       DEF KickMissesOne, KickAudited, KickDone, CallTypes, Awaits
  <2>3. Memory!TypeOK'
    BY <1>1, MemoryTypes DEF KickMissesOne, KickAudited, KickDone
  <2> QED BY <2>1, <2>2, <2>3
<1>2. ASSUME NEW s \in Sockets, KickTakes(q, s) \/ KickTakesAbsent(q, s) PROVE TypeOK'
  <2>1. RoomTypes'
    BY <1>2 DEF KickTakes, KickTakesAbsent, RoomTypes, sessionVars, countVars
  <2>2. CallTypes'
    <3>1. Call("kick", "audit", s) \in Calls
      BY CallInCalls DEF AllOps, Awaits
    <3> QED BY <1>2, <3>1 DEF KickTakes, KickTakesAbsent, CallTypes
  <2>3. Memory!TypeOK'
    BY <1>2, MemoryTypes DEF KickTakes, KickTakesAbsent
  <2> QED BY <2>1, <2>2, <2>3
<1> QED BY <1>1, <1>2

\* Loads, failures, timers.
LEMMA TypeEnvironment ==
  ASSUME TypeOK,
         \/ LoadDone \/ LoadFails \/ TimerFires \/ Evicted \/ TombstoneExpires
         \/ \E c \in Callers : DatabaseFails(c)
  PROVE  TypeOK'
<1> USE DEF TypeOK
<1>1. CASE LoadDone \/ TimerFires \/ Evicted \/ TombstoneExpires
  <2>1. RoomTypes'
    BY <1>1 DEF LoadDone, TimerFires, Evicted, TombstoneExpires, ScheduleIfEmpty, RoomTypes,
                sessionVars, socketVars, countVars
  <2>2. CallTypes'
    BY <1>1 DEF LoadDone, TimerFires, Evicted, TombstoneExpires, CallTypes, callVars
  <2>3. Memory!TypeOK'
    BY <1>1, MemoryTypes DEF LoadDone, TimerFires, Evicted, TombstoneExpires
  <2> QED BY <2>1, <2>2, <2>3
<1>2. CASE LoadFails
  <2>1. RoomTypes'
    BY <1>2 DEF LoadFails, RoomTypes, sessionVars, socketVars
  <2>2. CallTypes'
    <3>1. NoCall \in Calls
      BY CallInCalls DEF NoCall, Awaits
    <3> QED BY <1>2, <3>1 DEF LoadFails, CallTypes
  <2>3. Memory!TypeOK'
    BY <1>2, MemoryTypes DEF LoadFails
  <2> QED BY <2>1, <2>2, <2>3
<1>3. ASSUME NEW c \in Callers, DatabaseFails(c) PROVE TypeOK'
  <2>1. RoomTypes'
    <3>1. row' \in {"absent", "active", "saved", "closed"}
      BY <1>3 DEF DatabaseFails, Upserted, RoomTypes
    <3>2. failures' = failures + 1 /\ Refused(c)
      BY <1>3 DEF DatabaseFails
    <3>3. failures' \in Nat
      BY <3>2 DEF RoomTypes
    <3>4. timer' \in BOOLEAN
      BY <3>2, LeavesTypes
    <3> QED BY <1>3, <3>1, <3>3, <3>4 DEF DatabaseFails, RoomTypes, socketVars
  <2>2. CallTypes'
    BY <1>3, LeavesTypes DEF DatabaseFails, CallTypes
  <2>3. Memory!TypeOK'
    BY <1>3, MemoryTypes DEF DatabaseFails
  <2> QED BY <2>1, <2>2, <2>3
<1> QED BY <1>1, <1>2, <1>3

LEMMA TypeStep == TypeOK /\ [Next]_vars => TypeOK'
<1>1. TypeOK /\ UNCHANGED vars => TypeOK'
  BY DEF TypeOK, RoomTypes, CallTypes, Memory!TypeOK,
         vars, sessionVars, socketVars, callVars, memoryVars, countVars
<1>2. ASSUME TypeOK, NEW c \in Callers, Progress(c) PROVE TypeOK'
  BY <1>2, TypeJoining, TypeWriting, TypeEnding, TypeKicking DEF Progress
<1> QED
  BY <1>1, <1>2, TypeClient, TypeRequest, TypeEnvironment DEF Next

LEMMA TypeInit == Init => TypeOK
<1> SUFFICES ASSUME Init PROVE TypeOK
    OBVIOUS
<1>1. NoCall \in Calls
  BY CallInCalls DEF NoCall, Awaits
<1> QED
  BY <1>1 DEF Init, TypeOK, RoomTypes, CallTypes, Memory!TypeOK, Memory!Init

\* TypeOK: whatever the interleaving, the state has the declared types.
THEOREM TypeCorrect == Spec => []TypeOK
  BY TypeInit, TypeStep, PTL DEF Spec

-----------------------------------------------------------------------------
(* Presence.                                                               *)

\* Nobody is present, or in the room, without the socket: one step.
LEMMA NoGhostsStep == TypeOK /\ NoGhosts /\ [Next]_vars => NoGhosts'
<1> SUFFICES ASSUME NoGhosts, [Next]_vars PROVE NoGhosts'
    OBVIOUS
<1> USE DEF NoGhosts
<1>1. CASE UNCHANGED vars
  BY <1>1 DEF vars, socketVars
<1>2. ASSUME NEW s \in Sockets, Client(s) PROVE NoGhosts'
  BY <1>2 DEF Client, Connect, Disconnect, Facilitate, Join, JoinRefused, Update, Write, socketVars
<1>3. ASSUME NEW q \in Requests, Request(q) PROVE NoGhosts'
  BY <1>3 DEF Request, Register, Read, Write, ChangeStatus, Purge, EndSession, Kick, socketVars
<1>4. ASSUME NEW c \in Callers, Progress(c) PROVE NoGhosts'
  <2>1. CASE \/ CapacityChecked(c) \/ StatusChecked(c) \/ SessionCreated(c)
             \/ SessionRead(c) \/ SnapshotUpserted(c) \/ Mirrored(c) \/ MirrorWritten(c)
    BY <2>1 DEF CapacityChecked, StatusChecked, SessionCreated, SessionRead, SnapshotUpserted,
                Mirrored, MirrorWritten, socketVars
  <2>2. CASE EnterRoom(c) \/ UpdateApplied(c) \/ DocumentRead(c)
    BY <2>2 DEF EnterRoom, UpdateApplied, DocumentRead, socketVars
  <2>3. CASE \/ TransitionChecked(c) \/ StatusCommitted(c) \/ SessionEnded(c)
             \/ PurgeDrained(c) \/ RowDeleted(c)
    BY <2>3 DEF TransitionChecked, StatusCommitted, EndSession, SessionEnded, PurgeDrained,
                RowDeleted, socketVars
  <2>4. CASE KickMissesOne(c) \/ KickAudited(c) \/ KickDone(c)
    BY <2>4 DEF KickMissesOne, KickAudited, KickDone, socketVars
  <2>5. ASSUME NEW s \in Sockets, KickTakes(c, s) \/ KickTakesAbsent(c, s) PROVE NoGhosts'
    BY <2>5 DEF KickTakes, KickTakesAbsent, socketVars
  <2> QED BY <1>4, <2>1, <2>2, <2>3, <2>4, <2>5 DEF Progress
<1>5. CASE LoadDone \/ LoadFails \/ TimerFires \/ Evicted \/ TombstoneExpires
  BY <1>5 DEF LoadDone, LoadFails, TimerFires, Evicted, TombstoneExpires, socketVars
<1>6. ASSUME NEW c \in Callers, DatabaseFails(c) PROVE NoGhosts'
  BY <1>6 DEF DatabaseFails, socketVars
<1> QED BY <1>1, <1>2, <1>3, <1>4, <1>5, <1>6 DEF Next

-----------------------------------------------------------------------------
(* The document of a room with participants.                               *)

\* What IInv says of the document, without types and ghosts.
Held == PresentHaveDocument /\ ReleaseSeesNobody /\ HeldDocumentIsUsed /\ DiscardIsPurge

\* No call comes to wait for the document, or for the end of a purge.
NoNewWait ==
  \A c \in Callers :
    call'[c].at \in AtDocument \cup {"draining"} => call'[c].at = call[c].at

\* Calls that start, go on with or end without waiting for the document.
LEMMA StartsNoWait ==
  ASSUME TypeOK, NEW c \in Callers, NEW op, NEW await,
         await \notin AtDocument \cup {"draining"},
         Starts(c, op, await) \/ Proceeds(c, await)
  PROVE  NoNewWait
  BY DEF TypeOK, CallTypes, Calls, NoNewWait, Starts, Proceeds, Call

LEMMA ReturnsNoWait ==
  ASSUME TypeOK, NEW c \in Callers, Returns(c) \/ Leaves(c) \/ Refused(c)
  PROVE  NoNewWait
<1>1. Returns(c)
  BY DEF Leaves, Refused
<1> QED
  BY <1>1 DEF TypeOK, CallTypes, Calls, NoNewWait, Returns, NoCall, Call, AtDocument

\* A call that comes to another await does not drain the document.
LEMMA WaitsElsewhere ==
  ASSUME TypeOK, NEW c \in Callers, NEW op, NEW await, await # "draining",
         Starts(c, op, await) \/ Proceeds(c, await)
  PROVE  \A d \in Callers : call'[d].at = "draining" => call[d].at = "draining"
  BY DEF TypeOK, CallTypes, Calls, Starts, Proceeds, Call

\* Steps that neither touch the document nor add to the presence list.
LEMMA HeldAside ==
  ASSUME TypeOK, Held, UNCHANGED memoryVars, purged' = purged, present' \subseteq present, NoNewWait
  PROVE  Held'
  BY DEF Held, PresentHaveDocument, ReleaseSeesNobody, HeldDocumentIsUsed, DiscardIsPurge,
         NoNewWait, memoryVars, At, Callers, AtDocument

\* An access tells every release.
LEMMA HeldUse ==
  ASSUME TypeOK, Held, Memory!Use, purged' = purged, present' = present,
         \A d \in Callers : call'[d].at = "draining" => call[d].at = "draining"
  PROVE  Held'
  BY DEF Held, PresentHaveDocument, ReleaseSeesNobody, HeldDocumentIsUsed, DiscardIsPurge,
         Memory!Use, At, Callers

\* A release begins in an empty room, while no call holds the document.
LEMMA HeldStart ==
  ASSUME TypeOK, Held, NEW r, Memory!StartRelease(r), Settled, purged' = purged,
         present' = {}, NoNewWait
  PROVE  Held'
  BY DEF Held, PresentHaveDocument, ReleaseSeesNobody, HeldDocumentIsUsed, DiscardIsPurge,
         Memory!StartRelease, NoNewWait, Settled, At, Callers, AtDocument

\* A release ends, and drops the document only if nobody is present.
LEMMA HeldEnd ==
  ASSUME TypeOK, Held, NEW r, Memory!Drop(r) \/ Memory!Keep(r), loaded => Settled,
         present' = present,
         \A c \in Callers : call'[c].at \in AtDocument => call'[c].at = call[c].at,
         purged => purged',
         \/ purged'
         \/ \A c \in Callers : call'[c].at = "draining" => call[c].at = "draining"
  PROVE  Held'
<1>1. PresentHaveDocument' /\ ReleaseSeesNobody'
  BY DEF Held, PresentHaveDocument, ReleaseSeesNobody, Memory!Drop, Memory!Keep, Memory!Forget
<1>2. HeldDocumentIsUsed'
  BY DEF Settled, HeldDocumentIsUsed, Memory!Drop, Memory!Keep, AtDocument
<1>3. DiscardIsPurge'
  BY DEF Held, DiscardIsPurge, At, Callers
<1> QED BY <1>1, <1>2, <1>3 DEF Held

\* The steps of sockets and the starts of requests.
LEMMA HeldBegins ==
  ASSUME TypeOK, Held,
         \/ \E s \in Sockets : Client(s)
         \/ \E q \in Requests : Request(q)
  PROVE  Held'
<1> USE DEF AtDocument
<1>1. ASSUME NEW s \in Sockets, Connect(s) \/ Disconnect(s) \/ Facilitate(s) \/ JoinRefused(s)
      PROVE  Held'
  <2>1. NoNewWait
    BY <1>1 DEF Connect, Disconnect, Facilitate, JoinRefused, NoNewWait, callVars
  <2> QED
    BY <1>1, <2>1, HeldAside
       DEF Connect, Disconnect, Facilitate, JoinRefused, socketVars, countVars
<1>2. ASSUME NEW s \in Sockets, Join(s) PROVE Held'
  BY <1>2, HeldAside, StartsNoWait DEF Join, Callers, socketVars, countVars
<1>3. ASSUME NEW s \in Sockets, Update(s) PROVE Held'
  BY <1>3, HeldUse, WaitsElsewhere DEF Update, Callers, socketVars, countVars
<1>4. ASSUME NEW c \in Callers, Write(c) PROVE Held'
  <2>1. NoNewWait
    BY <1>4, StartsNoWait DEF Write
  <2> QED BY <1>4, <2>1, HeldAside DEF Write, socketVars, countVars
<1>5. ASSUME NEW q \in Requests, Register(q) \/ Read(q) PROVE Held'
  BY <1>5, HeldAside, StartsNoWait DEF Register, Read, Callers, socketVars, countVars
<1>6. ASSUME NEW q \in Requests, ChangeStatus(q) PROVE Held'
  BY <1>6, HeldAside, StartsNoWait DEF ChangeStatus, Callers, socketVars, countVars
<1>7. ASSUME NEW q \in Requests, Purge(q) PROVE Held'
  <2>1. Settled
    BY <1>7 DEF Purge, Starts
  <2> QED BY <1>7, <2>1, HeldStart, StartsNoWait DEF Purge, EndSession, Callers, countVars
<1>8. ASSUME NEW q \in Requests, NEW s \in Sockets, Kick(q, s) PROVE Held'
  BY <1>8, HeldAside, StartsNoWait DEF Kick, Callers, socketVars, countVars
<1> QED
  BY <1>1, <1>2, <1>3, <1>4, <1>5, <1>6, <1>7, <1>8 DEF Client, Request, Callers

\* The steps of joins, edits and reads.
LEMMA HeldWorks ==
  ASSUME TypeOK, Held, NEW c \in Callers,
         \/ CapacityChecked(c) \/ StatusChecked(c) \/ SessionCreated(c)
         \/ SessionRead(c) \/ SnapshotUpserted(c) \/ Mirrored(c) \/ MirrorWritten(c)
         \/ EnterRoom(c) \/ UpdateApplied(c) \/ DocumentRead(c)
  PROVE  Held'
<1> USE DEF AtDocument
<1>1. CASE CapacityChecked(c) \/ StatusChecked(c)
  <2>1. NoNewWait
    BY <1>1, StartsNoWait, ReturnsNoWait DEF CapacityChecked, StatusChecked
  <2> QED BY <1>1, <2>1, HeldAside DEF CapacityChecked, StatusChecked, socketVars, countVars
<1>2. CASE SessionCreated(c)
  BY <1>2, HeldUse, WaitsElsewhere DEF SessionCreated, socketVars, countVars
<1>3. CASE SessionRead(c)
  <2>1. CASE Memory!Use /\ Proceeds(c, "document")
    BY <1>3, <2>1, HeldUse, WaitsElsewhere DEF SessionRead, socketVars, countVars
  <2>2. CASE UNCHANGED memoryVars /\ (Returns(c) \/ Proceeds(c, "snapshot"))
    <3>1. NoNewWait
      BY <2>2, StartsNoWait, ReturnsNoWait
    <3> QED BY <1>3, <2>2, <3>1, HeldAside DEF SessionRead, socketVars, countVars
  <2> QED BY <1>3, <2>1, <2>2 DEF SessionRead
<1>4. CASE SnapshotUpserted(c)
  BY <1>4, HeldUse, HeldAside, WaitsElsewhere, ReturnsNoWait
     DEF SnapshotUpserted, socketVars, countVars
<1>5. CASE Mirrored(c) \/ MirrorWritten(c)
  <2>1. UNCHANGED socketVars /\ UNCHANGED countVars
    BY <1>5 DEF Mirrored, MirrorWritten
  <2>2. CASE Memory!Use /\ \E await \in {"document", "seeding", "write"} : Proceeds(c, await)
    <3>1. \A d \in Callers : call'[d].at = "draining" => call[d].at = "draining"
      BY <2>2, WaitsElsewhere
    <3> QED BY <2>1, <2>2, <3>1, HeldUse DEF socketVars, countVars
  <2>3. CASE UNCHANGED memoryVars /\ Leaves(c)
    BY <2>1, <2>3, HeldAside, ReturnsNoWait DEF socketVars, countVars
  <2> QED BY <1>5, <2>2, <2>3 DEF Mirrored, MirrorWritten
<1>6. CASE EnterRoom(c)
  <2>1. releasing \subseteq used
    BY <1>6 DEF EnterRoom, Held, HeldDocumentIsUsed, At
  <2>2. NoNewWait
    BY <1>6, ReturnsNoWait DEF EnterRoom
  <2> QED
    BY <1>6, <2>1, <2>2
       DEF EnterRoom, Held, PresentHaveDocument, ReleaseSeesNobody, HeldDocumentIsUsed,
           DiscardIsPurge, NoNewWait, memoryVars, countVars, At, Callers
<1>7. CASE UpdateApplied(c)
  BY <1>7, HeldUse, HeldAside, ReturnsNoWait DEF UpdateApplied, NoNewWait, socketVars, countVars
<1>8. CASE DocumentRead(c)
  BY <1>8, HeldUse, HeldAside, ReturnsNoWait DEF DocumentRead, NoNewWait, countVars
<1> QED BY <1>1, <1>2, <1>3, <1>4, <1>5, <1>6, <1>7, <1>8

\* The steps that end a session or remove a participant.
LEMMA HeldEnds ==
  ASSUME TypeOK, Held, NEW q \in Requests,
         \/ TransitionChecked(q) \/ StatusCommitted(q)
         \/ SessionEnded(q) \/ PurgeDrained(q) \/ RowDeleted(q)
         \/ KickMissesOne(q) \/ KickAudited(q) \/ KickDone(q)
         \/ \E s \in Sockets : KickTakes(q, s) \/ KickTakesAbsent(q, s)
  PROVE  Held'
<1> USE DEF AtDocument
<1> q \in Callers
  BY DEF Callers
<1>1. CASE TransitionChecked(q) \/ RowDeleted(q)
  <2>1. NoNewWait
    BY <1>1, StartsNoWait, ReturnsNoWait DEF TransitionChecked, RowDeleted
  <2> QED BY <1>1, <2>1, HeldAside DEF TransitionChecked, RowDeleted, socketVars, countVars
<1>2. CASE StatusCommitted(q)
  <2>1. NoNewWait
    BY <1>2, StartsNoWait, ReturnsNoWait DEF StatusCommitted
  <2>2. CASE EndSession(q)
    BY <1>2, <2>1, <2>2, HeldStart DEF StatusCommitted, EndSession, countVars
  <2>3. CASE UNCHANGED <<socketVars, memoryVars>>
    BY <1>2, <2>1, <2>3, HeldAside DEF StatusCommitted, socketVars, countVars
  <2> QED BY <1>2, <2>2, <2>3 DEF StatusCommitted
<1>3. CASE SessionEnded(q)
  <2>1. \A c \in Callers : call'[c].at \in AtDocument => call'[c].at = call[c].at
    BY <1>3 DEF SessionEnded, TypeOK, CallTypes, Calls, Proceeds, Returns, NoCall, Call
  <2>2. CASE purged'
    BY <1>3, <2>1, <2>2, HeldEnd DEF SessionEnded, socketVars
  <2>3. CASE Returns(q) /\ purged' = purged
    <3>1. NoNewWait
      BY <2>3, ReturnsNoWait
    <3> QED BY <1>3, <2>1, <2>3, <3>1, HeldEnd DEF SessionEnded, NoNewWait, socketVars
  <2> QED BY <1>3, <2>2, <2>3 DEF SessionEnded
<1>4. CASE PurgeDrained(q)
  <2>1. purged
    BY <1>4 DEF PurgeDrained, Held, DiscardIsPurge
  <2> QED
    BY <1>4, <2>1
       DEF PurgeDrained, Memory!Discard, Memory!Forget, Held, PresentHaveDocument,
           ReleaseSeesNobody, HeldDocumentIsUsed, DiscardIsPurge, socketVars, countVars
<1>5. CASE KickMissesOne(q) \/ KickAudited(q) \/ KickDone(q)
  <2>1. NoNewWait
    BY <1>5, StartsNoWait, ReturnsNoWait DEF KickMissesOne, KickAudited, KickDone
  <2>2. present' \subseteq present
    BY <1>5 DEF KickMissesOne, KickAudited, KickDone, socketVars
  <2> QED BY <1>5, <2>1, <2>2, HeldAside DEF KickMissesOne, KickAudited, KickDone, countVars
<1>6. ASSUME NEW s \in Sockets, KickTakes(q, s) \/ KickTakesAbsent(q, s) PROVE Held'
  <2>1. NoNewWait
    BY <1>6 DEF KickTakes, KickTakesAbsent, TypeOK, CallTypes, Calls, NoNewWait, Call
  <2> QED BY <1>6, <2>1, HeldAside DEF KickTakes, KickTakesAbsent, countVars
<1> QED BY <1>1, <1>2, <1>3, <1>4, <1>5, <1>6

\* Loads, failures, timers.
LEMMA HeldEnvironment ==
  ASSUME TypeOK, Held,
         \/ LoadDone \/ LoadFails \/ TimerFires \/ Evicted \/ TombstoneExpires
         \/ \E c \in Callers : DatabaseFails(c)
  PROVE  Held'
<1>1. CASE LoadDone
  BY <1>1
     DEF LoadDone, Memory!LoadDone, Settled, Held, PresentHaveDocument, ReleaseSeesNobody,
         HeldDocumentIsUsed, DiscardIsPurge, socketVars, callVars, countVars, At
<1>2. CASE LoadFails
  <2>1. NoNewWait
    BY <1>2 DEF LoadFails, NoNewWait, NoCall, Call, AtDocument
  <2> QED
    BY <1>2, <2>1
       DEF LoadFails, Memory!LoadFails, NoNewWait, Held, PresentHaveDocument, ReleaseSeesNobody,
           HeldDocumentIsUsed, DiscardIsPurge, socketVars, At, Callers
<1>3. CASE TimerFires
  <2>1. NoNewWait
    BY <1>3 DEF TimerFires, NoNewWait, callVars
  <2> QED
    BY <1>3, <2>1, HeldStart, HeldAside DEF TimerFires, socketVars, countVars
<1>4. CASE Evicted
  BY <1>4, HeldEnd DEF Evicted, callVars, countVars
<1>5. CASE TombstoneExpires
  BY <1>5, HeldAside DEF TombstoneExpires, NoNewWait, socketVars, callVars, countVars
<1>6. ASSUME NEW c \in Callers, DatabaseFails(c) PROVE Held'
  <2>1. Refused(c) /\ UNCHANGED memoryVars /\ purged' = purged /\ present' = present
    BY <1>6 DEF DatabaseFails, socketVars
  <2> QED BY <2>1, HeldAside, ReturnsNoWait
<1> QED BY <1>1, <1>2, <1>3, <1>4, <1>5, <1>6

LEMMA HeldStep == TypeOK /\ Held /\ [Next]_vars => Held'
<1>1. Held /\ UNCHANGED vars => Held'
  BY DEF Held, PresentHaveDocument, ReleaseSeesNobody, HeldDocumentIsUsed, DiscardIsPurge, At,
         vars, socketVars, callVars, memoryVars, countVars
<1>2. ASSUME TypeOK, Held, NEW c \in Callers, Progress(c) PROVE Held'
  BY <1>2, HeldWorks, HeldEnds DEF Progress
<1> QED BY <1>1, <1>2, HeldBegins, HeldEnvironment DEF Next

LEMMA IInvInit == Init => IInv
<1> SUFFICES ASSUME Init PROVE IInv
    OBVIOUS
<1>1. ~loaded /\ releasing = {} /\ present = {} /\ room = {} /\ connected = {}
  BY DEF Init, Memory!Init
<1>2. \A q \in Requests : ~At(q, "draining")
  BY DEF Init, At, NoCall, Call, Callers
<1> QED
  BY <1>1, <1>2, TypeInit
     DEF IInv, NoGhosts, PresentHaveDocument, ReleaseSeesNobody, HeldDocumentIsUsed, DiscardIsPurge

LEMMA IInvStep == IInv /\ [Next]_vars => IInv'
  BY TypeStep, NoGhostsStep, HeldStep DEF IInv, Held

LEMMA Inductive == Spec => []IInv
  BY IInvInit, IInvStep, PTL DEF Spec

-----------------------------------------------------------------------------
(* The theorems.                                                           *)

\* NoGhosts: whatever fails while joins, kicks, a closing session and
\* disconnects interleave, the presence list shows no socket that is gone.
THEOREM PresenceShowsNoGhosts == Spec => []NoGhosts
<1>1. IInv => NoGhosts
  BY DEF IInv
<1> QED BY <1>1, Inductive, PTL

\* PresentHaveDocument: until a purge, the document stays in memory while
\* somebody is present, whatever releases race a join.
THEOREM PresentHaveTheDocument == Spec => []PresentHaveDocument
<1>1. IInv => PresentHaveDocument
  BY DEF IInv
<1> QED BY <1>1, Inductive, PTL

\* FacilitationKept: votes and moderation end only with an empty room.
THEOREM FacilitationIsKept == Spec => FacilitationKept
<1>1. IInv /\ [Next]_vars => (facilitated /\ ~facilitated' => present' = {})
  <2> SUFFICES ASSUME IInv, [Next]_vars, facilitated, ~facilitated' PROVE present' = {}
      OBVIOUS
  <2>1. CASE Evicted
    BY <2>1 DEF Evicted, IInv, ReleaseSeesNobody, Memory!Drop
  <2>2. CASE \E q \in Requests : Purge(q) \/ StatusCommitted(q)
    BY <2>2 DEF Purge, StatusCommitted, EndSession
  <2>3. CASE UNCHANGED vars
    BY <2>3 DEF vars, sessionVars
  <2>4. CASE \E s \in Sockets : Client(s)
    BY <2>4 DEF Client, Connect, Disconnect, Facilitate, Join, JoinRefused, Update, Write, sessionVars
  <2>5. ASSUME NEW q \in Requests, Request(q), ~Purge(q) PROVE FALSE
    BY <2>5 DEF Request, Register, Read, Write, ChangeStatus, Kick, sessionVars
  <2>6. ASSUME NEW c \in Callers, Progress(c), c \in Requests => ~StatusCommitted(c) PROVE FALSE
    BY <2>6
       DEF Progress, CapacityChecked, StatusChecked, SessionCreated, SessionRead, SnapshotUpserted,
           Mirrored, MirrorWritten, EnterRoom, UpdateApplied, DocumentRead, TransitionChecked,
           SessionEnded, PurgeDrained, RowDeleted, KickMissesOne, KickAudited, KickDone,
           KickTakes, KickTakesAbsent, sessionVars
  <2>7. ~LoadDone /\ ~LoadFails /\ ~TimerFires /\ ~TombstoneExpires
    BY DEF LoadDone, LoadFails, TimerFires, TombstoneExpires, sessionVars
  <2>8. ASSUME NEW c \in Callers, DatabaseFails(c) PROVE FALSE
    BY <2>8 DEF DatabaseFails
  <2> QED BY <2>1, <2>2, <2>3, <2>4, <2>5, <2>6, <2>7, <2>8 DEF Next
<1> QED BY <1>1, Inductive, PTL DEF Spec, FacilitationKept

-----------------------------------------------------------------------------
(* Where calls stand.                                                      *)

\* A call that changes is the only one that does.
LEMMA CallBecomes ==
  ASSUME TypeOK, NEW c \in Callers, NEW r, call' = [call EXCEPT ![c] = r]
  PROVE  call'[c] = r /\ \A d \in Callers \ {c} : call'[d] = call[d]
  BY DEF TypeOK, CallTypes

LEMMA StagesChange ==
  ASSUME TypeOK, CallsAtStages, NEW c \in Callers, NEW r, call' = [call EXCEPT ![c] = r],
         <<r.op, r.at>> \in Stages, r.op = "canvas" => c \in Sockets
  PROVE  CallsAtStages'
<1> USE CallBecomes DEF CallsAtStages
<1> SUFFICES ASSUME NEW d \in Callers
             PROVE  <<call'[d].op, call'[d].at>> \in Stages /\ (call'[d].op = "canvas" => d \in Sockets)
    OBVIOUS
<1>1. CASE d = c
  BY <1>1
<1>2. CASE d # c
  BY <1>2
<1> QED BY <1>1, <1>2

LEMMA StagesStart ==
  ASSUME TypeOK, CallsAtStages, NEW c \in Callers, NEW op, NEW await, Starts(c, op, await),
         <<op, await>> \in Stages, op = "canvas" => c \in Sockets
  PROVE  CallsAtStages'
<1>1. Call(op, await, Nobody).op = op /\ Call(op, await, Nobody).at = await
  BY DEF Call
<1> QED BY <1>1, StagesChange DEF Starts

LEMMA StagesProceed ==
  ASSUME TypeOK, CallsAtStages, NEW c \in Callers, NEW await, Proceeds(c, await),
         <<call[c].op, await>> \in Stages
  PROVE  CallsAtStages'
<1> DEFINE r == Call(call[c].op, await, Nobody)
<1>1. r.op = call[c].op /\ r.at = await
  BY DEF Call
<1>2. <<r.op, r.at>> \in Stages /\ (r.op = "canvas" => c \in Sockets)
  BY <1>1 DEF CallsAtStages
<1>3. call' = [call EXCEPT ![c] = r]
  BY DEF Proceeds
<1> HIDE DEF r
<1> QED BY <1>2, <1>3, StagesChange

LEMMA StagesReturn ==
  ASSUME TypeOK, CallsAtStages, NEW c \in Callers, Returns(c) \/ Leaves(c) \/ Refused(c)
  PROVE  CallsAtStages'
<1>1. NoCall.op = "none" /\ NoCall.at = "none"
  BY DEF NoCall, Call
<1>2. <<"none", "none">> \in Stages
  BY DEF Stages
<1>3. call' = [call EXCEPT ![c] = NoCall]
  BY DEF Returns, Leaves, Refused
<1> QED BY <1>1, <1>2, <1>3, StagesChange

\* What the operation of a call at some await is.
LEMMA StageOps ==
  ASSUME CallsAtStages, NEW c \in Callers
  PROVE  /\ call[c].at \in {"capacity", "checking", "create", "seed", "seeding"}
              => call[c].op \in {"join", "register"}
         /\ At(c, "document") => call[c].op \in {"join", "register", "read"}
         /\ At(c, "update") => call[c].op = "update"
         /\ At(c, "session") => call[c].op \in {"canvas", "write", "read"}
         /\ call[c].at \in {"snapshot", "mirror", "write"} => call[c].op \in {"canvas", "write"}
         /\ call[c].at \in {"status", "commit"} => call[c].op \in {"save", "close"}
         /\ At(c, "ending") => call[c].op \in {"close", "purge"}
         /\ call[c].at \in {"draining", "deleting"} => call[c].op = "purge"
         /\ call[c].at \in {"next", "audit"} => call[c].op = "kick"
         /\ At(c, "none") => call[c].op = "none"
         /\ call[c].op = "canvas" => c \in Sockets
<1>1. <<call[c].op, call[c].at>> \in Stages
  BY DEF CallsAtStages
<1> QED BY <1>1 DEF Stages, At, CallsAtStages

\* CallsAtStages: one step.
LEMMA StagesStep == TypeOK /\ CallsAtStages /\ [Next]_vars => CallsAtStages'
<1> SUFFICES ASSUME TypeOK, CallsAtStages, [Next]_vars PROVE CallsAtStages'
    OBVIOUS
<1>0. call' = call => CallsAtStages'
  BY DEF CallsAtStages
<1>1. CASE UNCHANGED vars
  BY <1>0, <1>1 DEF vars, callVars
<1>2. ASSUME NEW s \in Sockets, Client(s) PROVE CallsAtStages'
  <2> s \in Callers
    BY DEF Callers
  <2>1. CASE Connect(s) \/ Disconnect(s) \/ Facilitate(s) \/ JoinRefused(s)
    BY <1>0, <2>1 DEF Connect, Disconnect, Facilitate, JoinRefused, callVars
  <2>2. CASE Join(s) \/ Update(s) \/ Write(s)
    BY <2>2, StagesStart DEF Join, Update, Write, Stages
  <2> QED BY <1>2, <2>1, <2>2 DEF Client
<1>3. ASSUME NEW q \in Requests, Request(q) PROVE CallsAtStages'
  <2> q \in Callers
    BY DEF Callers
  <2>1. CASE Register(q) \/ Read(q) \/ Write(q)
    BY <2>1, StagesStart DEF Register, Read, Write, Stages
  <2>2. CASE ChangeStatus(q) \/ Purge(q) \/ \E s \in Sockets : Kick(q, s)
    BY <2>2, StagesStart DEF ChangeStatus, Purge, Kick, Stages
  <2> QED BY <1>3, <2>1, <2>2 DEF Request
<1>4. ASSUME NEW c \in Callers, Progress(c) PROVE CallsAtStages'
  <2> USE StageOps, StagesProceed, StagesReturn
  <2>1. CASE CapacityChecked(c) \/ StatusChecked(c)
    BY <2>1 DEF CapacityChecked, StatusChecked, At, Stages
  <2>2. CASE SessionCreated(c) \/ SessionRead(c) \/ SnapshotUpserted(c)
    BY <2>2 DEF SessionCreated, SessionRead, SnapshotUpserted, At, Stages
  <2>3. CASE Mirrored(c) \/ MirrorWritten(c)
    BY <2>3 DEF Mirrored, MirrorWritten, At, Stages
  <2>4. CASE EnterRoom(c) \/ UpdateApplied(c) \/ DocumentRead(c)
    BY <2>4 DEF EnterRoom, UpdateApplied, DocumentRead
  <2>5. CASE TransitionChecked(c) \/ StatusCommitted(c)
    BY <2>5 DEF TransitionChecked, StatusCommitted, At, Stages
  <2>6. CASE SessionEnded(c) \/ PurgeDrained(c) \/ RowDeleted(c)
    BY <2>6 DEF SessionEnded, PurgeDrained, RowDeleted, At, Stages
  <2>7. CASE KickMissesOne(c) \/ KickAudited(c) \/ KickDone(c)
    BY <2>7 DEF KickMissesOne, KickAudited, KickDone, At, Stages
  <2>8. ASSUME NEW s \in Sockets, KickTakes(c, s) PROVE CallsAtStages'
    <3>1. Call("kick", "audit", s).op = "kick" /\ Call("kick", "audit", s).at = "audit"
      BY DEF Call
    <3>2. <<"kick", "audit">> \in Stages
      BY DEF Stages
    <3> QED BY <2>8, <3>1, <3>2, StagesChange DEF KickTakes
  <2>9. ASSUME NEW s \in Sockets, KickTakesAbsent(c, s) PROVE CallsAtStages'
    BY <1>0, <2>9 DEF KickTakesAbsent
  <2> QED BY <1>4, <2>1, <2>2, <2>3, <2>4, <2>5, <2>6, <2>7, <2>8, <2>9 DEF Progress
<1>5. CASE LoadDone \/ TimerFires \/ Evicted \/ TombstoneExpires
  BY <1>0, <1>5 DEF LoadDone, TimerFires, Evicted, TombstoneExpires, callVars
<1>6. CASE LoadFails
  <2>1. NoCall.op = "none" /\ NoCall.at = "none" /\ <<"none", "none">> \in Stages
    BY DEF NoCall, Call, Stages
  <2> QED BY <1>6, <2>1 DEF LoadFails, CallsAtStages
<1>7. ASSUME NEW c \in Callers, DatabaseFails(c) PROVE CallsAtStages'
  BY <1>7, StagesReturn DEF DatabaseFails
<1> QED BY <1>1, <1>2, <1>3, <1>4, <1>5, <1>6, <1>7 DEF Next

-----------------------------------------------------------------------------
(* Nobody takes part unseen.                                               *)

\* The kicks that write their audit record go on doing so.
AuditsStay == \A q \in Requests : At(q, "audit") => call'[q] = call[q]

LEMMA AuditsElsewhere ==
  ASSUME TypeOK, NEW c \in Callers, ~At(c, "audit"), NEW r, call' = [call EXCEPT ![c] = r]
  PROVE  AuditsStay
  BY CallBecomes DEF AuditsStay, Callers

LEMMA AuditsWhileOthers ==
  ASSUME TypeOK, NEW c \in Callers,
         \/ \E op, await : Starts(c, op, await)
         \/ ~At(c, "audit") /\ ((\E await : Proceeds(c, await)) \/ Returns(c))
  PROVE  AuditsStay
<1>1. ~At(c, "audit")
  BY DEF Starts, Idle, NoCall, Call, At
<1> QED BY <1>1, AuditsElsewhere DEF Starts, Proceeds, Returns

\* Nobody more is in the room without being present, and the kicks go on.
LEMMA HiddenAside ==
  ASSUME NobodyHidden, failures' = failures, AuditsStay, room' \ present' \subseteq room \ present
  PROVE  NobodyHidden'
<1> SUFFICES ASSUME failures = 0, NEW s \in room' \ present'
             PROVE  \E q \in Requests : call'[q].at = "audit" /\ call'[q].on = s
  BY DEF NobodyHidden, At
<1>1. PICK q \in Requests : At(q, "audit") /\ call[q].on = s
  BY DEF NobodyHidden
<1> QED BY <1>1 DEF AuditsStay, At

\* NobodyHidden: one step.
LEMMA HiddenStep == TypeOK /\ NoGhosts /\ NobodyHidden /\ [Next]_vars => NobodyHidden'
<1> SUFFICES ASSUME TypeOK, NoGhosts, NobodyHidden, [Next]_vars PROVE NobodyHidden'
    OBVIOUS
<1>0. ASSUME callVars' = callVars \/ call' = call PROVE AuditsStay
  BY <1>0 DEF AuditsStay, callVars
<1>1. CASE UNCHANGED vars
  BY <1>0, <1>1, HiddenAside DEF vars, callVars, socketVars, countVars
<1>2. ASSUME NEW s \in Sockets, Client(s) PROVE NobodyHidden'
  <2> s \in Callers
    BY DEF Callers
  <2>1. CASE Connect(s) \/ Disconnect(s) \/ Facilitate(s) \/ JoinRefused(s)
    BY <1>0, <2>1, HiddenAside
       DEF Connect, Disconnect, Facilitate, JoinRefused, socketVars, countVars
  <2>2. CASE Join(s) \/ Update(s) \/ Write(s)
    <3>1. AuditsStay
      BY <2>2, AuditsWhileOthers DEF Join, Update, Write
    <3> QED BY <2>2, <3>1, HiddenAside DEF Join, Update, Write, socketVars, countVars
  <2> QED BY <1>2, <2>1, <2>2 DEF Client
<1>3. ASSUME NEW q \in Requests, Request(q) PROVE NobodyHidden'
  <2> q \in Callers
    BY DEF Callers
  <2>1. AuditsStay
    BY <1>3, AuditsWhileOthers DEF Request, Register, Read, Write, ChangeStatus, Purge, Kick
  <2>2. failures' = failures /\ room' \ present' \subseteq room \ present
    BY <1>3 DEF Request, Register, Read, Write, ChangeStatus, Purge, EndSession, Kick,
                socketVars, countVars
  <2> QED BY <2>1, <2>2, HiddenAside
<1>4. ASSUME NEW c \in Callers, Progress(c) PROVE NobodyHidden'
  <2>1. CASE \/ CapacityChecked(c) \/ StatusChecked(c) \/ SessionCreated(c)
             \/ SessionRead(c) \/ SnapshotUpserted(c) \/ Mirrored(c) \/ MirrorWritten(c)
    <3>1. ~At(c, "audit")
      BY <2>1 DEF CapacityChecked, StatusChecked, SessionCreated, SessionRead, SnapshotUpserted,
                  Mirrored, MirrorWritten, At
    <3>2. (\E await : Proceeds(c, await)) \/ Returns(c)
      BY <2>1 DEF CapacityChecked, StatusChecked, SessionCreated, SessionRead, SnapshotUpserted,
                  Mirrored, MirrorWritten, Refused, Leaves
    <3>3. UNCHANGED socketVars /\ failures' = failures
      BY <2>1 DEF CapacityChecked, StatusChecked, SessionCreated, SessionRead, SnapshotUpserted,
                  Mirrored, MirrorWritten, countVars
    <3> QED BY <3>1, <3>2, <3>3, AuditsWhileOthers, HiddenAside DEF socketVars
  <2>2. CASE EnterRoom(c) \/ UpdateApplied(c) \/ DocumentRead(c)
    <3>1. AuditsStay
      BY <2>2, AuditsWhileOthers DEF EnterRoom, UpdateApplied, DocumentRead, Leaves, At
    <3>2. room' \ present' \subseteq room \ present /\ failures' = failures
      BY <2>2 DEF EnterRoom, UpdateApplied, DocumentRead, socketVars, countVars
    <3> QED BY <3>1, <3>2, HiddenAside
  <2>3. CASE \/ TransitionChecked(c) \/ StatusCommitted(c) \/ SessionEnded(c)
             \/ PurgeDrained(c) \/ RowDeleted(c)
    <3>1. AuditsStay
      BY <2>3, AuditsWhileOthers
         DEF TransitionChecked, StatusCommitted, SessionEnded, PurgeDrained, RowDeleted, At
    <3>2. room' \ present' \subseteq room \ present /\ failures' = failures
      BY <2>3 DEF TransitionChecked, StatusCommitted, EndSession, SessionEnded, PurgeDrained,
                  RowDeleted, socketVars, countVars
    <3> QED BY <3>1, <3>2, HiddenAside
  <2>4. CASE KickMissesOne(c) \/ KickDone(c)
    <3>1. AuditsStay
      BY <2>4, AuditsWhileOthers DEF KickMissesOne, KickDone, At
    <3> QED BY <2>4, <3>1, HiddenAside DEF KickMissesOne, KickDone, socketVars, countVars
  <2>5. CASE KickAudited(c)
    <3> SUFFICES ASSUME failures = 0, NEW s \in room' \ present'
                 PROVE  \E q \in Requests : call'[q].at = "audit" /\ call'[q].on = s
      BY <2>5 DEF NobodyHidden, At, KickAudited, countVars
    <3>1. s \in room \ present /\ s # call[c].on
      BY <2>5 DEF KickAudited
    <3>2. PICK q \in Requests : At(q, "audit") /\ call[q].on = s
      BY <3>1 DEF NobodyHidden
    <3>3. call'[q] = call[q]
      BY <2>5, <3>1, <3>2, CallBecomes DEF KickAudited, Proceeds, Callers
    <3> QED BY <3>2, <3>3 DEF At
  <2>6. ASSUME NEW t \in Sockets, c \in Requests, KickTakes(c, t) PROVE NobodyHidden'
    <3>1. AuditsStay
      BY <2>6, AuditsElsewhere DEF KickTakes, At
    <3>2. call'[c].at = "audit" /\ call'[c].on = t
      <4>1. call'[c] = Call("kick", "audit", t)
        BY <2>6, CallBecomes DEF KickTakes
      <4> QED BY <4>1 DEF Call
    <3> SUFFICES ASSUME failures = 0, NEW s \in room' \ present'
                 PROVE  \E q \in Requests : call'[q].at = "audit" /\ call'[q].on = s
      BY <2>6 DEF NobodyHidden, At, KickTakes, countVars
    <3>3. CASE s = t
      BY <2>6, <3>2, <3>3
    <3>4. CASE s # t
      <4>1. s \in room \ present
        BY <2>6, <3>4 DEF KickTakes
      <4>2. PICK q \in Requests : At(q, "audit") /\ call[q].on = s
        BY <4>1 DEF NobodyHidden
      <4> QED BY <3>1, <4>2 DEF AuditsStay, At
    <3> QED BY <3>3, <3>4
  <2>7. ASSUME NEW t \in Sockets, KickTakesAbsent(c, t) PROVE NobodyHidden'
    BY <1>0, <2>7, HiddenAside DEF KickTakesAbsent, countVars
  <2> QED BY <1>4, <2>1, <2>2, <2>3, <2>4, <2>5, <2>6, <2>7 DEF Progress
<1>5. CASE LoadDone \/ TimerFires \/ Evicted \/ TombstoneExpires
  BY <1>0, <1>5, HiddenAside
     DEF LoadDone, TimerFires, Evicted, TombstoneExpires, ScheduleIfEmpty,
         callVars, socketVars, countVars
<1>6. ASSUME LoadFails \/ \E c \in Callers : DatabaseFails(c) PROVE NobodyHidden'
  <2>1. failures' = failures + 1 /\ failures \in Nat
    BY <1>6 DEF LoadFails, DatabaseFails, TypeOK, RoomTypes
  <2>2. failures' # 0
    BY <2>1
  <2> QED BY <2>2 DEF NobodyHidden
<1> QED BY <1>1, <1>2, <1>3, <1>4, <1>5, <1>6 DEF Next

-----------------------------------------------------------------------------
(* No document is left behind.                                             *)

\* A handler that looks at the timer leaves a tender: somebody present, or it.
LEMMA ScheduledIsTended ==
  ASSUME ScheduleIfEmpty
  PROVE  HasTender'
  BY DEF ScheduleIfEmpty, HasTender

\* A step of one call that goes on tending, or did not tend.
LEMMA TendersStay ==
  ASSUME HasTender, NEW c \in Callers, \A d \in Callers \ {c} : call'[d] = call[d],
         Tends(c) => Tends(c)', present' = present, timer' = timer, releasing \subseteq releasing'
  PROVE  HasTender'
<1>1. CASE present # {} \/ timer \/ Eviction \in releasing
  BY <1>1 DEF HasTender
<1>2. CASE \E d \in Callers : Tends(d)
  <2>1. PICK d \in Callers : Tends(d)
    BY <1>2
  <2>2. Tends(d)'
    BY <2>1 DEF Tends
  <2> QED BY <2>2 DEF HasTender
<1> QED BY <1>1, <1>2 DEF HasTender

\* A call that starts did not tend.
LEMMA StartTends ==
  ASSUME TypeOK, HasTender, NEW c \in Callers, NEW op, NEW await, Starts(c, op, await),
         present' = present, timer' = timer, releasing \subseteq releasing'
  PROVE  HasTender'
<1>1. ~Tends(c)
  BY DEF Starts, Idle, NoCall, Call, Tends
<1>2. \A d \in Callers \ {c} : call'[d] = call[d]
  BY CallBecomes DEF Starts
<1> QED BY <1>1, <1>2, TendersStay

\* A call that goes on with its operation tends on, from the document on.
LEMMA ProceedTends ==
  ASSUME TypeOK, HasTender, NEW c \in Callers, NEW await, Proceeds(c, await),
         \/ ~Tends(c)
         \/ call[c].op \in {"join", "kick"}
         \/ call[c].op = "register" /\ await \in {"seed", "seeding", "document"}
         \/ call[c].op = "write" /\ await = "write",
         present' = present, timer' = timer, releasing \subseteq releasing'
  PROVE  HasTender'
<1>1. /\ call'[c] = Call(call[c].op, await, Nobody)
      /\ \A d \in Callers \ {c} : call'[d] = call[d]
  BY CallBecomes DEF Proceeds
<1>2. call'[c].op = call[c].op /\ call'[c].at = await
  BY <1>1 DEF Call
<1>3. Tends(c) => Tends(c)'
  BY <1>2 DEF Tends
<1> QED BY <1>1, <1>3, TendersStay

\* A call that comes to tend is the tender.
LEMMA BecomesTender ==
  ASSUME TypeOK, NEW c \in Callers, NEW await, Proceeds(c, await),
         \/ call[c].op \in {"join", "kick"}
         \/ call[c].op = "register" /\ await \in {"seed", "seeding", "document"}
         \/ call[c].op = "read" /\ await = "document"
         \/ call[c].op = "write" /\ await \in {"mirror", "write"}
  PROVE  HasTender'
<1>1. call'[c] = Call(call[c].op, await, Nobody)
  BY CallBecomes DEF Proceeds
<1>2. call'[c].op = call[c].op /\ call'[c].at = await
  BY <1>1 DEF Call
<1> QED BY <1>2 DEF Tends, HasTender

\* A call that returns without tending leaves the others.
LEMMA ReturnTends ==
  ASSUME TypeOK, HasTender, NEW c \in Callers, Returns(c), ~Tends(c),
         present' = present, timer' = timer, releasing \subseteq releasing'
  PROVE  HasTender'
<1>1. \A d \in Callers \ {c} : call'[d] = call[d]
  BY CallBecomes DEF Returns
<1> QED BY <1>1, TendersStay

\* A handler on its way out has looked at the timer, if it tended.
LEMMA LeaveTends ==
  ASSUME TypeOK, HasTender, NEW c \in Callers, Leaves(c), call[c].op # "kick",
         present' = present, releasing \subseteq releasing'
  PROVE  HasTender'
<1>1. CASE call[c].op \in {"join", "register", "read", "write"}
  BY <1>1, ScheduledIsTended DEF Leaves
<1>2. CASE call[c].op \notin {"join", "register", "read", "write"}
  BY <1>2, ReturnTends DEF Leaves, Tends
<1> QED BY <1>1, <1>2

\* A call that uses the document from the room has a participant, or a kick, to tend it.
LEMMA RoomHasTender ==
  ASSUME CallsAtStages, NobodyHidden, failures = 0, NEW s \in room
  PROVE  HasTender
<1>1. CASE s \in present
  BY <1>1 DEF HasTender
<1>2. CASE s \notin present
  <2>1. PICK q \in Requests : At(q, "audit")
    BY <1>2 DEF NobodyHidden
  <2>2. call[q].op = "kick"
    BY <2>1, StageOps DEF At, Callers
  <2> QED BY <2>2 DEF HasTender, Tends, Callers
<1> QED BY <1>1, <1>2

\* A step that loads no document and leaves the exceptions alone.
LEMMA TenderAside ==
  ASSUME DocumentHasTender, failures' = failures, strayed' = strayed,
         loaded' \/ loading' => loaded \/ loading,
         HasTender => HasTender'
  PROVE  DocumentHasTender'
  BY DEF DocumentHasTender

\* The invariants a step of a tended document starts from.
TendedBefore == TypeOK /\ NoGhosts /\ TendedInv

\* The steps of sockets.
LEMMA TenderClient ==
  ASSUME TendedBefore, NEW s \in Sockets, Client(s)
  PROVE  DocumentHasTender'
<1> USE DEF TendedBefore, TendedInv
<1> s \in Callers
  BY DEF Callers
<1>1. CASE Connect(s) \/ Facilitate(s) \/ Write(s)
  <2>1. HasTender => HasTender'
    BY <1>1, StartTends DEF Connect, Facilitate, Write, HasTender, Tends, callVars, socketVars, memoryVars
  <2> QED
    BY <1>1, <2>1, TenderAside DEF Connect, Facilitate, Write, memoryVars, countVars
<1>2. CASE Disconnect(s)
  <2>1. CASE s \in room
    BY <1>2, <2>1, ScheduledIsTended, TenderAside DEF Disconnect, memoryVars, countVars
  <2>2. CASE s \notin room
    <3>1. present' = present
      BY <1>2, <2>2 DEF Disconnect, NoGhosts
    <3>2. HasTender => HasTender'
      BY <1>2, <2>2, <3>1 DEF Disconnect, HasTender, Tends, callVars, memoryVars
    <3> QED BY <1>2, <3>2, TenderAside DEF Disconnect, memoryVars, countVars
  <2> QED BY <2>1, <2>2
<1>3. CASE Join(s)
  <2>1. call'[s] = Call("join", "capacity", Nobody)
    BY <1>3, CallBecomes DEF Join, Starts
  <2>2. Tends(s)'
    BY <2>1 DEF Tends, Call
  <2> QED BY <2>2 DEF DocumentHasTender, HasTender
<1>4. CASE JoinRefused(s)
  <2>1. present # {}
    BY <1>4, FS_EmptySet, RoomAssumption DEF JoinRefused
  <2>2. present' # {}
    BY <1>4, <2>1 DEF JoinRefused, socketVars
  <2> QED BY <2>2 DEF DocumentHasTender, HasTender
<1>5. CASE Update(s)
  <2> SUFFICES ASSUME failures = 0 PROVE HasTender'
    BY <1>5 DEF Update, DocumentHasTender, countVars
  <2>1. HasTender
    BY <1>5, RoomHasTender DEF Update
  <2> QED BY <1>5, <2>1, StartTends DEF Update, Memory!Use, socketVars
<1> QED BY <1>1, <1>2, <1>3, <1>4, <1>5 DEF Client

\* A session that ends leaves the timer, or nothing changes for the tender.
LEMMA EndingTends ==
  ASSUME TendedBefore, HasTender, NEW q \in Requests, EndSession(q), ~Tends(q),
         \A d \in Callers \ {q} : call'[d] = call[d]
  PROVE  HasTender'
<1>1. CASE present # {}
  <2>1. timer'
    BY <1>1 DEF EndSession, TendedBefore, NoGhosts
  <2> QED BY <2>1 DEF HasTender
<1>2. CASE timer \/ Eviction \in releasing
  BY <1>2 DEF EndSession, Memory!StartRelease, HasTender
<1>3. CASE \E d \in Callers : Tends(d)
  <2>1. PICK d \in Callers : Tends(d)
    BY <1>3
  <2>2. Tends(d)'
    BY <2>1 DEF Tends
  <2> QED BY <2>2 DEF HasTender
<1> QED BY <1>1, <1>2, <1>3 DEF HasTender

\* The requests.
LEMMA TenderRequest ==
  ASSUME TendedBefore, NEW q \in Requests, Request(q)
  PROVE  DocumentHasTender'
<1> USE DEF TendedBefore, TendedInv
<1> q \in Callers
  BY DEF Callers
<1>1. CASE Register(q) \/ Read(q) \/ Write(q) \/ ChangeStatus(q) \/ \E s \in Sockets : Kick(q, s)
  <2>1. HasTender => HasTender'
    BY <1>1, StartTends DEF Register, Read, Write, ChangeStatus, Kick, socketVars, memoryVars
  <2> QED
    BY <1>1, <2>1, TenderAside DEF Register, Read, Write, ChangeStatus, Kick, memoryVars, countVars
<1>2. CASE Purge(q)
  <2>1. ~Tends(q) /\ \A d \in Callers \ {q} : call'[d] = call[d]
    BY <1>2, CallBecomes DEF Purge, Starts, Idle, NoCall, Call, Tends
  <2>2. HasTender => HasTender'
    BY <1>2, <2>1, EndingTends DEF Purge
  <2> QED BY <1>2, <2>2, TenderAside DEF Purge, EndSession, Memory!StartRelease, countVars
<1> QED BY <1>1, <1>2 DEF Request

\* The steps of joining and registering.
LEMMA TenderJoining ==
  ASSUME TendedBefore, NEW c \in Callers,
         \/ CapacityChecked(c) \/ StatusChecked(c) \/ SessionCreated(c)
         \/ EnterRoom(c) \/ UpdateApplied(c) \/ DocumentRead(c)
  PROVE  DocumentHasTender'
<1> USE DEF TendedBefore, TendedInv
<1>1. CASE CapacityChecked(c) \/ StatusChecked(c)
  <2>1. call[c].op \in {"join", "register"} /\ call[c].at \in {"capacity", "checking"}
    BY <1>1, StageOps DEF CapacityChecked, StatusChecked, At
  <2>2. call[c].op = "join" \/ ~Tends(c)
    BY <2>1 DEF Tends
  <2>3. ASSUME HasTender PROVE HasTender'
    <3>1. CASE Refused(c) /\ call[c].op = "join"
      BY <3>1, ScheduledIsTended DEF Refused
    <3>2. CASE Refused(c) /\ call[c].op # "join"
      BY <1>1, <2>2, <2>3, <3>2, ReturnTends
         DEF CapacityChecked, StatusChecked, Refused, socketVars, memoryVars
    <3>3. CASE timer' = timer /\ \E await : Proceeds(c, await)
      BY <1>1, <2>2, <2>3, <3>3, ProceedTends
         DEF CapacityChecked, StatusChecked, socketVars, memoryVars
    <3> QED BY <1>1, <3>1, <3>2, <3>3 DEF CapacityChecked, StatusChecked
  <2> QED BY <1>1, <2>3, TenderAside DEF CapacityChecked, StatusChecked, memoryVars, countVars
<1>2. CASE SessionCreated(c)
  <2>1. call[c].op \in {"join", "register"}
    BY <1>2, StageOps DEF SessionCreated, At
  <2>2. HasTender'
    BY <1>2, <2>1, BecomesTender DEF SessionCreated
  <2> QED BY <2>2 DEF DocumentHasTender
<1>3. CASE EnterRoom(c)
  <2>1. CASE c \in connected
    BY <1>3, <2>1 DEF EnterRoom, DocumentHasTender, HasTender
  <2>2. CASE c \notin connected
    BY <1>3, <2>2, ScheduledIsTended DEF EnterRoom, Leaves, DocumentHasTender
  <2> QED BY <2>1, <2>2
<1>4. CASE UpdateApplied(c)
  <2>1. ~Tends(c)
    BY <1>4, StageOps DEF UpdateApplied, At, Tends
  <2>2. HasTender => HasTender'
    BY <1>4, <2>1, ReturnTends DEF UpdateApplied, Memory!Use, socketVars, memoryVars
  <2> QED BY <1>4, <2>2, TenderAside DEF UpdateApplied, Memory!Use, memoryVars, countVars
<1>5. CASE DocumentRead(c)
  BY <1>5, ScheduledIsTended DEF DocumentRead, Leaves, DocumentHasTender
<1> QED BY <1>1, <1>2, <1>3, <1>4, <1>5

\* The steps of reading and writing.
LEMMA TenderWriting ==
  ASSUME TendedBefore, NEW c \in Callers,
         SessionRead(c) \/ SnapshotUpserted(c) \/ Mirrored(c) \/ MirrorWritten(c)
  PROVE  DocumentHasTender'
<1> USE DEF TendedBefore, TendedInv
<1>1. CASE SessionRead(c)
  <2>1. CASE call[c].op = "read" /\ Proceeds(c, "document")
    BY <2>1, BecomesTender DEF DocumentHasTender
  <2>2. CASE UNCHANGED memoryVars /\ (Returns(c) \/ Proceeds(c, "snapshot"))
    <3>1. ~Tends(c)
      BY <1>1, StageOps DEF SessionRead, At, Tends
    <3>2. HasTender => HasTender'
      BY <1>1, <2>2, <3>1, ReturnTends, ProceedTends DEF SessionRead, socketVars, memoryVars
    <3> QED BY <1>1, <2>2, <3>2, TenderAside DEF SessionRead, memoryVars, countVars
  <2> QED BY <1>1, <2>1, <2>2 DEF SessionRead
<1>2. CASE SnapshotUpserted(c)
  <2>1. call[c].op \in {"canvas", "write"} /\ ~Tends(c)
    BY <1>2, StageOps DEF SnapshotUpserted, At, Tends
  <2>2. CASE Returns(c) /\ UNCHANGED <<memoryVars, strayed>>
    <3>1. HasTender => HasTender'
      BY <1>2, <2>1, <2>2, ReturnTends DEF SnapshotUpserted, socketVars, memoryVars
    <3> QED BY <1>2, <2>2, <3>1, TenderAside DEF SnapshotUpserted, memoryVars
  <2>3. CASE Memory!Use /\ Proceeds(c, "mirror") /\ strayed' = (strayed \/ c \in Sockets \ room)
    <3>1. CASE call[c].op = "write"
      BY <2>3, <3>1, BecomesTender DEF DocumentHasTender
    <3>2. CASE c \in room
      <4> SUFFICES ASSUME failures = 0 PROVE HasTender'
        BY <1>2 DEF SnapshotUpserted, DocumentHasTender
      <4>1. HasTender
        BY <3>2, RoomHasTender
      <4> QED BY <1>2, <2>1, <2>3, <4>1, ProceedTends DEF SnapshotUpserted, Memory!Use, socketVars
    <3>3. CASE c \in Sockets \ room
      BY <2>3, <3>3 DEF DocumentHasTender
    <3>4. call[c].op = "canvas" => c \in Sockets
      BY StageOps
    <3> QED BY <2>1, <3>1, <3>2, <3>3, <3>4
  <2> QED BY <1>2, <2>2, <2>3 DEF SnapshotUpserted
<1>3. CASE Mirrored(c)
  <2>1. CASE At(c, "seed") /\ \E await \in {"seeding", "document"} : Proceeds(c, await)
    <3>1. call[c].op \in {"join", "register"}
      BY <2>1, StageOps DEF At
    <3> QED BY <2>1, <3>1, BecomesTender DEF DocumentHasTender
  <2>2. CASE At(c, "mirror")
    <3>1. call[c].op \in {"canvas", "write"}
      BY <2>2, StageOps DEF At
    <3>2. ASSUME HasTender PROVE HasTender'
      <4>1. CASE Memory!Use /\ Proceeds(c, "write") /\ UNCHANGED timer
        BY <1>3, <3>1, <3>2, <4>1, ProceedTends DEF Mirrored, Memory!Use, Tends, socketVars
      <4>2. CASE UNCHANGED <<memoryVars, present>> /\ Leaves(c)
        BY <3>1, <3>2, <4>2, LeaveTends DEF memoryVars
      <4> QED BY <1>3, <2>2, <4>1, <4>2 DEF Mirrored, At
    <3> QED BY <1>3, <3>2, TenderAside DEF Mirrored, Memory!Use, memoryVars, countVars
  <2> QED BY <1>3, <2>1, <2>2 DEF Mirrored
<1>4. CASE MirrorWritten(c)
  <2>1. CASE At(c, "seeding") /\ Proceeds(c, "document")
    <3>1. call[c].op \in {"join", "register"}
      BY <2>1, StageOps DEF At
    <3> QED BY <2>1, <3>1, BecomesTender DEF DocumentHasTender
  <2>2. CASE At(c, "write") /\ UNCHANGED <<memoryVars, present>> /\ Leaves(c)
    <3>1. call[c].op # "kick"
      BY <2>2, StageOps DEF At
    <3>2. HasTender => HasTender'
      BY <2>2, <3>1, LeaveTends DEF memoryVars
    <3> QED BY <1>4, <2>2, <3>2, TenderAside DEF MirrorWritten, memoryVars, countVars
  <2> QED BY <1>4, <2>1, <2>2 DEF MirrorWritten
<1> QED BY <1>1, <1>2, <1>3, <1>4

\* The steps that end a session.
LEMMA TenderEnding ==
  ASSUME TendedBefore, NEW q \in Requests,
         \/ TransitionChecked(q) \/ StatusCommitted(q)
         \/ SessionEnded(q) \/ PurgeDrained(q) \/ RowDeleted(q)
  PROVE  DocumentHasTender'
<1> USE DEF TendedBefore, TendedInv
<1> q \in Callers
  BY DEF Callers
<1>0. ~Tends(q)
  BY StageOps
     DEF TransitionChecked, StatusCommitted, SessionEnded, PurgeDrained, RowDeleted, At, Tends
<1>1. CASE TransitionChecked(q) \/ RowDeleted(q) \/ PurgeDrained(q)
  <2>1. HasTender => HasTender'
    BY <1>0, <1>1, ReturnTends, ProceedTends
       DEF TransitionChecked, RowDeleted, PurgeDrained, Memory!Discard, socketVars, memoryVars
  <2> QED
    BY <1>1, <2>1, TenderAside
       DEF TransitionChecked, RowDeleted, PurgeDrained, Memory!Discard, memoryVars, countVars
<1>2. CASE StatusCommitted(q)
  <2>1. CASE EndSession(q) /\ Proceeds(q, "ending")
    <3>1. \A d \in Callers \ {q} : call'[d] = call[d]
      BY <2>1, CallBecomes DEF Proceeds
    <3>2. HasTender => HasTender'
      BY <1>0, <2>1, <3>1, EndingTends
    <3> QED
      BY <1>2, <2>1, <3>2, TenderAside DEF StatusCommitted, EndSession, Memory!StartRelease, countVars
  <2>2. CASE Returns(q) /\ UNCHANGED <<socketVars, timer, memoryVars>>
    <3>1. HasTender => HasTender'
      BY <1>0, <2>2, ReturnTends DEF socketVars, memoryVars
    <3> QED BY <1>2, <2>2, <3>1, TenderAside DEF StatusCommitted, memoryVars, countVars
  <2> QED BY <1>2, <2>1, <2>2 DEF StatusCommitted
<1>3. CASE SessionEnded(q)
  <2>1. Eviction \in releasing => Eviction \in releasing'
    BY <1>3, RoomAssumption DEF SessionEnded, Memory!Drop, Memory!Keep
  <2>2. \A d \in Callers \ {q} : call'[d] = call[d]
    BY <1>3, CallBecomes DEF SessionEnded, Proceeds, Returns
  <2>3. ASSUME HasTender PROVE HasTender'
    <3>1. CASE present # {} \/ timer \/ Eviction \in releasing
      BY <1>3, <2>1, <3>1 DEF SessionEnded, HasTender, socketVars
    <3>2. CASE \E d \in Callers : Tends(d)
      <4>1. PICK d \in Callers : Tends(d)
        BY <3>2
      <4>2. call'[d] = call[d]
        BY <1>0, <2>2, <4>1
      <4> QED BY <4>1, <4>2 DEF Tends, HasTender
    <3> QED BY <2>3, <3>1, <3>2 DEF HasTender
  <2> QED BY <1>3, <2>3, TenderAside DEF SessionEnded, Memory!Drop, Memory!Keep
<1> QED BY <1>1, <1>2, <1>3

\* The steps of a kick.
LEMMA TenderKicking ==
  ASSUME TendedBefore, NEW q \in Requests,
         \/ KickMissesOne(q) \/ KickAudited(q) \/ KickDone(q)
         \/ \E s \in Sockets : KickTakes(q, s) \/ KickTakesAbsent(q, s)
  PROVE  DocumentHasTender'
<1> USE DEF TendedBefore, TendedInv
<1> q \in Callers
  BY DEF Callers
<1>0. call[q].op = "kick"
  BY StageOps
     DEF KickMissesOne, KickAudited, KickDone, KickTakes, KickTakesAbsent, At
<1>1. CASE KickMissesOne(q) \/ KickDone(q)
  BY <1>1, ScheduledIsTended DEF KickMissesOne, KickDone, DocumentHasTender
<1>2. CASE KickAudited(q)
  BY <1>0, <1>2, BecomesTender DEF KickAudited, DocumentHasTender
<1>3. ASSUME NEW s \in Sockets, KickTakes(q, s) \/ KickTakesAbsent(q, s) PROVE DocumentHasTender'
  <2>1. call'[q].op = "kick"
    <3>1. CASE KickTakes(q, s)
      <4>1. call'[q] = Call("kick", "audit", s)
        BY <3>1, CallBecomes DEF KickTakes
      <4> QED BY <4>1 DEF Call
    <3>2. CASE KickTakesAbsent(q, s)
      BY <1>0, <3>2 DEF KickTakesAbsent
    <3> QED BY <1>3, <3>1, <3>2
  <2> QED BY <2>1 DEF DocumentHasTender, HasTender, Tends
<1> QED BY <1>1, <1>2, <1>3

\* Loads, failures, timers.
LEMMA TenderEnvironment ==
  ASSUME TendedBefore,
         \/ LoadDone \/ LoadFails \/ TimerFires \/ Evicted \/ TombstoneExpires
         \/ \E c \in Callers : DatabaseFails(c)
  PROVE  DocumentHasTender'
<1> USE DEF TendedBefore, TendedInv
<1>1. CASE LoadDone \/ TombstoneExpires
  <2>1. HasTender => HasTender'
    BY <1>1 DEF LoadDone, TombstoneExpires, Memory!LoadDone, HasTender, Tends,
                callVars, socketVars, memoryVars
  <2> QED
    BY <1>1, <2>1, TenderAside DEF LoadDone, TombstoneExpires, Memory!LoadDone, memoryVars, countVars
<1>2. CASE TimerFires
  <2>1. HasTender'
    BY <1>2 DEF TimerFires, Memory!StartRelease, HasTender, socketVars
  <2> QED BY <2>1 DEF DocumentHasTender
<1>3. CASE Evicted
  <2>1. CASE Memory!Drop(Eviction)
    BY <1>3, <2>1 DEF Evicted, Memory!Drop, DocumentHasTender
  <2>2. CASE ScheduleIfEmpty
    BY <2>2, ScheduledIsTended DEF DocumentHasTender
  <2> QED BY <1>3, <2>1, <2>2 DEF Evicted
<1>4. CASE LoadFails \/ \E c \in Callers : DatabaseFails(c)
  <2>1. failures' = failures + 1 /\ failures \in Nat
    BY <1>4 DEF LoadFails, DatabaseFails, TypeOK, RoomTypes
  <2>2. failures' # 0
    BY <2>1
  <2> QED BY <2>2 DEF DocumentHasTender
<1> QED BY <1>1, <1>2, <1>3, <1>4

\* TendedInv is inductive together with the types and NoGhosts.
LEMMA TenderStep == TendedBefore /\ [Next]_vars => TendedInv'
<1> SUFFICES ASSUME TendedBefore, [Next]_vars PROVE TendedInv'
    OBVIOUS
<1>1. CallsAtStages' /\ NobodyHidden'
  BY StagesStep, HiddenStep DEF TendedBefore, TendedInv
<1>2. DocumentHasTender'
  <2>1. CASE UNCHANGED vars
    <3>1. HasTender => HasTender'
      BY <2>1 DEF HasTender, Tends, vars, callVars, socketVars, memoryVars
    <3> QED
      BY <2>1, <3>1, TenderAside DEF TendedBefore, TendedInv, vars, memoryVars, countVars
  <2>2. ASSUME NEW c \in Callers, Progress(c) PROVE DocumentHasTender'
    BY <2>2, TenderJoining, TenderWriting, TenderEnding, TenderKicking DEF Progress
  <2> QED BY <2>1, <2>2, TenderClient, TenderRequest, TenderEnvironment DEF Next
<1> QED BY <1>1, <1>2 DEF TendedInv

LEMMA TenderInit == Init => TendedInv
<1> SUFFICES ASSUME Init PROVE TendedInv
    OBVIOUS
<1>1. CallsAtStages
  BY DEF Init, CallsAtStages, NoCall, Call, Stages
<1>2. room = {} /\ ~loaded /\ ~loading
  BY DEF Init, Memory!Init
<1> QED BY <1>1, <1>2 DEF TendedInv, NobodyHidden, DocumentHasTender

LEMMA TendedInductive == Spec => [](IInv /\ TendedInv)
<1>1. Init => IInv /\ TendedInv
  BY IInvInit, TenderInit
<1>2. IInv /\ TendedInv /\ [Next]_vars => IInv' /\ TendedInv'
  BY IInvStep, TenderStep DEF TendedBefore, IInv
<1> QED BY <1>1, <1>2, PTL DEF Spec

\* NobodyHidden: until a database call fails, everyone in the room is on the
\* presence list, or a kick that took them off it is about to remove them.
THEOREM NobodyIsHidden == Spec => []NobodyHidden
<1>1. TendedInv => NobodyHidden
  BY DEF TendedInv
<1> QED BY <1>1, TendedInductive, PTL

\* DocumentIsTended: unless a request fails or a canvas update strays, no
\* document stays in memory without a participant or an eviction to come.
THEOREM DocumentsAreTended == Spec => []DocumentIsTended
<1>1. IInv /\ TendedInv => DocumentIsTended
  <2> SUFFICES ASSUME IInv, TendedInv, failures = 0, ~strayed, loaded, releasing = {},
                      \A c \in Callers : Idle(c), ~timer
               PROVE  room # {}
    BY DEF DocumentIsTended
  <2>1. \A c \in Callers : ~Tends(c)
    BY DEF Idle, NoCall, Call, Tends
  <2>2. present # {}
    BY <2>1 DEF TendedInv, DocumentHasTender, HasTender
  <2> QED BY <2>2 DEF IInv, NoGhosts
<1> QED BY <1>1, TendedInductive, PTL

-----------------------------------------------------------------------------
(* The room implements DocumentMemory.                                     *)

\* A step of the document's specification, or none.
MemoryMoves == Memory!Next \/ UNCHANGED memoryVars

LEMMA MemorySteps ==
  /\ \/ Memory!Use \/ Memory!LoadDone \/ Memory!LoadFails \/ Memory!Discard
     \/ UNCHANGED memoryVars
     => MemoryMoves
  /\ \A r \in Requests \cup {Eviction} :
       Memory!StartRelease(r) \/ Memory!Drop(r) \/ Memory!Keep(r) => MemoryMoves
  BY DEF MemoryMoves, Memory!Next

\* What sockets do and what requests begin.
LEMMA BeginningsMoveMemory ==
  ASSUME \/ \E s \in Sockets : Client(s)
         \/ \E q \in Requests : Request(q)
  PROVE  MemoryMoves
<1>1. ASSUME NEW s \in Sockets, Client(s) PROVE MemoryMoves
  BY <1>1, MemorySteps DEF Client, Connect, Disconnect, Facilitate, Join, JoinRefused, Update, Write
<1>2. ASSUME NEW q \in Requests, Request(q) PROVE MemoryMoves
  <2>1. CASE Purge(q)
    BY <2>1, MemorySteps DEF Purge, EndSession
  <2>2. CASE ~Purge(q)
    BY <1>2, <2>2, MemorySteps DEF Request, Register, Read, Write, ChangeStatus, Kick
  <2> QED BY <2>1, <2>2
<1> QED BY <1>1, <1>2

\* What calls go on with.
LEMMA ProgressMovesMemory ==
  ASSUME NEW c \in Callers, Progress(c)
  PROVE  MemoryMoves
<1>1. CASE CapacityChecked(c) \/ StatusChecked(c) \/ SessionCreated(c) \/ SessionRead(c)
           \/ SnapshotUpserted(c) \/ Mirrored(c) \/ MirrorWritten(c)
  BY <1>1, MemorySteps
     DEF CapacityChecked, StatusChecked, SessionCreated, SessionRead, SnapshotUpserted, Mirrored,
         MirrorWritten, memoryVars
<1>2. CASE EnterRoom(c) \/ UpdateApplied(c) \/ DocumentRead(c)
  BY <1>2, MemorySteps DEF EnterRoom, UpdateApplied, DocumentRead
<1>3. CASE c \in Requests /\ (StatusCommitted(c) \/ SessionEnded(c) \/ PurgeDrained(c))
  BY <1>3, MemorySteps DEF StatusCommitted, EndSession, SessionEnded, PurgeDrained
<1>4. CASE TransitionChecked(c) \/ RowDeleted(c) \/ KickMissesOne(c) \/ KickAudited(c) \/ KickDone(c)
           \/ \E s \in Sockets : KickTakes(c, s) \/ KickTakesAbsent(c, s)
  BY <1>4, MemorySteps
     DEF TransitionChecked, RowDeleted, KickMissesOne, KickAudited, KickDone, KickTakes,
         KickTakesAbsent
<1> QED BY <1>1, <1>2, <1>3, <1>4 DEF Progress

LEMMA StepMovesMemory == [Next]_vars => [Memory!Next]_(Memory!vars)
<1> SUFFICES ASSUME [Next]_vars PROVE MemoryMoves
  BY DEF MemoryMoves, Memory!vars, memoryVars
<1>1. CASE UNCHANGED vars
  BY <1>1, MemorySteps DEF vars
<1>2. CASE LoadDone \/ LoadFails \/ TimerFires \/ Evicted \/ TombstoneExpires
  BY <1>2, MemorySteps DEF LoadDone, LoadFails, TimerFires, Evicted, TombstoneExpires
<1>3. ASSUME NEW c \in Callers, DatabaseFails(c) PROVE MemoryMoves
  BY <1>3, MemorySteps DEF DatabaseFails
<1> QED BY <1>1, <1>2, <1>3, BeginningsMoveMemory, ProgressMovesMemory DEF Next

\* Every handler of the room, whatever fails or crosses it, treats the
\* document only in ways DocumentMemory allows: an access tells every release
\* under way, a release begins and returns once, and only a purge discards.
THEOREM RoomImplementsMemory == Spec => KeepsToMemory
<1>1. Init => Memory!Init
  BY DEF Init
<1> QED BY <1>1, StepMovesMemory, PTL DEF Spec, KeepsToMemory, Memory!Spec

-----------------------------------------------------------------------------
(* Nobody waits in vain.                                                   *)

AtSure == AtDatabase \cup {"draining", "next"}

LEMMA AwaitsApart ==
  /\ "ending" \notin AtSure \cup AtDocument /\ AtSure \cap AtDocument = {}
  /\ "none" \notin AtSure \cup AtDocument
  /\ NoCall.at = "none"
  BY DEF AtSure, AtDatabase, AtDocument, NoCall, Call

\* A call that had not begun a release changes; the document stays, or comes.
LEMMA VainChange ==
  ASSUME TypeOK, NothingWaitsInVain, NEW c \in Callers, NEW r, call' = [call EXCEPT ![c] = r],
         ~At(c, "ending"), releasing' = releasing,
         loaded \/ loading => loaded' \/ loading',
         r = NoCall \/ r.at \in AtSure \/ (r.at \in AtDocument /\ (loaded' \/ loading'))
  PROVE  NothingWaitsInVain'
<1>1. call'[c] = r /\ \A d \in Callers \ {c} : call'[d] = call[d]
  BY CallBecomes
<1>2. ASSUME NEW d \in Callers, call'[d] # NoCall
      PROVE  \/ call'[d].at \in AtSure
             \/ call'[d].at \in AtDocument /\ (loaded' \/ loading')
             \/ call'[d].at = "ending" /\ d \in Requests \cap releasing'
  <2>1. CASE d = c
    BY <1>1, <1>2, <2>1
  <2>2. CASE d # c
    BY <1>1, <1>2, <2>2 DEF NothingWaitsInVain, AtSure, Idle, At
  <2> QED BY <2>1, <2>2
<1>3. ASSUME NEW q \in releasing' PROVE q = Eviction \/ call'[q].at = "ending"
  <2>1. q \in Callers \/ q = Eviction
    BY DEF TypeOK, Memory!TypeOK, Callers
  <2> QED BY <1>1, <2>1 DEF NothingWaitsInVain, At
<1> QED BY <1>2, <1>3 DEF NothingWaitsInVain, AtSure, Idle, At

\* A call begins a release and awaits it.
LEMMA VainRelease ==
  ASSUME TypeOK, NothingWaitsInVain, NEW q \in Requests, NEW r, call' = [call EXCEPT ![q] = r],
         r.at = "ending", Memory!StartRelease(q)
  PROVE  NothingWaitsInVain'
<1> q \in Callers
  BY DEF Callers
<1>1. call'[q] = r /\ \A d \in Callers \ {q} : call'[d] = call[d]
  BY CallBecomes
<1>2. loaded' = loaded /\ loading' = loading /\ releasing' = releasing \cup {q}
  BY DEF Memory!StartRelease
<1>3. \A d \in releasing : d \in Callers \/ d = Eviction
  BY DEF TypeOK, Memory!TypeOK, Callers
<1> QED BY <1>1, <1>2, <1>3 DEF NothingWaitsInVain, Idle, At

\* A release ends with the call that awaits it, and takes no document away
\* that a call waits for.
LEMMA VainEnd ==
  ASSUME TypeOK, NothingWaitsInVain, NEW q \in Requests, NEW r, call' = [call EXCEPT ![q] = r],
         r = NoCall \/ r.at \in AtSure, loaded => Settled, Memory!Drop(q) \/ Memory!Keep(q)
  PROVE  NothingWaitsInVain'
<1> q \in Callers
  BY DEF Callers
<1>1. call'[q] = r /\ \A d \in Callers \ {q} : call'[d] = call[d]
  BY CallBecomes
<1>2. releasing' = releasing \ {q} /\ loading' = loading /\ (loaded' = loaded \/ ~loading)
  BY DEF Memory!Drop, Memory!Keep
<1>3. \A d \in Callers : call[d].at \in AtDocument => loaded' \/ loading'
  BY <1>2, AwaitsApart DEF Settled, NothingWaitsInVain, AtSure, Idle, At
<1>4. \A d \in releasing : d \in Callers \/ d = Eviction
  BY DEF TypeOK, Memory!TypeOK, Callers
<1>5. ASSUME NEW d \in Callers, call'[d] # NoCall
      PROVE  \/ call'[d].at \in AtSure
             \/ call'[d].at \in AtDocument /\ (loaded' \/ loading')
             \/ call'[d].at = "ending" /\ d \in Requests \cap releasing'
  BY <1>1, <1>2, <1>3, <1>5 DEF NothingWaitsInVain, AtSure, Idle, At
<1> QED BY <1>1, <1>2, <1>4, <1>5 DEF NothingWaitsInVain, AtSure, Idle, At

\* No call changes and no request's release ends; the document stays, or comes.
LEMMA VainAside ==
  ASSUME NothingWaitsInVain, call' = call, loaded \/ loading => loaded' \/ loading',
         releasing' \ {Eviction} = releasing \ {Eviction}
  PROVE  NothingWaitsInVain'
  BY RoomAssumption DEF NothingWaitsInVain, Idle, At

\* An access has the document, or a load of it.
LEMMA UseLoads ==
  ASSUME TypeOK, Memory!Use
  PROVE  releasing' = releasing /\ loaded' \in BOOLEAN /\ loading' \in BOOLEAN /\ (loaded' \/ loading')
<1>1. loaded \in BOOLEAN /\ loading \in BOOLEAN
  BY DEF TypeOK, Memory!TypeOK
<1>2. loaded' = loaded /\ releasing' = releasing /\ loading' = (loading \/ ~loaded)
  BY DEF Memory!Use
<1>3. CASE loaded
  BY <1>1, <1>2, <1>3
<1>4. CASE ~loaded
  BY <1>1, <1>2, <1>4
<1> QED BY <1>2, <1>3, <1>4

LEMMA UnchangedLoads ==
  ASSUME UNCHANGED memoryVars
  PROVE  releasing' = releasing /\ (loaded \/ loading => loaded' \/ loading')
  BY DEF memoryVars

\* The ways in which a call that awaits no release starts, goes on and ends.
LEMMA VainStarts ==
  ASSUME TypeOK, NothingWaitsInVain, NEW c \in Callers, NEW op, NEW await, Starts(c, op, await),
         await \in AtSure, UNCHANGED memoryVars
  PROVE  NothingWaitsInVain'
<1>1. Call(op, await, Nobody).at = await /\ ~At(c, "ending")
  BY AwaitsApart DEF Call, Starts, Idle, At
<1> QED BY <1>1, VainChange DEF Starts, memoryVars

LEMMA VainProceeds ==
  ASSUME TypeOK, NothingWaitsInVain, NEW c \in Callers, NEW await, ~At(c, "ending"), Proceeds(c, await),
         \/ await \in AtSure /\ (UNCHANGED memoryVars \/ Memory!Use)
         \/ await \in AtDocument /\ Memory!Use
  PROVE  NothingWaitsInVain'
<1> DEFINE r == Call(call[c].op, await, Nobody)
<1>1. r.at = await
  BY DEF Call
<1>2. call' = [call EXCEPT ![c] = r]
  BY DEF Proceeds
<1>3. releasing' = releasing /\ (loaded \/ loading => loaded' \/ loading')
  BY UseLoads, UnchangedLoads
<1>4. Memory!Use => loaded' \/ loading'
  BY UseLoads
<1> HIDE DEF r
<1> QED BY <1>1, <1>2, <1>3, <1>4, VainChange

LEMMA VainReturns ==
  ASSUME TypeOK, NothingWaitsInVain, NEW c \in Callers, ~At(c, "ending"),
         Returns(c) \/ Leaves(c) \/ Refused(c), UNCHANGED memoryVars \/ Memory!Use
  PROVE  NothingWaitsInVain'
<1>1. releasing' = releasing /\ (loaded \/ loading => loaded' \/ loading')
  BY UseLoads, UnchangedLoads
<1>2. call' = [call EXCEPT ![c] = NoCall]
  BY DEF Returns, Leaves, Refused
<1> QED BY <1>1, <1>2, VainChange

\* What sockets do and what requests begin.
LEMMA VainBeginnings ==
  ASSUME TypeOK, NothingWaitsInVain,
         \/ \E s \in Sockets : Client(s)
         \/ \E q \in Requests : Request(q)
  PROVE  NothingWaitsInVain'
<1> USE DEF AtSure, AtDatabase
<1>1. ASSUME NEW s \in Sockets, Client(s) PROVE NothingWaitsInVain'
  <2> s \in Callers
    BY DEF Callers
  <2>1. CASE Connect(s) \/ Disconnect(s) \/ Facilitate(s) \/ JoinRefused(s)
    <3>1. call' = call /\ UNCHANGED memoryVars
      BY <2>1 DEF Connect, Disconnect, Facilitate, JoinRefused, callVars
    <3> QED BY <3>1 DEF NothingWaitsInVain, Idle, At, memoryVars
  <2>2. CASE Join(s) \/ Write(s)
    BY <2>2, VainStarts DEF Join, Write
  <2>3. CASE Update(s)
    <3> DEFINE r == Call("update", "update", Nobody)
    <3>1. r.at \in AtDocument
      BY DEF Call, AtDocument
    <3>2. call' = [call EXCEPT ![s] = r] /\ ~At(s, "ending") /\ Memory!Use
      BY <2>3, AwaitsApart DEF Update, Starts, Idle, At
    <3>3. releasing' = releasing /\ (loaded' \/ loading')
      BY <3>2 DEF Memory!Use
    <3> HIDE DEF r
    <3> QED BY <3>1, <3>2, <3>3, VainChange
  <2> QED BY <1>1, <2>1, <2>2, <2>3 DEF Client
<1>2. ASSUME NEW q \in Requests, Request(q) PROVE NothingWaitsInVain'
  <2> q \in Callers
    BY DEF Callers
  <2>1. CASE Register(q) \/ Read(q) \/ Write(q) \/ ChangeStatus(q)
    BY <2>1, VainStarts DEF Register, Read, Write, ChangeStatus
  <2>2. ASSUME NEW s \in Sockets, Kick(q, s) PROVE NothingWaitsInVain'
    BY <2>2, VainStarts DEF Kick
  <2>3. CASE Purge(q)
    <3>1. Call("purge", "ending", Nobody).at = "ending"
      BY DEF Call
    <3> QED BY <2>3, <3>1, VainRelease DEF Purge, Starts, EndSession
  <2> QED BY <1>2, <2>1, <2>2, <2>3 DEF Request
<1> QED BY <1>1, <1>2

\* What calls go on with.
LEMMA VainProgress ==
  ASSUME TypeOK, CallsAtStages, NothingWaitsInVain, NEW c \in Callers, Progress(c)
  PROVE  NothingWaitsInVain'
<1> USE DEF AtSure, AtDatabase, AtDocument, At
<1>1. CASE CapacityChecked(c) \/ StatusChecked(c)
  BY <1>1, VainProceeds, VainReturns DEF CapacityChecked, StatusChecked
<1>2. CASE SessionCreated(c) \/ SessionRead(c)
  BY <1>2, VainProceeds, VainReturns DEF SessionCreated, SessionRead
<1>3. CASE SnapshotUpserted(c)
  BY <1>3, VainProceeds, VainReturns DEF SnapshotUpserted, memoryVars
<1>4. CASE Mirrored(c)
  BY <1>4, VainProceeds, VainReturns DEF Mirrored, memoryVars
<1>5. CASE MirrorWritten(c)
  BY <1>5, VainProceeds, VainReturns DEF MirrorWritten, memoryVars
<1>6. CASE EnterRoom(c) \/ UpdateApplied(c) \/ DocumentRead(c)
  <2>1. ~At(c, "ending")
    BY <1>6 DEF EnterRoom, UpdateApplied, DocumentRead
  <2> QED BY <1>6, <2>1, VainReturns DEF EnterRoom, UpdateApplied, DocumentRead
<1>7. CASE TransitionChecked(c) \/ RowDeleted(c)
  BY <1>7, VainProceeds, VainReturns DEF TransitionChecked, RowDeleted
<1>8. CASE c \in Requests /\ StatusCommitted(c)
  <2>1. CASE EndSession(c) /\ Proceeds(c, "ending")
    <3> DEFINE r == Call(call[c].op, "ending", Nobody)
    <3>1. r.at = "ending" /\ call' = [call EXCEPT ![c] = r]
      BY <2>1 DEF Call, Proceeds
    <3> HIDE DEF r
    <3> QED BY <1>8, <2>1, <3>1, VainRelease DEF EndSession
  <2>2. CASE Returns(c) /\ UNCHANGED memoryVars
    BY <1>8, <2>2, VainReturns DEF StatusCommitted
  <2> QED BY <1>8, <2>1, <2>2 DEF StatusCommitted
<1>9. CASE c \in Requests /\ SessionEnded(c)
  <2>1. CASE Proceeds(c, "draining")
    <3> DEFINE r == Call(call[c].op, "draining", Nobody)
    <3>1. r.at = "draining" /\ call' = [call EXCEPT ![c] = r]
      BY <2>1 DEF Call, Proceeds
    <3> HIDE DEF r
    <3> QED BY <1>9, <3>1, VainEnd DEF SessionEnded
  <2>2. CASE Returns(c)
    BY <1>9, <2>2, VainEnd DEF SessionEnded, Returns
  <2> QED BY <1>9, <2>1, <2>2 DEF SessionEnded
<1>10. CASE PurgeDrained(c)
  <2> DEFINE r == Call(call[c].op, "deleting", Nobody)
  <2>1. r.at = "deleting" /\ call' = [call EXCEPT ![c] = r] /\ Settled /\ Memory!Discard /\ ~At(c, "ending")
    BY <1>10 DEF PurgeDrained, Call, Proceeds
  <2> HIDE DEF r
  <2>2. loading' = loading /\ releasing' = releasing
    BY <2>1 DEF Memory!Discard
  <2>3. ASSUME NEW d \in Callers, call[d].at \in AtDocument PROVE loading'
    <3>1. ~loaded
      BY <2>1, <2>3 DEF Settled
    <3> QED BY <2>2, <2>3, <3>1, AwaitsApart DEF NothingWaitsInVain, Idle
  <2>4. call'[c] = r /\ \A d \in Callers \ {c} : call'[d] = call[d]
    BY <2>1, CallBecomes
  <2>5. \A d \in releasing : d \in Callers \/ d = Eviction
    BY DEF TypeOK, Memory!TypeOK, Callers
  <2>6. ASSUME NEW d \in Callers, call'[d] # NoCall
        PROVE  \/ call'[d].at \in AtSure
               \/ call'[d].at \in AtDocument /\ (loaded' \/ loading')
               \/ call'[d].at = "ending" /\ d \in Requests \cap releasing'
    <3>1. CASE d = c
      BY <2>1, <2>4, <3>1
    <3>2. CASE d # c
      BY <2>2, <2>3, <2>4, <2>6, <3>2 DEF NothingWaitsInVain, Idle
    <3> QED BY <3>1, <3>2
  <2>7. ASSUME NEW q \in releasing' PROVE q = Eviction \/ call'[q].at = "ending"
    BY <2>1, <2>2, <2>4, <2>5 DEF NothingWaitsInVain
  <2> QED BY <2>6, <2>7 DEF NothingWaitsInVain, Idle
<1>11. CASE KickMissesOne(c) \/ KickAudited(c) \/ KickDone(c)
  BY <1>11, VainProceeds, VainReturns DEF KickMissesOne, KickAudited, KickDone
<1>12. ASSUME NEW s \in Sockets, KickTakes(c, s) \/ KickTakesAbsent(c, s) PROVE NothingWaitsInVain'
  <2>1. CASE KickTakes(c, s)
    <3>1. Call("kick", "audit", s).at = "audit"
      BY DEF Call
    <3> QED BY <2>1, <3>1, VainChange DEF KickTakes, memoryVars
  <2>2. CASE KickTakesAbsent(c, s)
    BY <2>2 DEF KickTakesAbsent, memoryVars, NothingWaitsInVain, Idle
  <2> QED BY <1>12, <2>1, <2>2
<1> QED
  BY <1>1, <1>2, <1>3, <1>4, <1>5, <1>6, <1>7, <1>8, <1>9, <1>10, <1>11, <1>12 DEF Progress

LEMMA VainEnvironment ==
  ASSUME TypeOK, NothingWaitsInVain,
         \/ LoadDone \/ LoadFails \/ TimerFires \/ Evicted \/ TombstoneExpires
         \/ \E c \in Callers : DatabaseFails(c)
  PROVE  NothingWaitsInVain'
<1>1. CASE LoadDone \/ TombstoneExpires
  BY <1>1 DEF LoadDone, TombstoneExpires, Memory!LoadDone, NothingWaitsInVain, Idle, At, callVars, memoryVars
<1>2. CASE TimerFires
  <2>1. releasing' \ {Eviction} = releasing \ {Eviction} /\ loaded' = loaded /\ loading' = loading
    BY <1>2 DEF TimerFires, Memory!StartRelease, memoryVars
  <2> QED BY <1>2, <2>1, VainAside DEF TimerFires, callVars
<1>3. CASE Evicted
  <2>1. releasing' \ {Eviction} = releasing \ {Eviction} /\ loading' = loading /\ call' = call
    BY <1>3 DEF Evicted, Memory!Drop, Memory!Keep, callVars
  <2>2. CASE loaded' = loaded
    BY <2>1, <2>2, VainAside
  <2>3. CASE Memory!Drop(Eviction) /\ (loaded => Settled)
    <3>1. \A c \in Callers : call[c].at \notin AtDocument
      BY <2>3, AwaitsApart DEF Memory!Drop, Settled, NothingWaitsInVain, AtSure, Idle, At
    <3> QED BY <2>1, <3>1, RoomAssumption DEF NothingWaitsInVain, Idle, At
  <2> QED BY <1>3, <2>2, <2>3 DEF Evicted, Memory!Keep
<1>4. CASE LoadFails
  <2>1. \A c \in Callers : call'[c] = IF call[c].at \in AtDocument THEN NoCall ELSE call[c]
    BY <1>4 DEF LoadFails
  <2>2. loaded' = loaded /\ releasing' = releasing
    BY <1>4 DEF LoadFails, Memory!LoadFails
  <2>3. \A r \in releasing : r \in Callers \/ r = Eviction
    BY DEF TypeOK, Memory!TypeOK, Callers
  <2>4. ASSUME NEW c \in Callers, call'[c] # NoCall
        PROVE  call'[c] = call[c] /\ call[c].at \notin AtDocument
    BY <2>1, <2>4
  <2> QED BY <2>1, <2>2, <2>3, <2>4, AwaitsApart DEF NothingWaitsInVain, Idle, At
<1>5. ASSUME NEW c \in Callers, DatabaseFails(c) PROVE NothingWaitsInVain'
  <2>1. Refused(c) /\ UNCHANGED memoryVars /\ ~At(c, "ending")
    BY <1>5 DEF DatabaseFails, AtDatabase, At
  <2> QED BY <2>1, VainReturns
<1> QED BY <1>1, <1>2, <1>3, <1>4, <1>5

LEMMA VainStep == TypeOK /\ CallsAtStages /\ NothingWaitsInVain /\ [Next]_vars => NothingWaitsInVain'
<1> SUFFICES ASSUME TypeOK, CallsAtStages, NothingWaitsInVain, [Next]_vars PROVE NothingWaitsInVain'
    OBVIOUS
<1>1. CASE UNCHANGED vars
  <2>1. call' = call /\ loaded' = loaded /\ loading' = loading /\ releasing' = releasing
    BY <1>1 DEF vars, callVars, memoryVars
  <2> QED BY <2>1, VainAside
<1> QED BY <1>1, VainBeginnings, VainProgress, VainEnvironment DEF Next

\* NothingWaitsInVain: however evictions, purges, failing loads and calls
\* cross, a call that is not over awaits something that is under way.
THEOREM NobodyWaitsInVain == Spec => []NothingWaitsInVain
<1>1. Init => NothingWaitsInVain
  BY DEF Init, Memory!Init, NothingWaitsInVain, Idle
<1>2. IInv /\ TendedInv => TypeOK /\ CallsAtStages
  BY DEF IInv, TendedInv
<1> QED BY <1>1, <1>2, VainStep, TendedInductive, PTL DEF Spec

-----------------------------------------------------------------------------
(* What crosses a close.                                                   *)

\* A call has read the status, or is about to, and has not written it yet.
ChangesStatus(c) == call[c].op \in {"save", "close"} /\ call[c].at \in {"status", "commit"}
OneStatusChange == \A c, d \in Callers : ChangesStatus(c) /\ ChangesStatus(d) => c = d

Closes(c) == call[c].op = "close" /\ At(c, "commit")
Saves(c)  == call[c].op = "save" /\ At(c, "commit")

\* A join has found the session open and is not yet present.
Entering(c) == call[c].op = "join" /\ call[c].at \in {"create", "seed", "seeding", "document"}
NoJoinCrossesClose == (\E c \in Callers : Entering(c)) => \A d \in Callers : ~Closes(d)

\* What a step may do to the row: nothing, create it, delete it, or write the
\* status of a change that has read it.
LEMMA RowChanges ==
  ASSUME CallsAtStages, [Next]_vars
  PROVE  \/ row' \in {row, Upserted, "absent"}
         \/ \E c \in Callers : Closes(c) /\ row' = "closed" /\ (present' = {} \/ failures' = failures + 1)
         \/ \E c \in Callers : Saves(c) /\ row' = "saved"
<1> USE DEF sessionVars
<1>1. ASSUME NEW c \in Callers, Progress(c), ~(c \in Requests /\ StatusCommitted(c))
      PROVE  row' \in {row, Upserted, "absent"}
  BY <1>1
     DEF Progress, CapacityChecked, StatusChecked, SessionCreated, SessionRead, SnapshotUpserted,
         Mirrored, MirrorWritten, EnterRoom, UpdateApplied, DocumentRead, TransitionChecked,
         SessionEnded, PurgeDrained, RowDeleted, KickMissesOne, KickAudited, KickDone, KickTakes,
         KickTakesAbsent
<1>2. ASSUME NEW c \in Callers, StatusCommitted(c)
      PROVE  \/ row' = row
             \/ Closes(c) /\ row' = "closed" /\ present' = {}
             \/ Saves(c) /\ row' = "saved"
  BY <1>2, StageOps DEF StatusCommitted, EndSession, Closes, Saves, At
<1>3. ASSUME NEW c \in Callers, DatabaseFails(c)
      PROVE  \/ row' \in {row, Upserted, "absent"}
             \/ Closes(c) /\ row' = "closed" /\ failures' = failures + 1
             \/ Saves(c) /\ row' = "saved"
  BY <1>3, StageOps DEF DatabaseFails, Closes, Saves, At
<1>4. CASE UNCHANGED vars
  BY <1>4 DEF vars
<1>5. ASSUME NEW s \in Sockets, Client(s) PROVE row' = row
  BY <1>5 DEF Client, Connect, Disconnect, Facilitate, Join, JoinRefused, Update, Write
<1>6. ASSUME NEW q \in Requests, Request(q) PROVE row' = row
  BY <1>6 DEF Request, Register, Read, Write, ChangeStatus, Purge, Kick
<1>7. CASE LoadDone \/ LoadFails \/ TimerFires \/ Evicted \/ TombstoneExpires
  BY <1>7 DEF LoadDone, LoadFails, TimerFires, Evicted, TombstoneExpires
<1> QED BY <1>1, <1>2, <1>3, <1>4, <1>5, <1>6, <1>7 DEF Next


\* A save or a join that has found the session open.
FoundOpen(r) ==
  \/ r.op = "save" /\ r.at = "commit"
  \/ r.op = "join" /\ r.at \in {"create", "seed", "seeding", "document"}

\* Calls find the session open only when it is.
FindsOpen ==
  \A c \in Callers : FoundOpen(call'[c]) =>
    \/ FoundOpen(call[c]) /\ call'[c].op = call[c].op
    \/ row # "closed" /\ row' = row

LEMMA FindsElsewhere ==
  ASSUME TypeOK, NEW c \in Callers, NEW r, call' = [call EXCEPT ![c] = r],
         FoundOpen(r) => \/ FoundOpen(call[c]) /\ r.op = call[c].op
                         \/ row # "closed" /\ row' = row
  PROVE  FindsOpen
<1>1. call'[c] = r /\ \A d \in Callers \ {c} : call'[d] = call[d]
  BY CallBecomes
<1> QED BY <1>1 DEF FindsOpen

LEMMA FindsStart ==
  ASSUME TypeOK, NEW c \in Callers, NEW op, NEW await, Starts(c, op, await),
         await \notin {"commit", "create", "seed", "seeding", "document"}
  PROVE  FindsOpen
<1>1. ~FoundOpen(Call(op, await, Nobody))
  BY DEF FoundOpen, Call
<1> QED BY <1>1, FindsElsewhere DEF Starts

LEMMA FindsProceed ==
  ASSUME TypeOK, NEW c \in Callers, NEW await, Proceeds(c, await),
         \/ await \notin {"commit", "create", "seed", "seeding", "document"}
         \/ call[c].op = "join" /\ call[c].at \in {"create", "seed", "seeding", "document"}
         \/ call[c].op \notin {"save", "join"}
         \/ row # "closed" /\ row' = row
  PROVE  FindsOpen
<1> DEFINE r == Call(call[c].op, await, Nobody)
<1>1. r.op = call[c].op /\ r.at = await /\ call' = [call EXCEPT ![c] = r]
  BY DEF Call, Proceeds
<1> HIDE DEF r
<1>2. FoundOpen(r) => \/ FoundOpen(call[c]) /\ r.op = call[c].op
                      \/ row # "closed" /\ row' = row
  BY <1>1 DEF FoundOpen
<1> QED BY <1>1, <1>2, FindsElsewhere

LEMMA FindsReturn ==
  ASSUME TypeOK, NEW c \in Callers, Returns(c) \/ Leaves(c) \/ Refused(c)
  PROVE  FindsOpen
<1>1. ~FoundOpen(NoCall)
  BY DEF FoundOpen, NoCall, Call
<1>2. call' = [call EXCEPT ![c] = NoCall]
  BY DEF Returns, Leaves, Refused
<1> QED BY <1>1, <1>2, FindsElsewhere

LEMMA FindsStep ==
  ASSUME TypeOK, CallsAtStages, [Next]_vars
  PROVE  FindsOpen
<1> USE DEF At
<1>0. ASSUME call' = call PROVE FindsOpen
  BY <1>0 DEF FindsOpen
<1>1. CASE UNCHANGED vars
  BY <1>0, <1>1 DEF vars, callVars
<1>2. ASSUME NEW s \in Sockets, Client(s) PROVE FindsOpen
  <2> s \in Callers
    BY DEF Callers
  <2>1. CASE Connect(s) \/ Disconnect(s) \/ Facilitate(s) \/ JoinRefused(s)
    BY <1>0, <2>1 DEF Connect, Disconnect, Facilitate, JoinRefused, callVars
  <2>2. CASE Join(s) \/ Update(s) \/ Write(s)
    BY <2>2, FindsStart DEF Join, Update, Write
  <2> QED BY <1>2, <2>1, <2>2 DEF Client
<1>3. ASSUME NEW q \in Requests, Request(q) PROVE FindsOpen
  <2> q \in Callers
    BY DEF Callers
  <2> QED BY <1>3, FindsStart DEF Request, Register, Read, Write, ChangeStatus, Purge, Kick
<1>4. ASSUME NEW c \in Callers, Progress(c) PROVE FindsOpen
  <2> USE StageOps, FindsProceed, FindsReturn
  <2>1. CASE CapacityChecked(c)
    BY <2>1 DEF CapacityChecked
  <2>2. CASE StatusChecked(c)
    BY <2>2 DEF StatusChecked, sessionVars
  <2>3. CASE SessionCreated(c) \/ SessionRead(c) \/ SnapshotUpserted(c)
    BY <2>3 DEF SessionCreated, SessionRead, SnapshotUpserted
  <2>4. CASE Mirrored(c) \/ MirrorWritten(c)
    BY <2>4 DEF Mirrored, MirrorWritten
  <2>5. CASE EnterRoom(c) \/ UpdateApplied(c) \/ DocumentRead(c)
    BY <2>5 DEF EnterRoom, UpdateApplied, DocumentRead
  <2>6. CASE TransitionChecked(c)
    <3>1. CASE Proceeds(c, "commit") /\ call[c].op = "save" /\ row # "closed"
      BY <2>6, <3>1 DEF TransitionChecked, sessionVars
    <3>2. CASE Proceeds(c, "commit") /\ call[c].op # "save"
      BY <2>6, <3>2 DEF TransitionChecked
    <3> QED BY <2>6, <3>1, <3>2 DEF TransitionChecked
  <2>7. CASE StatusCommitted(c) \/ SessionEnded(c) \/ PurgeDrained(c) \/ RowDeleted(c)
    BY <2>7 DEF StatusCommitted, SessionEnded, PurgeDrained, RowDeleted
  <2>8. CASE KickMissesOne(c) \/ KickAudited(c) \/ KickDone(c)
    BY <2>8 DEF KickMissesOne, KickAudited, KickDone
  <2>9. ASSUME NEW s \in Sockets, KickTakes(c, s) PROVE FindsOpen
    <3>1. ~FoundOpen(Call("kick", "audit", s))
      BY DEF FoundOpen, Call
    <3> QED BY <2>9, <3>1, FindsElsewhere DEF KickTakes
  <2>10. ASSUME NEW s \in Sockets, KickTakesAbsent(c, s) PROVE FindsOpen
    BY <1>0, <2>10 DEF KickTakesAbsent
  <2> QED BY <1>4, <2>1, <2>2, <2>3, <2>4, <2>5, <2>6, <2>7, <2>8, <2>9, <2>10 DEF Progress
<1>5. CASE LoadDone \/ TimerFires \/ Evicted \/ TombstoneExpires
  BY <1>0, <1>5 DEF LoadDone, TimerFires, Evicted, TombstoneExpires, callVars
<1>6. CASE LoadFails
  <2>1. \A c \in Callers : call'[c] = call[c] \/ call'[c] = NoCall
    BY <1>6 DEF LoadFails
  <2>2. ~FoundOpen(NoCall)
    BY DEF FoundOpen, NoCall, Call
  <2> QED BY <2>1, <2>2 DEF FindsOpen
<1>7. ASSUME NEW c \in Callers, DatabaseFails(c) PROVE FindsOpen
  BY <1>7, FindsReturn DEF DatabaseFails
<1> QED BY <1>1, <1>2, <1>3, <1>4, <1>5, <1>6, <1>7 DEF Next

\* A save that is about to be written found the session open, and it still is.
SavesAreOpen == \A c \in Callers : Saves(c) => row # "closed"

LEMMA SavesOpenStep ==
  ASSUME TypeOK, CallsAtStages, OneStatusChange, SavesAreOpen, [Next]_vars
  PROVE  SavesAreOpen'
<1> SUFFICES ASSUME NEW c \in Callers, Saves(c)' PROVE row' # "closed"
  BY DEF SavesAreOpen
<1>1. CASE row # "closed" /\ row' = row
  BY <1>1
<1>2. CASE Saves(c)
  <2>1. row # "closed" /\ \A d \in Callers : ~Closes(d)
    BY <1>2 DEF SavesAreOpen, OneStatusChange, ChangesStatus, Saves, Closes, At
  <2> QED BY <2>1, RowChanges DEF Upserted
<1>3. FoundOpen(call'[c]) /\ call'[c].op = "save"
  BY DEF FoundOpen, Saves, At
<1>4. FoundOpen(call[c]) /\ call[c].op = "save" => Saves(c)
  BY DEF FoundOpen, Saves, At
<1> QED BY <1>1, <1>2, <1>3, <1>4, FindsStep DEF FindsOpen

\* ClosedIsFinal, which two crossing status changes break: as long as no two
\* requests change the status at a time, a closed session is never open again,
\* whatever joins, writes, purges and failing database calls cross.
THEOREM ClosedStaysClosed == Spec /\ []OneStatusChange => ClosedIsFinal
<1>1. Init => SavesAreOpen
  BY DEF Init, SavesAreOpen
<1>2. SavesAreOpen /\ CallsAtStages /\ [Next]_vars => (row = "closed" => row' \in {"closed", "absent"})
  BY RowChanges DEF SavesAreOpen, Upserted
<1>3. IInv /\ TendedInv => TypeOK /\ CallsAtStages
  BY DEF IInv, TendedInv
<1>4. SavesAreOpen /\ TypeOK /\ CallsAtStages /\ OneStatusChange /\ [Next]_vars => SavesAreOpen'
  BY SavesOpenStep
<1> QED BY <1>1, <1>2, <1>3, <1>4, TendedInductive, PTL DEF Spec, ClosedIsFinal

\* Until a database call fails, a closed session is empty and nobody is about to enter it.
ClosedIsLeft == failures = 0 /\ row = "closed" => present = {} /\ \A c \in Callers : ~Entering(c)

\* Only a join that has the document makes its socket present.
LEMMA PresentEnters ==
  ASSUME [Next]_vars, \A c \in Callers : ~Entering(c)
  PROVE  present' \subseteq present
<1>1. ASSUME NEW s \in Sockets, Client(s) PROVE present' \subseteq present
  BY <1>1 DEF Client, Connect, Disconnect, Facilitate, Join, JoinRefused, Update, Write, socketVars
<1>2. ASSUME NEW q \in Requests, Request(q) PROVE present' \subseteq present
  BY <1>2 DEF Request, Register, Read, Write, ChangeStatus, Purge, EndSession, Kick, socketVars
<1>3. ASSUME NEW c \in Callers, Progress(c) PROVE present' \subseteq present
  <2>1. ~EnterRoom(c)
    BY DEF EnterRoom, Entering, At
  <2>2. CASE CapacityChecked(c) \/ StatusChecked(c) \/ SessionCreated(c) \/ SessionRead(c)
             \/ SnapshotUpserted(c) \/ Mirrored(c) \/ MirrorWritten(c) \/ UpdateApplied(c)
             \/ DocumentRead(c)
    BY <2>2
       DEF CapacityChecked, StatusChecked, SessionCreated, SessionRead, SnapshotUpserted, Mirrored,
           MirrorWritten, UpdateApplied, DocumentRead, socketVars
  <2>3. CASE TransitionChecked(c) \/ StatusCommitted(c) \/ SessionEnded(c) \/ PurgeDrained(c) \/ RowDeleted(c)
    BY <2>3
       DEF TransitionChecked, StatusCommitted, EndSession, SessionEnded, PurgeDrained, RowDeleted, socketVars
  <2>4. CASE KickMissesOne(c) \/ KickAudited(c) \/ KickDone(c)
    BY <2>4 DEF KickMissesOne, KickAudited, KickDone, socketVars
  <2>5. ASSUME NEW s \in Sockets, KickTakes(c, s) \/ KickTakesAbsent(c, s) PROVE present' \subseteq present
    BY <2>5 DEF KickTakes, KickTakesAbsent
  <2> QED BY <1>3, <2>1, <2>2, <2>3, <2>4, <2>5 DEF Progress
<1>4. ASSUME NEW c \in Callers, DatabaseFails(c) PROVE present' = present
  BY <1>4 DEF DatabaseFails, socketVars
<1>5. CASE LoadDone \/ LoadFails \/ TimerFires \/ Evicted \/ TombstoneExpires
  BY <1>5 DEF LoadDone, LoadFails, TimerFires, Evicted, TombstoneExpires, socketVars
<1>6. CASE UNCHANGED vars
  BY <1>6 DEF vars, socketVars
<1> QED BY <1>1, <1>2, <1>3, <1>4, <1>5, <1>6 DEF Next

\* Failures are never taken back.
LEMMA FailuresGrow ==
  ASSUME TypeOK, [Next]_vars
  PROVE  failures \in Nat /\ (failures' = failures \/ failures' = failures + 1)
<1>1. failures \in Nat
  BY DEF TypeOK, RoomTypes
<1>2. ASSUME NEW s \in Sockets, Client(s) PROVE failures' = failures
  BY <1>2 DEF Client, Connect, Disconnect, Facilitate, Join, JoinRefused, Update, Write, countVars
<1>3. ASSUME NEW q \in Requests, Request(q) PROVE failures' = failures
  BY <1>3 DEF Request, Register, Read, Write, ChangeStatus, Purge, Kick, countVars
<1>4. ASSUME NEW c \in Callers, Progress(c) PROVE failures' = failures
  BY <1>4
     DEF Progress, CapacityChecked, StatusChecked, SessionCreated, SessionRead, SnapshotUpserted,
         Mirrored, MirrorWritten, EnterRoom, UpdateApplied, DocumentRead, TransitionChecked,
         StatusCommitted, SessionEnded, PurgeDrained, RowDeleted, KickMissesOne, KickAudited,
         KickDone, KickTakes, KickTakesAbsent, countVars
<1>5. ASSUME NEW c \in Callers, DatabaseFails(c) PROVE failures' = failures + 1
  BY <1>5 DEF DatabaseFails
<1>6. CASE LoadDone \/ LoadFails \/ TimerFires \/ Evicted \/ TombstoneExpires
  BY <1>1, <1>6 DEF LoadDone, LoadFails, TimerFires, Evicted, TombstoneExpires, countVars
<1>7. CASE UNCHANGED vars
  BY <1>1, <1>7 DEF vars, countVars
<1> QED BY <1>1, <1>2, <1>3, <1>4, <1>5, <1>6, <1>7 DEF Next

LEMMA ClosedIsLeftStep ==
  ASSUME TypeOK, CallsAtStages, NoJoinCrossesClose, ClosedIsLeft, [Next]_vars
  PROVE  ClosedIsLeft'
<1> SUFFICES ASSUME failures' = 0, row' = "closed" PROVE present' = {} /\ \A c \in Callers : ~Entering(c)'
  BY DEF ClosedIsLeft
<1>1. failures = 0 /\ failures' # failures + 1
  BY FailuresGrow
<1>2. present' = {} /\ \A c \in Callers : ~Entering(c)
  <2>1. CASE row = "closed"
    BY <1>1, <2>1, PresentEnters DEF ClosedIsLeft
  <2>2. CASE row # "closed"
    <3>1. PICK c \in Callers : Closes(c) /\ present' = {}
      BY <1>1, <2>2, RowChanges DEF Upserted
    <3> QED BY <3>1 DEF NoJoinCrossesClose
  <2> QED BY <2>1, <2>2
<1>3. ASSUME NEW c \in Callers, Entering(c)' PROVE FALSE
  <2>1. FoundOpen(call'[c]) /\ call'[c].op = "join"
    BY <1>3 DEF Entering, FoundOpen
  <2>2. ~(FoundOpen(call[c]) /\ call[c].op = "join")
    BY <1>2 DEF Entering, FoundOpen
  <2>3. row # "closed" /\ row' = row
    BY <2>1, <2>2, FindsStep DEF FindsOpen
  <2> QED BY <2>3
<1> QED BY <1>2, <1>3

\* ClosedIsEmpty, which a join that crosses the close breaks: as long as no
\* join that has found the session open is under way when "closed" is written,
\* and no database call has failed, a closed session is empty from the moment
\* it is closed, and whoever tries to enter later stays out.
THEOREM ClosedSessionsAreEmpty == Spec /\ []NoJoinCrossesClose => [](failures = 0 => ClosedIsEmpty)
<1>1. Init => ClosedIsLeft
  BY DEF Init, ClosedIsLeft
<1>2. ClosedIsLeft => (failures = 0 => ClosedIsEmpty)
  BY DEF ClosedIsLeft, ClosedIsEmpty
<1>3. IInv /\ TendedInv => TypeOK /\ CallsAtStages
  BY DEF IInv, TendedInv
<1>4. ClosedIsLeft /\ TypeOK /\ CallsAtStages /\ NoJoinCrossesClose /\ [Next]_vars => ClosedIsLeft'
  BY ClosedIsLeftStep
<1> QED BY <1>1, <1>2, <1>3, <1>4, TendedInductive, PTL DEF Spec
=============================================================================
