---------------------------- MODULE SessionRoom ----------------------------
(***************************************************************************)
(* The room of ONE collaboration session: the sockets in it, the presence  *)
(* list, the eviction timer, the session's row and its lifecycle status,   *)
(* and every handler that touches them: join, edits, disconnect, kick,     *)
(* close, status change, register, state reads and writes, purge.          *)
(*                                                                         *)
(* A handler is a call that advances from one await to the next.  A        *)
(* database query and its answer are one event.  A promise that settles    *)
(* without input or output (a loaded document, fetchSockets of the         *)
(* in-memory adapter) resumes its handler before any other event: Settled  *)
(* guards the events and says that no call is due.                         *)
(*                                                                         *)
(* The document itself is DocumentMemory, which YjsDocuments implements.   *)
(* Guest policy, tickets and rate limits are not part of this module.      *)
(***************************************************************************)
EXTENDS Naturals, FiniteSets

CONSTANTS
  Sockets, User,      \* sockets, and the user each belongs to
  Requests,           \* concurrent HTTP requests and requests of the owner's socket
  Ops,                \* the operations this instance exercises
  MaxClients,         \* limits.maxClientsPerSession
  MaxFailures,        \* bound: database calls that fail
  Nobody, Eviction    \* no socket; the eviction timer's release

AllOps == {"join", "update", "canvas", "facilitate", "register", "read", "write",
           "save", "close", "purge", "kick"}

ASSUME RoomAssumption ==
  /\ Ops \subseteq AllOps
  /\ MaxClients \in Nat \ {0} /\ MaxFailures \in Nat
  /\ Nobody \notin Sockets /\ Eviction \notin Requests
  /\ Sockets \cap Requests = {}

VARIABLES
  row,          \* status of the collab_sessions row, "absent" without one
  tombstone,    \* purgedSessions.has(session)
  connected,    \* socket.connected
  room,         \* Socket.IO room of the session
  present,      \* PresenceRegistry
  excluded,     \* SessionParticipantExclusions.excluded
  facilitated,  \* FacilitationRegistry holds votes or moderation of the session
  timer,        \* DocumentEvictionScheduler.timers.has(session)
  call,         \* the handler of each socket and request: operation and await
  targets,      \* sockets a kick still has to remove
  loaded, loading, releasing, used,    \* the document, see DocumentMemory
  purged,       \* history: purgeDocument has been called
  strayed,      \* history: a canvas update went on after its socket had left the room
  failures

Memory == INSTANCE DocumentMemory WITH Releases <- Requests \cup {Eviction}

memoryVars  == <<loaded, loading, releasing, used>>
socketVars  == <<connected, room, present>>
sessionVars == <<row, tombstone, excluded, facilitated>>
callVars    == <<call, targets>>
countVars   == <<purged, strayed, failures>>
vars == <<sessionVars, socketVars, timer, callVars, memoryVars, countVars>>

Users   == {User[s] : s \in Sockets}
Callers == Sockets \cup Requests

\* A call's operation, the await it stands at and the socket a kick is removing.
Awaits == {"none", "capacity", "checking", "create", "seed", "seeding",
           "session", "document", "snapshot", "mirror", "write", "update",
           "status", "commit", "ending", "draining", "deleting", "audit", "next"}
Call(op, at, on) == [op |-> op, at |-> at, on |-> on]
NoCall == Call("none", "none", Nobody)
Calls == [op : AllOps \cup {"none"}, at : Awaits, on : Sockets \cup {Nobody}]

RoomTypes ==
  /\ row \in {"absent", "active", "saved", "closed"} /\ tombstone \in BOOLEAN
  /\ connected \subseteq Sockets /\ room \subseteq Sockets /\ present \subseteq Sockets
  /\ excluded \subseteq Users /\ facilitated \in BOOLEAN /\ timer \in BOOLEAN
  /\ purged \in BOOLEAN /\ strayed \in BOOLEAN /\ failures \in Nat

CallTypes ==
  call \in [Callers -> Calls] /\ targets \in [Requests -> SUBSET Sockets]

TypeOK == RoomTypes /\ CallTypes /\ Memory!TypeOK

Init ==
  /\ row = "absent" /\ tombstone = FALSE
  /\ connected = {} /\ room = {} /\ present = {}
  /\ excluded = {} /\ facilitated = FALSE /\ timer = FALSE
  /\ call = [c \in Callers |-> NoCall] /\ targets = [q \in Requests |-> {}]
  /\ Memory!Init
  /\ purged = FALSE /\ strayed = FALSE /\ failures = 0

-----------------------------------------------------------------------------
(* The event loop, and what the handlers share.                            *)

AtDocument == {"seed", "document", "mirror", "update"}    \* awaits getDocument
AtDatabase == {"capacity", "checking", "create", "seeding", "session", "snapshot",
               "write", "status", "commit", "deleting", "audit"}

At(c, await) == call[c].at = await
Idle(c) == call[c] = NoCall

Settled ==
  /\ \A c \in Callers : ~At(c, "next") /\ (loaded => call[c].at \notin AtDocument)
  /\ releasing # {} => loaded

Starts(c, op, await) ==
  op \in Ops /\ Settled /\ Idle(c) /\ call' = [call EXCEPT ![c] = Call(op, await, Nobody)]
Proceeds(c, await) == call' = [call EXCEPT ![c] = Call(call[c].op, await, Nobody)]
Returns(c) == call' = [call EXCEPT ![c] = NoCall]

\* scheduleIfEmpty: starts the eviction timer unless it runs or somebody is present.
ScheduleIfEmpty == timer' = (timer \/ present' = {})

\* A row written by an upsert: its status survives, a missing row is created.
Upserted == IF row = "absent" THEN "active" ELSE row

\* Mutant: only a join sees to the timer.
LeavesUnscheduled(c) ==
  /\ Returns(c)
  /\ IF call[c].op = "join" THEN ScheduleIfEmpty ELSE UNCHANGED timer

\* What a handler does on its way out: a join that did not succeed and an
\* HTTP request that used the document see to the eviction timer.
Leaves(c) ==
  /\ Returns(c)
  /\ IF call[c].op \in {"join", "register", "read", "write"}
       THEN ScheduleIfEmpty
       ELSE UNCHANGED timer

\* A call that ends early: only a join still sees to the eviction timer.
Refused(c) ==
  /\ Returns(c)
  /\ IF call[c].op = "join" THEN ScheduleIfEmpty ELSE UNCHANGED timer

-----------------------------------------------------------------------------
(* Sockets.                                                                *)

\* A socket connects.  It stands for a new socket each time.
Connect(s) ==
  /\ Settled /\ s \notin connected /\ Idle(s)
  /\ \A q \in Requests : s \notin targets[q] \cup {call[q].on}
  /\ connected' = connected \cup {s}
  /\ UNCHANGED <<sessionVars, room, present, timer, callVars, memoryVars, countVars>>

\* handleDisconnecting and handleDisconnect; a call of the socket goes on.
Disconnect(s) ==
  /\ Settled /\ s \in connected
  /\ connected' = connected \ {s} /\ room' = room \ {s} /\ present' = present \ {s}
  /\ IF s \in room THEN ScheduleIfEmpty ELSE UNCHANGED timer
  /\ UNCHANGED <<sessionVars, callVars, memoryVars, countVars>>

\* Votes and moderation change, without an await, for a socket in the room.
Facilitate(s) ==
  /\ "facilitate" \in Ops /\ Settled /\ s \in room
  /\ facilitated' = TRUE
  /\ UNCHANGED <<row, tombstone, excluded, socketVars, timer, callVars, memoryVars, countVars>>

-----------------------------------------------------------------------------
(* Joining and registering.                                                *)

\* joinSession up to its first await: the removed may not join, a pending
\* eviction is cancelled, and the client limit is checked.
Join(s) ==
  /\ s \in connected /\ User[s] \notin excluded
  /\ s \in present \/ Cardinality(present) < MaxClients
  /\ Starts(s, "join", "capacity")
  /\ timer' = FALSE
  /\ UNCHANGED <<sessionVars, socketVars, targets, memoryVars, countVars>>

\* A full room refuses the join.
JoinRefused(s) ==
  /\ "join" \in Ops /\ Settled /\ Idle(s)
  /\ s \in connected \ present /\ User[s] \notin excluded
  /\ Cardinality(present) >= MaxClients
  /\ UNCHANGED <<sessionVars, socketVars, memoryVars, callVars, countVars>>
  /\ timer' = FALSE

\* registerSession of the HTTP API.
Register(q) ==
  /\ Starts(q, "register", "capacity")
  /\ UNCHANGED <<sessionVars, socketVars, timer, targets, memoryVars, countVars>>

\* checkSessionCapacity ends; a new session may find the server full, and then
\* the HTTP handler returns at once.
CapacityChecked(c) ==
  /\ Settled /\ At(c, "capacity")
  /\ UNCHANGED <<sessionVars, socketVars, targets, memoryVars, countVars>>
  /\ \/ Proceeds(c, "checking") /\ UNCHANGED timer
     \/ row = "absent" /\ Refused(c)

\* RegisterSessionUseCase: a closed session is refused.
StatusChecked(c) ==
  /\ Settled /\ At(c, "checking")
  /\ UNCHANGED <<sessionVars, socketVars, targets, memoryVars, countVars>>
  /\ IF row = "closed" THEN Refused(c) ELSE Proceeds(c, "create") /\ UNCHANGED timer

\* getOrCreateSession.  The first content of a session is mirrored into the
\* document, then the document is read.
SessionCreated(c) ==
  /\ Settled /\ At(c, "create")
  /\ row' = Upserted
  /\ Memory!Use
  /\ Proceeds(c, "seed") \/ Proceeds(c, "document")
  /\ UNCHANGED <<tombstone, excluded, facilitated, socketVars, timer, targets, countVars>>

\* Mutant: presence without looking at socket.connected again.
EnterRoomUnchecked(s) ==
  /\ call[s].op = "join" /\ At(s, "document") /\ loaded
  /\ room' = room \cup {s} /\ present' = present \cup {s}
  /\ Returns(s) /\ UNCHANGED timer
  /\ UNCHANGED <<sessionVars, connected, targets, memoryVars, countVars>>

\* completeJoin after its last await: presence only for a socket still connected.
EnterRoom(s) ==
  /\ call[s].op = "join" /\ At(s, "document") /\ loaded
  /\ IF s \in connected
       THEN /\ room' = room \cup {s} /\ present' = present \cup {s}
            /\ Returns(s) /\ UNCHANGED timer
       ELSE UNCHANGED <<room, present>> /\ Leaves(s)
  /\ UNCHANGED <<sessionVars, connected, targets, memoryVars, countVars>>

-----------------------------------------------------------------------------
(* Editing and reading.                                                    *)

\* updateYjs: for sockets in the room; no status check.
Update(s) ==
  /\ s \in room /\ Starts(s, "update", "update")
  /\ Memory!Use
  /\ UNCHANGED <<sessionVars, socketVars, timer, targets, countVars>>

\* The update is merged, or refused as too large.
UpdateApplied(s) ==
  /\ At(s, "update") /\ loaded
  /\ Memory!Use \/ UNCHANGED memoryVars
  /\ Returns(s)
  /\ UNCHANGED <<sessionVars, socketVars, timer, targets, countVars>>

\* updateCanvas from the room, and PATCH state over HTTP.
Write(c) ==
  /\ c \in Sockets => c \in room
  /\ Starts(c, IF c \in Sockets THEN "canvas" ELSE "write", "session")
  /\ UNCHANGED <<sessionVars, socketVars, timer, targets, memoryVars, countVars>>

\* GET state, or yjs:state:get and session:snapshot:get of a socket that may access
\* the session: the session's row is read first.
Read(q) ==
  /\ Starts(q, "read", "session")
  /\ UNCHANGED <<sessionVars, socketVars, timer, targets, memoryVars, countVars>>

\* The row is read: a closed session refuses a write.
SessionRead(c) ==
  /\ Settled /\ At(c, "session")
  /\ \/ call[c].op = "read" /\ Memory!Use /\ Proceeds(c, "document")
     \/ /\ call[c].op \in {"canvas", "write"} /\ UNCHANGED memoryVars
        /\ IF row = "closed" THEN Returns(c) ELSE Proceeds(c, "snapshot")
  /\ UNCHANGED <<sessionVars, socketVars, timer, targets, countVars>>

\* upsertSnapshot: a conflict ends the call, else the snapshot is mirrored.
SnapshotUpserted(c) ==
  /\ Settled /\ At(c, "snapshot")
  /\ \/ Returns(c) /\ UNCHANGED <<row, memoryVars, strayed>>
     \/ /\ row' = Upserted /\ Memory!Use /\ Proceeds(c, "mirror")
        /\ strayed' = (strayed \/ c \in Sockets \ room)
  /\ UNCHANGED <<tombstone, excluded, facilitated, socketVars, timer, targets, purged, failures>>

\* mirrorSnapshot once it has the document: a newer snapshot is persisted, an
\* older one changes nothing.
Mirrored(c) ==
  /\ loaded
  /\ \/ At(c, "seed") /\ Memory!Use /\ Proceeds(c, "seeding") /\ UNCHANGED timer
     \/ At(c, "seed") /\ Memory!Use /\ Proceeds(c, "document") /\ UNCHANGED timer
     \/ At(c, "mirror") /\ Memory!Use /\ Proceeds(c, "write") /\ UNCHANGED timer
     \/ At(c, "mirror") /\ UNCHANGED <<memoryVars, present>> /\ Leaves(c)
  /\ UNCHANGED <<sessionVars, socketVars, targets, countVars>>

\* The write mirrorSnapshot awaits; it is skipped while the session is purged.
MirrorWritten(c) ==
  /\ Settled
  /\ \/ /\ At(c, "seeding") /\ Memory!Use
        /\ Proceeds(c, "document") /\ UNCHANGED timer
     \/ At(c, "write") /\ UNCHANGED <<memoryVars, present>> /\ Leaves(c)
  /\ row' = IF tombstone THEN row ELSE Upserted
  /\ UNCHANGED <<tombstone, excluded, facilitated, socketVars, targets, countVars>>

\* register and read over HTTP have the document they answer with.
DocumentRead(q) ==
  /\ call[q].op \in {"register", "read"} /\ At(q, "document") /\ loaded
  /\ UNCHANGED present /\ Leaves(q)
  /\ Memory!Use \/ UNCHANGED memoryVars
  /\ UNCHANGED <<sessionVars, connected, room, targets, countVars>>

-----------------------------------------------------------------------------
(* Ending a session.                                                       *)

\* UpdateSessionStatusUseCase: over HTTP or from the owner's socket.
ChangeStatus(q) ==
  /\ \E op \in {"save", "close"} : Starts(q, op, "status")
  /\ UNCHANGED <<sessionVars, socketVars, timer, targets, memoryVars, countVars>>

\* canTransitionTo, on the status just read: nothing leads out of "closed".
TransitionChecked(q) ==
  /\ Settled /\ At(q, "status")
  /\ IF row = "closed" /\ call[q].op = "save" THEN Returns(q) ELSE Proceeds(q, "commit")
  /\ UNCHANGED <<sessionVars, socketVars, timer, targets, memoryVars, countVars>>

\* endSession up to its await: everyone in the room is disconnected, presence,
\* exclusions and facilitation are cleared and the document is released.
EndSession(q) ==
  /\ connected' = connected \ room /\ room' = {} /\ present' = {}
  /\ timer' = (timer \/ (room # {} /\ present \subseteq room))
  /\ excluded' = {} /\ facilitated' = FALSE
  /\ Memory!StartRelease(q)

\* updateSessionStatus commits; closing ends the session.
StatusCommitted(q) ==
  /\ Settled /\ At(q, "commit")
  /\ IF call[q].op = "close" /\ row # "absent"
       THEN row' = "closed" /\ EndSession(q) /\ Proceeds(q, "ending")
       ELSE /\ row' = IF row = "absent" THEN row ELSE "saved"
            /\ Returns(q)
            /\ UNCHANGED <<excluded, facilitated, socketVars, timer, memoryVars>>
  /\ UNCHANGED <<tombstone, targets, countVars>>

\* PurgeSessionUseCase up to its first await.
Purge(q) ==
  /\ Starts(q, "purge", "ending")
  /\ EndSession(q)
  /\ UNCHANGED <<row, tombstone, targets, countVars>>

\* Mutant: endSession insists on a release that drops the document.
SessionEndedByDrop(q) ==
  /\ At(q, "ending") /\ (loaded => Settled)
  /\ Memory!Drop(q)
  /\ IF call[q].op = "purge"
       THEN tombstone' = TRUE /\ purged' = TRUE /\ Proceeds(q, "draining")
       ELSE UNCHANGED <<tombstone, purged>> /\ Returns(q)
  /\ UNCHANGED <<row, excluded, facilitated, socketVars, timer, targets, strayed, failures>>

\* The release of endSession returns, whatever its result; a purge goes on
\* with purgeDocument, up to its await.
SessionEnded(q) ==
  /\ At(q, "ending") /\ (loaded => Settled)
  /\ Memory!Drop(q) \/ Memory!Keep(q)
  /\ IF call[q].op = "purge"
       THEN tombstone' = TRUE /\ purged' = TRUE /\ Proceeds(q, "draining")
       ELSE UNCHANGED <<tombstone, purged>> /\ Returns(q)
  /\ UNCHANGED <<row, excluded, facilitated, socketVars, timer, targets, strayed, failures>>

\* purgeDocument after its await.
PurgeDrained(q) ==
  /\ Settled /\ At(q, "draining")
  /\ Memory!Discard
  /\ Proceeds(q, "deleting")
  /\ UNCHANGED <<sessionVars, socketVars, timer, targets, countVars>>

RowDeleted(q) ==
  /\ Settled /\ At(q, "deleting")
  /\ row' = "absent"
  /\ Returns(q)
  /\ UNCHANGED <<tombstone, excluded, facilitated, socketVars, timer, targets, memoryVars, countVars>>

\* 60 seconds after the purge began, when it has long returned.
TombstoneExpires ==
  /\ Settled /\ tombstone /\ \A q \in Requests : call[q].op # "purge"
  /\ tombstone' = FALSE
  /\ UNCHANGED <<row, excluded, facilitated, socketVars, timer, callVars, memoryVars, countVars>>

-----------------------------------------------------------------------------
(* Removing a participant.                                                 *)

\* kickClient up to fetchSockets: a participant's removal excludes the user
\* and is about all their sockets, a mere kick about one.
Kick(q, s) ==
  /\ s \in present
  /\ Starts(q, "kick", "next")
  /\ \/ targets' = [targets EXCEPT ![q] = {s}] /\ UNCHANGED excluded
     \/ /\ targets' = [targets EXCEPT ![q] = {t \in present : User[t] = User[s]}]
        /\ excluded' = excluded \cup {User[s]}
  /\ UNCHANGED <<row, tombstone, facilitated, socketVars, timer, memoryVars, countVars>>

\* kickSocket up to its await: presence goes first, then the audit is written.
KickTakes(q, s) ==
  /\ At(q, "next") /\ s \in targets[q] \cap present
  /\ present' = present \ {s}
  /\ targets' = [targets EXCEPT ![q] = @ \ {s}]
  /\ call' = [call EXCEPT ![q] = Call("kick", "audit", s)]
  /\ UNCHANGED <<sessionVars, connected, room, timer, memoryVars, countVars>>

\* A target without presence is disconnected at once ...
KickTakesAbsent(q, s) ==
  /\ At(q, "next") /\ s \in (targets[q] \cap connected) \ present
  /\ connected' = connected \ {s} /\ room' = room \ {s}
  /\ targets' = [targets EXCEPT ![q] = @ \ {s}]
  /\ UNCHANGED <<sessionVars, present, timer, call, memoryVars, countVars>>

\* ... and one that is gone ends the kick with client_not_found.
KickMissesOne(q) ==
  /\ At(q, "next") /\ targets[q] \ (present \cup connected) # {}
  /\ targets' = [targets EXCEPT ![q] = {}]
  /\ UNCHANGED socketVars /\ ScheduleIfEmpty /\ Returns(q)
  /\ UNCHANGED <<sessionVars, memoryVars, countVars>>

\* Mutant: the presence goes, the socket stays in the room.
KickAuditedOnly(q) ==
  /\ Settled /\ At(q, "audit")
  /\ Proceeds(q, "next")
  /\ UNCHANGED <<sessionVars, socketVars, timer, targets, memoryVars, countVars>>

\* The audit is written: the socket leaves the room and is disconnected.
KickAudited(q) ==
  /\ Settled /\ At(q, "audit")
  /\ LET s == call[q].on IN
       /\ connected' = connected \ {s} /\ room' = room \ {s} /\ present' = present \ {s}
  /\ Proceeds(q, "next")
  /\ UNCHANGED <<sessionVars, timer, targets, memoryVars, countVars>>

\* Every target has been taken.
KickDone(q) ==
  /\ At(q, "next") /\ targets[q] = {}
  /\ UNCHANGED socketVars /\ ScheduleIfEmpty /\ Returns(q)
  /\ UNCHANGED <<sessionVars, targets, memoryVars, countVars>>

-----------------------------------------------------------------------------
(* The document's load and eviction, and failures.                         *)

LoadDone ==
  /\ Settled /\ Memory!LoadDone
  /\ UNCHANGED <<sessionVars, socketVars, timer, callVars, countVars>>

\* The load fails, and with it every call that awaits the document.
LoadFails ==
  /\ Settled /\ failures < MaxFailures
  /\ Memory!LoadFails
  /\ LET failed == {c \in Callers : call[c].at \in AtDocument} IN
       /\ call' = [c \in Callers |-> IF c \in failed THEN NoCall ELSE call[c]]
       /\ timer' = (timer \/ (present = {} /\ \E c \in failed : call[c].op = "join"))
  /\ failures' = failures + 1
  /\ UNCHANGED <<sessionVars, socketVars, targets, purged, strayed>>

\* A database call fails, before or after it took effect.
DatabaseFails(c) ==
  /\ Settled /\ failures < MaxFailures
  /\ call[c].at \in AtDatabase
  /\ failures' = failures + 1
  /\ UNCHANGED <<tombstone, excluded, facilitated, socketVars, memoryVars, purged, strayed>>
  /\ \/ UNCHANGED row
     \/ call[c].at \in {"create", "snapshot"} /\ row' = Upserted
     \/ call[c].at \in {"seeding", "write"} /\ ~tombstone /\ row' = Upserted
     \/ At(c, "commit") /\ row # "absent"
          /\ row' = IF call[c].op = "close" THEN "closed" ELSE "saved"
     \/ At(c, "deleting") /\ row' = "absent"
  /\ targets' = [q \in Requests |-> IF q = c THEN {} ELSE targets[q]]
  /\ Refused(c)

\* Mutant: the timer does not ask again whether the room is empty.
TimerFiresBlindly ==
  /\ Settled /\ timer
  /\ timer' = FALSE
  /\ Memory!StartRelease(Eviction)
  /\ UNCHANGED <<sessionVars, socketVars, callVars, countVars>>

\* The eviction timer fires: an empty room's document is released.
TimerFires ==
  /\ Settled /\ timer
  /\ timer' = FALSE
  /\ IF present = {} THEN Memory!StartRelease(Eviction) ELSE UNCHANGED memoryVars
  /\ UNCHANGED <<sessionVars, socketVars, callVars, countVars>>

\* Mutant: a document that was kept is not scheduled again.
EvictedOnce ==
  /\ loaded => Settled
  /\ \/ Memory!Drop(Eviction) /\ facilitated' = FALSE
     \/ Memory!Keep(Eviction) /\ UNCHANGED facilitated
  /\ UNCHANGED <<timer, present, row, tombstone, excluded, connected, room, callVars, countVars>>

\* Its release returns: facilitation ends with the document, and a document
\* that was kept is scheduled again.
Evicted ==
  /\ loaded => Settled
  /\ \/ Memory!Drop(Eviction) /\ facilitated' = FALSE /\ UNCHANGED <<timer, present>>
     \/ Memory!Keep(Eviction) /\ UNCHANGED <<facilitated, present>> /\ ScheduleIfEmpty
  /\ UNCHANGED <<row, tombstone, excluded, connected, room, callVars, countVars>>

-----------------------------------------------------------------------------
Client(s) ==
  \/ Connect(s) \/ Disconnect(s) \/ Facilitate(s)
  \/ Join(s) \/ JoinRefused(s) \/ Update(s) \/ Write(s)

Request(q) ==
  \/ Register(q) \/ Read(q) \/ Write(q) \/ ChangeStatus(q) \/ Purge(q)
  \/ \E s \in Sockets : Kick(q, s)

\* The step of a call that is due or answered.
Progress(c) ==
  \/ CapacityChecked(c) \/ StatusChecked(c) \/ SessionCreated(c)
  \/ SessionRead(c) \/ SnapshotUpserted(c) \/ Mirrored(c) \/ MirrorWritten(c)
  \/ c \in Sockets /\ (EnterRoom(c) \/ UpdateApplied(c))
  \/ c \in Requests /\ ( \/ DocumentRead(c) \/ TransitionChecked(c) \/ StatusCommitted(c)
                         \/ SessionEnded(c) \/ PurgeDrained(c) \/ RowDeleted(c)
                         \/ KickMissesOne(c) \/ KickAudited(c) \/ KickDone(c)
                         \/ \E s \in Sockets : KickTakes(c, s) \/ KickTakesAbsent(c, s) )

Next ==
  \/ \E s \in Sockets : Client(s)
  \/ \E q \in Requests : Request(q)
  \/ \E c \in Callers : Progress(c) \/ DatabaseFails(c)
  \/ LoadDone \/ LoadFails \/ TimerFires \/ Evicted \/ TombstoneExpires

Spec == Init /\ [][Next]_vars

\* The database answers, loads and releases end and the timer fires; nobody
\* has to do anything.  Strong fairness is the event loop's: an answer or a
\* timer waits for the calls that are due, again and again, but is taken up in
\* its turn.
Fairness ==
  /\ \A c \in Callers : SF_vars(Progress(c))
  /\ SF_vars(LoadDone) /\ SF_vars(TimerFires) /\ SF_vars(Evicted)

FairSpec == Spec /\ Fairness

-----------------------------------------------------------------------------
(* What the room promises.                                                 *)

\* The presence list shows nobody who is not connected and in the room
\* (completeJoin: "never register presence for a socket that is already gone
\* (ghost participants)"), whatever fails while joins, kicks, a closing
\* session and disconnects interleave.
NoGhosts == present \subseteq room /\ room \subseteq connected

\* Nobody takes part unseen: whoever is in the room and receives its
\* broadcasts is on the presence list, unless a kick is just removing them.
\* (A kick whose audit record fails gives up there: the socket stays in the
\* room unseen.  So this is said while no database call has failed.)
NobodyHidden ==
  failures = 0 =>
    \A s \in room \ present : \E q \in Requests : At(q, "audit") /\ call[q].on = s

\* While somebody is present the document stays in memory (joinSession:
\* "Cancel a pending eviction before any await so a release cannot race this
\* join"); a purge, which drops it all the same, is the exception.
PresentHaveDocument == ~purged /\ present # {} => loaded

\* Once every call has returned, a document in memory is either used by the
\* room or has an eviction coming: none is left behind.  The exceptions are a
\* request that failed and a canvas update that outlived its socket, which do
\* not see to the eviction timer.
DocumentIsTended ==
  /\ failures = 0 /\ ~strayed
  /\ loaded /\ releasing = {} /\ \A c \in Callers : Idle(c)
  => room # {} \/ timer

\* Votes and moderation are never lost while somebody is present, neither
\* by a late eviction nor by the end of an earlier session.
FacilitationKept == [][facilitated /\ ~facilitated' => present' = {}]_vars

\* When everybody has left for good and all calls have returned, the document
\* and the facilitation state are freed.
QuietIsFreed ==
  <>[](room = {} /\ \A c \in Callers : Idle(c)) => <>[](~loaded /\ ~facilitated)

\* Every call returns: no join, edit, kick, close or purge waits for ever.
CallsReturn == \A c \in Callers : ~Idle(c) ~> Idle(c)

\* The room uses the registry as DocumentMemory allows: the promise that
\* YjsDocuments keeps is the one the handlers here are built on.
KeepsToMemory == Memory!Spec

\* Whatever a call awaits is under way: an answer of the database, the document
\* or its load, the release it has begun.  No eviction, purge or failed load
\* takes away what a handler waits for without ending the handler, and no
\* release is without the call that awaits it.
NothingWaitsInVain ==
  /\ \A c \in Callers : ~Idle(c) =>
       \/ call[c].at \in AtDatabase \cup {"draining", "next"}
       \/ call[c].at \in AtDocument /\ (loaded \/ loading)
       \/ At(c, "ending") /\ c \in Requests \cap releasing
  /\ \A r \in releasing : r = Eviction \/ At(r, "ending")

\* A session that was closed is never open again (CollabSessionEntity
\* canTransitionTo; asyncapi: closing "rejects later session:join requests").
ClosedIsFinal == [][row = "closed" => row' \in {"closed", "absent"}]_vars

\* When a close has returned nobody is left in the session ("Ending a session
\* now ends access: ... connected clients are disconnected, and ... joins ...
\* for ended sessions are rejected").
ClosedIsEmpty ==
  row = "closed" /\ (\A q \in Requests : call[q].op # "close") => present = {}

\* A kick leaves none of the sockets it set out to remove.
KickRemovesAll ==
  [][\A q \in Requests : At(q, "next") /\ call'[q] = NoCall => targets[q] \cap present' = {}]_vars

-----------------------------------------------------------------------------
(* Why: the inductive invariant.                                           *)

\* A release that has seen no access since it began goes on in an empty room.
ReleaseSeesNobody == releasing \ used # {} => present = {}

\* A call that is about to go on with the document in memory has told every
\* release, so that none may drop it before the join is present.
HeldDocumentIsUsed ==
  loaded /\ (\E c \in Callers : call[c].at \in AtDocument) => releasing \subseteq used

\* Only a purge drops a document that is used.
DiscardIsPurge == (\E q \in Requests : At(q, "draining")) => purged

IInv ==
  /\ TypeOK /\ NoGhosts /\ PresentHaveDocument
  /\ ReleaseSeesNobody /\ HeldDocumentIsUsed /\ DiscardIsPurge

\* The operations and the awaits they stand at.
Stages ==
  {"none"} \X {"none"}
  \cup {"join", "register"} \X {"capacity", "checking", "create", "seed", "seeding", "document"}
  \cup {"update"} \X {"update"}
  \cup {"canvas", "write"} \X {"session", "snapshot", "mirror", "write"}
  \cup {"read"} \X {"session", "document"}
  \cup {"save", "close"} \X {"status", "commit"}
  \cup {"close", "purge"} \X {"ending"}
  \cup {"purge"} \X {"draining", "deleting"}
  \cup {"kick"} \X {"next", "audit"}

\* Calls stand where their operation awaits, and canvas updates are sockets'.
CallsAtStages ==
  \A c \in Callers :
    <<call[c].op, call[c].at>> \in Stages /\ (call[c].op = "canvas" => c \in Sockets)

\* A call that will see to the eviction timer: a join, a kick, or a request
\* of the HTTP API from its access to the document on.
Tends(c) ==
  \/ call[c].op \in {"join", "kick"}
  \/ call[c].op = "register" /\ call[c].at \in {"seed", "seeding", "document"}
  \/ call[c].op = "read" /\ call[c].at = "document"
  \/ call[c].op = "write" /\ call[c].at \in {"mirror", "write"}

\* Somebody is present, or sees to an empty room's document.
HasTender ==
  present # {} \/ timer \/ Eviction \in releasing \/ \E c \in Callers : Tends(c)

\* A document in memory, or on its way there, is somebody's to look after.
DocumentHasTender == failures = 0 /\ ~strayed /\ (loaded \/ loading) => HasTender

TendedInv == CallsAtStages /\ NobodyHidden /\ DocumentHasTender
=============================================================================
