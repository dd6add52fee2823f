---------------------------- MODULE YjsDocuments ----------------------------
(***************************************************************************)
(* The life of ONE session's collaborative document in the collaboration   *)
(* server: the in-memory Yjs document of YjsDocumentRegistry, its debounced*)
(* and queued persistence into the session's row, its release from memory  *)
(* and its purge.  Every map of the registry is keyed by the session, and  *)
(* the row is locked per session, so sessions do not interact here.        *)
(*                                                                         *)
(* A Yjs state is the set of the changes merged into it: merging states is *)
(* union, which is what makes Y.applyUpdate and Y.mergeUpdates idempotent  *)
(* and independent of order.                                               *)
(*                                                                         *)
(* The server is one JavaScript process.  A handler runs without           *)
(* interruption up to its next await; an await whose promise has settled   *)
(* resumes before any other event (message, timer, database answer) is     *)
(* taken up.  Resumptions are actions of their own here, and Settled, the  *)
(* guard of every event, says that none is due.                            *)
(***************************************************************************)
EXTENDS Naturals, FiniteSets

CONSTANTS
  Edits,          \* updates clients send (Y.Doc updates, by identity)
  Revisions,      \* revisions of the snapshots mirrored into the document
  Releasers,      \* concurrent calls of releaseDocument: eviction timer, endSession
  Purgers,        \* concurrent calls of PurgeSessionUseCase.execute
  MaxDocChanges,  \* limits.maxYjsDocumentBytes, counted in changes
  MaxWrites,      \* bound: writes queued in a behaviour
  MaxGen,         \* bound: accesses counted by the generation counter
  MaxFailures,    \* bound: database calls that fail
  MaxCrashes      \* bound: process crashes

ASSUME ConstantsAssumption ==
  /\ Revisions \subseteq Nat \ {0}
  /\ Releasers \cap Purgers = {}
  /\ MaxDocChanges \in Nat /\ MaxWrites \in Nat /\ MaxGen \in Nat
  /\ MaxFailures \in Nat /\ MaxCrashes \in Nat

Changes == Edits \cup Revisions
Tasks   == Releasers \cup Purgers

VARIABLES
  \* the live document: docs, documentLoads, snapshotRevisions, generations
  loaded,     \* docs.has(session)
  doc,        \* the changes of the Y.Doc, {} when it is not loaded
  loading,    \* "no", or the state of the store.getSession of a documentLoads entry
  loadData,   \* the state that query has read
  waiting,    \* changes whose handler awaits getDocument
  snapRev,    \* snapshotRevisions.get(session) ?? 0
  gen,        \* generations.get(session) ?? 0
  \* persistence: pendingPersistence, persistenceTimers, persistenceQueues
  pending,    \* the state a debounce timer will write, {} when there is none
  timer,      \* persistenceTimers.has(session)
  writes,     \* queued writes whose promise has not settled
  ticket,     \* number of the newest write
  chain,      \* first write of the chain in persistenceQueues, 0 without entry
  \* the collab_sessions row
  rowExists, row,
  \* purge: purgedSessions, and the running setTimeouts that clear it
  tombstone, expiries,
  \* the calls of releaseDocument and PurgeSessionUseCase
  task,
  \* history: updates acknowledged, and updates whose write failed
  accepted, failed,
  purged,     \* history: a purge has begun since the process started
  failures, crashes

docVars   == <<loaded, doc, loading, loadData, waiting, snapRev>>
saveVars  == <<pending, timer, writes, ticket, chain>>
rowVars   == <<rowExists, row>>
purgeVars == <<tombstone, expiries, purged>>
countVars == <<failures, crashes>>
vars == <<docVars, gen, saveVars, rowVars, purgeVars, task, accepted, failed, countVars>>

Writes == [n : Nat, chain : Nat, state : SUBSET Changes, sent : BOOLEAN]

\* A call: where it awaits, the generation it saw and the write whose promise
\* it awaits (0: a promise that has settled).
Steps == {"idle", "releasing", "purge", "draining", "deleting"}
Calls == [at : Steps, seen : Nat, await : Nat]

Call(at, seen, await) == [at |-> at, seen |-> seen, await |-> await]
NoCall == Call("idle", 0, 0)

DocumentTypes ==
  /\ loaded \in BOOLEAN /\ doc \subseteq Changes
  /\ loading \in {"no", "queried", "read"} /\ loadData \subseteq Changes
  /\ waiting \subseteq Changes
  /\ snapRev \in Nat /\ gen \in Nat

WriteTypes ==
  /\ pending \subseteq Changes /\ timer \in BOOLEAN
  /\ writes \subseteq Writes /\ ticket \in Nat /\ chain \in Nat

CallTypes ==
  /\ task \in [Tasks -> Calls]
  /\ tombstone \in BOOLEAN /\ expiries \subseteq Purgers /\ purged \in BOOLEAN

RowTypes ==
  /\ rowExists \in BOOLEAN /\ row \subseteq Changes
  /\ accepted \subseteq Changes /\ failed \subseteq Changes
  /\ failures \in Nat /\ crashes \in Nat

TypeOK == DocumentTypes /\ WriteTypes /\ CallTypes /\ RowTypes

Init ==
  /\ loaded = FALSE /\ doc = {} /\ loading = "no" /\ loadData = {} /\ waiting = {}
  /\ snapRev = 0 /\ gen = 0
  /\ pending = {} /\ timer = FALSE /\ writes = {} /\ ticket = 0 /\ chain = 0
  /\ rowExists = TRUE /\ row = {}
  /\ tombstone = FALSE /\ expiries = {} /\ purged = FALSE
  /\ task = [t \in Tasks |-> NoCall]
  /\ accepted = {} /\ failed = {}
  /\ failures = 0 /\ crashes = 0

-----------------------------------------------------------------------------
(* The event loop.                                                         *)

\* Mutant: a write is chained behind itself.
FirstAfterItself(w) == \A v \in writes : v.chain = w.chain => w.n < v.n

\* No earlier write of its chain is outstanding.
First(w) == \A v \in writes : v.chain = w.chain => w.n <= v.n

Outstanding(n) == \E w \in writes : w.n = n

\* Mutant: the release does not await its write.
ResumesAtOnce(t) == task[t].at \in {"purge", "releasing", "draining"}

\* The promise a call awaits has settled.
Resumes(t) ==
  \/ task[t].at = "purge"
  \/ task[t].at \in {"releasing", "draining"} /\ ~Outstanding(task[t].await)

Settled ==
  /\ \A t \in Tasks : ~Resumes(t)
  /\ \A w \in writes : First(w) => w.sent
  /\ loaded => waiting = {}

\* Inputs are admitted only while the bounds leave room for all they cause.
Admitted ==
  /\ ticket + Cardinality(waiting) + (IF timer THEN 1 ELSE 0) < MaxWrites
  /\ gen + Cardinality(waiting) + 2 <= MaxGen

-----------------------------------------------------------------------------
(* The steps the registry's methods share.                                 *)

\* getDocument up to its await: touch, then start a load or join the one under way.
GetDocument ==
  /\ gen' = gen + 1
  /\ loading' = IF ~loaded /\ loading = "no" THEN "queried" ELSE loading

\* enqueuePersistence: chain a write behind the newest one.
Enqueue(state) ==
  /\ ticket' = ticket + 1
  /\ chain' = IF chain = 0 THEN ticket + 1 ELSE chain
  /\ writes' = writes \cup
       {[n |-> ticket + 1, chain |-> chain', state |-> state, sent |-> FALSE]}

\* Mutant: a running timer keeps the state it was started with.
ScheduleOnce(state) == pending' = (IF timer THEN pending ELSE state) /\ timer' = TRUE
\* Mutant: the timer is not started.
ScheduleWithoutTimer(state) == pending' = state /\ UNCHANGED timer

\* schedulePersistence: the newest state is written when the timer, started
\* by the first of a burst of updates, fires.
Schedule(state) == pending' = state /\ timer' = TRUE

\* cancelScheduledPersistence.
CancelScheduled == timer' = FALSE /\ pending' = {}

\* Mutants: the write before the newest one, no write.
TailOffByOne == ticket - 1
TailIgnored == 0

\* The write whose promise persistenceQueues holds.
Tail == IF chain = 0 THEN 0 ELSE ticket

\* deleteDocument: writes already chained go on, but later ones do not wait for them.
DeleteDocument ==
  /\ CancelScheduled
  /\ chain' = 0
  /\ loaded' = FALSE /\ doc' = {} /\ snapRev' = 0 /\ gen' = 0
  /\ UNCHANGED <<loading, loadData, waiting, writes, ticket>>

-----------------------------------------------------------------------------
(* Reading and changing the document.                                      *)

\* getEncodedState and getLiveElements: only the access they cause is state.
ReadDocument ==
  /\ Settled /\ Admitted
  /\ GetDocument
  /\ UNCHANGED <<loaded, doc, loadData, waiting, snapRev, saveVars, rowVars,
                 purgeVars, task, accepted, failed, countVars>>

\* applyUpdate or mirrorSnapshot is called; it first awaits getDocument.
Request(c) ==
  /\ Settled /\ Admitted
  /\ c \notin waiting
  /\ waiting' = waiting \cup {c}
  /\ GetDocument
  /\ UNCHANGED <<loaded, doc, loadData, snapRev, saveVars, rowVars, purgeVars,
                 task, accepted, failed, countVars>>

\* The load's query sees the row as it is now.
LoadReads ==
  /\ Settled /\ loading = "queried"
  /\ loading' = "read" /\ loadData' = row
  /\ UNCHANGED <<loaded, doc, waiting, snapRev, gen, saveVars, rowVars, purgeVars,
                 task, accepted, failed, countVars>>

\* The answer arrives: the document is registered and everyone awaiting it resumes.
LoadDone ==
  /\ Settled /\ loading = "read"
  /\ loaded' = TRUE /\ doc' = loadData
  /\ loading' = "no" /\ loadData' = {}
  /\ UNCHANGED <<waiting, snapRev, gen, saveVars, rowVars, purgeVars, task,
                 accepted, failed, countVars>>

\* The query fails: the load rejects, and with it every handler awaiting it.
LoadFails ==
  /\ Settled /\ loading \in {"queried", "read"}
  /\ failures < MaxFailures
  /\ failures' = failures + 1
  /\ loading' = "no" /\ loadData' = {} /\ waiting' = {}
  /\ UNCHANGED <<loaded, doc, snapRev, gen, saveVars, rowVars, purgeVars, task,
                 accepted, failed, crashes>>

\* applyUpdate after its await, up to the acknowledgement: the update is
\* refused when the document would grow too large, else merged and its
\* persistence scheduled.
ApplyUpdate(u) ==
  /\ loaded /\ u \in waiting \cap Edits
  /\ waiting' = waiting \ {u}
  /\ IF Cardinality(doc \cup {u}) > MaxDocChanges
       THEN UNCHANGED <<doc, gen, pending, timer, accepted>>
       ELSE /\ doc' = doc \cup {u}
            /\ gen' = gen + 1
            /\ Schedule(doc')
            /\ accepted' = accepted \cup {u}
  /\ UNCHANGED <<loaded, loading, loadData, snapRev, writes, ticket, chain, rowVars,
                 purgeVars, task, failed, countVars>>

\* mirrorSnapshot after its await: a stale revision changes nothing, a newer
\* one is written into the document and persisted without debounce.
MirrorSnapshot(r) ==
  /\ loaded /\ r \in waiting \cap Revisions
  /\ waiting' = waiting \ {r}
  /\ IF r <= snapRev
       THEN UNCHANGED <<doc, snapRev, gen, saveVars, accepted>>
       ELSE /\ snapRev' = r
            /\ gen' = gen + 1
            /\ doc' = doc \cup {r}
            /\ CancelScheduled
            /\ Enqueue(doc')
            /\ accepted' = accepted \cup {r}
  /\ UNCHANGED <<loaded, loading, loadData, rowVars, purgeVars, task, failed, countVars>>

-----------------------------------------------------------------------------
(* Persistence.                                                            *)

\* The debounce timer of schedulePersistence fires.
DebounceFires ==
  /\ Settled /\ timer
  /\ timer' = FALSE /\ pending' = {}
  /\ IF pending = {} THEN UNCHANGED <<writes, ticket, chain>> ELSE Enqueue(pending)
  /\ UNCHANGED <<docVars, gen, rowVars, purgeVars, task, accepted, failed, countVars>>

\* A queued write's turn: it is dropped if the session is being purged, else sent.
StartWrite(w) ==
  /\ ~w.sent /\ First(w)
  /\ writes' = (writes \ {w}) \cup (IF tombstone THEN {} ELSE {[w EXCEPT !.sent = TRUE]})
  /\ UNCHANGED <<docVars, gen, pending, timer, ticket, chain, rowVars, purgeVars, task,
                 accepted, failed, countVars>>

\* upsertYjsState: merged with the stored state; an absent row is created.
Upsert(w) == rowExists' = TRUE /\ row' = row \cup w.state

\* The transaction commits and its answer settles the write's promise.
WriteCommits(w) ==
  /\ Settled /\ w.sent
  /\ Upsert(w)
  /\ writes' = writes \ {w}
  /\ failed' = failed \ w.state
  /\ UNCHANGED <<docVars, gen, pending, timer, ticket, chain, purgeVars, task,
                 accepted, countVars>>

SomeWriteCommits == \E w \in writes : WriteCommits(w)

\* The write is reported as failed, whether or not it was committed.  The
\* error is logged; nothing is scheduled again.
WriteFails(w) ==
  /\ Settled /\ w.sent
  /\ failures < MaxFailures
  /\ failures' = failures + 1
  /\ Upsert(w) \/ UNCHANGED rowVars
  /\ writes' = writes \ {w}
  /\ failed' = failed \cup (w.state \ row')
  /\ UNCHANGED <<docVars, gen, pending, timer, ticket, chain, purgeVars, task,
                 accepted, crashes>>

-----------------------------------------------------------------------------
(* Releasing and purging.                                                  *)

\* releaseDocument up to its await.  Called by the eviction timer and by
\* endSession, and by endSession as the first half of PurgeSessionUseCase.
StartRelease(t) ==
  /\ Settled
  /\ task[t].at = "idle" /\ t \notin expiries
  /\ CancelScheduled
  /\ IF pending = {} THEN UNCHANGED <<writes, ticket, chain>> ELSE Enqueue(pending)
  /\ task' = [task EXCEPT ![t] =
       Call("releasing", gen, IF pending = {} THEN Tail ELSE ticket + 1)]
  /\ UNCHANGED <<docVars, gen, rowVars, purgeVars, accepted, failed, countVars>>

\* Mutant: only what is scheduled keeps the document, not an access.
UsedSinceScheduled(t) == pending # {} \/ timer \/ loading # "no"

\* The document was used while the release awaited its write.
UsedSince(t) ==
  gen # task[t].seen \/ pending # {} \/ timer \/ loading # "no"

\* releaseDocument after its await.
FinishRelease(t) ==
  /\ task[t].at = "releasing" /\ Resumes(t)
  /\ IF UsedSince(t) THEN UNCHANGED <<docVars, gen, saveVars>> ELSE DeleteDocument
  /\ task' = [task EXCEPT ![t] =
       IF t \in Purgers THEN Call("purge", 0, 0) ELSE NoCall]
  /\ UNCHANGED <<rowVars, purgeVars, accepted, failed, countVars>>

\* purgeDocument up to its await.
StartPurge(p) ==
  /\ task[p].at = "purge"
  /\ tombstone' = TRUE /\ expiries' = expiries \cup {p} /\ purged' = TRUE
  /\ CancelScheduled
  /\ task' = [task EXCEPT ![p] = Call("draining", 0, Tail)]
  /\ UNCHANGED <<docVars, gen, writes, ticket, chain, rowVars, accepted, failed, countVars>>

\* purgeDocument after its await; then the row's deletion is sent.
FinishPurge(p) ==
  /\ task[p].at = "draining" /\ Resumes(p)
  /\ DeleteDocument
  /\ task' = [task EXCEPT ![p] = Call("deleting", 0, 0)]
  /\ UNCHANGED <<rowVars, purgeVars, accepted, failed, countVars>>

\* deleteSession commits, or fails.
DeleteRow(p) ==
  /\ Settled /\ task[p].at = "deleting"
  /\ rowExists' = FALSE /\ row' = {}
  /\ task' = [task EXCEPT ![p] = NoCall]
  /\ UNCHANGED <<docVars, gen, saveVars, purgeVars, accepted, failed, countVars>>

DeleteRowFails(p) ==
  /\ Settled /\ task[p].at = "deleting"
  /\ failures < MaxFailures
  /\ failures' = failures + 1
  /\ task' = [task EXCEPT ![p] = NoCall]
  /\ UNCHANGED <<docVars, gen, saveVars, rowVars, purgeVars, accepted, failed, crashes>>

\* The timer of one purge ends: it clears the tombstone whoever set it last.
\* Its 60 seconds outlast the purge that started it, which makes two short
\* database calls.
TombstoneExpires(p) ==
  /\ Settled /\ p \in expiries /\ task[p].at = "idle"
  /\ expiries' = expiries \ {p} /\ tombstone' = FALSE
  /\ UNCHANGED <<docVars, gen, saveVars, rowVars, purged, task, accepted, failed, countVars>>

-----------------------------------------------------------------------------
\* The process dies and starts again.  A statement already sent may still
\* take effect; everything kept in memory is gone.
Crash ==
  /\ Settled /\ crashes < MaxCrashes
  /\ crashes' = crashes + 1
  /\ \/ UNCHANGED rowVars
     \/ \E w \in writes : w.sent /\ Upsert(w)
     \/ (\E p \in Purgers : task[p].at = "deleting") /\ rowExists' = FALSE /\ row' = {}
  /\ loaded' = FALSE /\ doc' = {} /\ loading' = "no" /\ loadData' = {} /\ waiting' = {}
  /\ snapRev' = 0 /\ gen' = 0
  /\ pending' = {} /\ timer' = FALSE /\ writes' = {} /\ chain' = 0
  /\ tombstone' = FALSE /\ expiries' = {} /\ purged' = FALSE
  /\ task' = [t \in Tasks |-> NoCall]
  /\ accepted' = accepted \cap row' /\ failed' = {}
  /\ UNCHANGED <<ticket, failures>>

Resume ==
  \/ \E u \in Edits : ApplyUpdate(u)
  \/ \E r \in Revisions : MirrorSnapshot(r)
  \/ \E w \in writes : StartWrite(w)
  \/ \E t \in Tasks : FinishRelease(t)
  \/ \E p \in Purgers : StartPurge(p) \/ FinishPurge(p)

Event ==
  \/ ReadDocument
  \/ \E c \in Changes : Request(c)
  \/ LoadReads \/ LoadDone \/ LoadFails
  \/ DebounceFires
  \/ \E w \in writes : WriteCommits(w) \/ WriteFails(w)
  \/ \E t \in Tasks : StartRelease(t)
  \/ \E p \in Purgers : DeleteRow(p) \/ DeleteRowFails(p) \/ TombstoneExpires(p)
  \/ Crash

Next == Resume \/ Event

Spec == Init /\ [][Next]_vars

\* Timers fire, promises resume and the database answers; no call, failure
\* or crash ever has to happen.
Fairness ==
  /\ WF_vars(Resume)
  /\ WF_vars(LoadReads) /\ WF_vars(LoadDone)
  /\ WF_vars(DebounceFires)
  /\ WF_vars(SomeWriteCommits)
  /\ \A p \in Purgers : WF_vars(DeleteRow(p))

FairSpec == Spec /\ Fairness

-----------------------------------------------------------------------------
(* What the registry promises.                                             *)

Queued == UNION {w.state : w \in writes}

\* The live document never misses a change that was accepted: whoever reads
\* it, in particular after an eviction and a reload, sees every accepted
\* change except those whose only write failed.  (getDocument against
\* releaseDocument: a reload must not read the row before a queued write.)
LiveDocumentComplete ==
  ~purged /\ loaded => accepted \ failed \subseteq doc

\* A document leaves memory only once the row holds all that was accepted
\* (releaseDocument: "so late updates are never discarded").
ReleasedIsStored ==
  ~purged /\ ~loaded => accepted \ failed \subseteq row

\* Whatever the row lacks of the live document has a write coming, debounced
\* or queued, unless its last write failed (schedulePersistence,
\* mirrorSnapshot's cancellation of the pending write).
UnsavedIsScheduled ==
  ~purged /\ loaded => doc \subseteq row \cup pending \cup Queued \cup failed

\* Once a purge has deleted the row, no write of the registry creates it
\* again before the purge's minute is over (purgeDocument: "later persistence
\* for this session is blocked for a grace period").
PurgedRowStaysGone ==
  [][(/\ ~rowExists /\ expiries # {}
      /\ \A p \in Purgers : task[p].at = "idle")
     => ~rowExists']_vars

\* Every accepted change reaches the row, unless its write fails, the session
\* is purged or the process dies first: neither a release, nor a mirrored
\* snapshot that cancels the debounce timer, nor the chain of queued writes
\* leaves it behind.
AcceptedIsStored ==
  \A c \in Changes : c \in accepted ~> c \in row \/ c \in failed \/ c \notin accepted \/ purged

\* What makes it so: at every moment before a purge an accepted change is in the
\* row, in a queued write, or in the state that a running debounce timer will
\* write, unless its last write failed.
AcceptedIsOnItsWay ==
  ~purged => accepted \subseteq row \cup failed \cup Queued \cup (IF timer THEN pending ELSE {})

\* Whatever is begun goes on by itself, through purges and crashes too: who
\* awaits the document has it or a load of it (no release and no purge drops
\* it between a load and the handlers that awaited the load), what is to be
\* persisted has a timer, and once all promises are taken up every queued
\* write is behind one of its own chain that the database is working on.
NothingWaitsInVain ==
  /\ waiting # {} => loaded \/ loading # "no"
  /\ pending # {} => timer
  /\ Settled => \A v \in writes : \E w \in writes : w.chain = v.chain /\ w.n <= v.n /\ w.sent

\* Every release and every purge returns: no call waits for ever on a write
\* that waits on it.
CallsReturn == \A t \in Tasks : task[t].at # "idle" ~> task[t].at = "idle"

-----------------------------------------------------------------------------
(* The inductive invariant behind the first three.  Until a purge begins:   *)

\* Writes are numbered in the order they were queued.
Numbered ==
  /\ \A w \in writes : w.n <= ticket
  /\ \A v, w \in writes : v.n = w.n => v = w
  /\ \A t \in Tasks : task[t].await <= ticket

\* They settle in that order: one chain, its oldest write in flight, and no
\* newer write settled.
InOrder ==
  /\ \A w \in writes : chain # 0 /\ w.chain = chain
  /\ \A w \in writes : w.sent => First(w)
  /\ \A w \in writes : \A n \in w.n .. ticket : Outstanding(n)

\* The generation a release saw is not from the future ...
SeenBefore ==
  \A t \in Tasks :
    task[t].at = "releasing" /\ (loaded \/ Outstanding(task[t].await))
      => task[t].seen <= gen

\* ... and while it is still current nothing was scheduled or queued behind
\* the write the release awaits.
QuietSinceSeen ==
  \A t \in Tasks :
    task[t].at = "releasing" /\ task[t].seen = gen
      => pending = {} /\ \A w \in writes : w.n <= task[t].await

\* Nothing is scheduled or queued for a document that is not in memory, and
\* nothing that is not part of it.
OnlyOfDocument ==
  /\ pending \subseteq doc
  /\ \A w \in writes : loaded /\ w.state \subseteq doc

\* A load holds what the row holds.
LoadIsCurrent == loading = "read" => loadData = row

\* While handlers are due that awaited a load, no release or purge is, and
\* none awaits a write that has not begun.
HandlersGoFirst == loaded /\ waiting # {} => \A t \in Tasks :
  /\ ~Resumes(t)
  /\ task[t].at \in {"releasing", "draining"} =>
       \A w \in writes : ~w.sent /\ First(w) => task[t].await < w.n

NoPurgeYet ==
  /\ ~tombstone
  /\ \A t \in Tasks : task[t].at \in {"idle", "releasing", "purge"}

\* What holds until a purge begins.
Orderly ==
  /\ NoPurgeYet /\ InOrder /\ SeenBefore /\ QuietSinceSeen
  /\ OnlyOfDocument /\ LoadIsCurrent
  /\ LiveDocumentComplete /\ ReleasedIsStored /\ UnsavedIsScheduled

IInv ==
  /\ TypeOK
  /\ loading # "no" => ~loaded
  /\ ~loaded => doc = {}
  /\ Numbered
  /\ ~purged => Orderly
=============================================================================
