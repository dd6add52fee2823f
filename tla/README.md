# Sketchblock: specifications and proofs

Sketchblock is a collaborative whiteboard: a Next.js web application, a NestJS
and Socket.IO collaboration server ("collab server"), two PostgreSQL databases
and the browser. This directory holds TLA+ modules of its collaborative core,
the TLC configurations that check them on small instances, and TLAPS proofs of
their main properties for every instance. `PROJECT.json` maps each definition to
the source lines it models.

Paths below are relative to `src/`. `CS` is
`apps/collab-server/src/sketchblock-collab`, `SH` is
`apps/collab-server/src/shared`, `WEB` is `apps/web/src`.

## 1. The system

One web instance and one collab instance run
(`website/docs/operations/configuration.md`); each is one JavaScript process, and
each has a PostgreSQL database of its own. What interleaves is therefore the
handlers of one process between their awaits, the two processes with each other,
and both with the browsers.

| Component | State | Operations | Correct when |
|---|---|---|---|
| Yjs document registry (`CS/infrastructure/persistence/yjs-document.registry.ts`) | live documents, loads, generations, debounce timers, write queues, tombstones | load, apply update, mirror snapshot, read, debounced write, release, purge | no accepted change is lost by a release, a reload or a reordered write; a purged row stays gone |
| Realtime gateway (`CS/infrastructure/realtime/realtime.gateway.ts`) | Socket.IO rooms, per-socket data, what its registries hold | connect, join, edit, snapshot, cursor, facilitation, kick, close, disconnect | presence, room and sockets agree; those who were removed or whose session ended are out |
| Presence, eviction, session connections, exclusions (same directory) | presence per session, one timer per empty session, excluded actors, guest policy | register, remove, schedule, cancel, evict, end session | a used document stays; an unused one goes |
| Use cases (`CS/application/use-cases`) | none | register, read state, apply update, upsert snapshot, change status, close, purge, remove client | a transition is decided on the status it replaces |
| Sessions HTTP API (`CS/infrastructure/http/sessions.controller.ts`) | chain of guest-policy updates | register, inspect, state, status, guest access, kick, purge, export | the same rules as the socket events |
| Session store (`CS/infrastructure/persistence/postgres-session.store.ts`) | `collab_sessions` rows: status, snapshot with revision, Yjs state, audit | row-locked transactions | an upsert keeps the status; a stale snapshot is a conflict |
| Facilitation (`CS/domain/services/facilitation-state.ts`, `facilitation.registry.ts`) | moderation and votes per session, in memory | update, toggle a vote, clear | the vote limit; votes last as long as participants |
| Board materializer (`CS/domain/services/board-materializer.ts`) | none | Yjs elements to a board document | order and deletions are kept |
| Access policy and tickets (`session-access-policy.ts`, `collab-ticket.verifier.ts`) | none | verify, authorise | a ticket is good for its session, role and lifetime |
| Rate limits (`SH/infrastructure/security`) | fixed windows per key | consume | never more than the limit in a window; bounded bookkeeping |
| Browser hook (`WEB/features/home/hooks/useCollabPresence.ts`, `useExcalidrawYjs.ts`) | one merged pending update, retry timer, socket | queue, flush, acknowledge, retry, reconnect | every local edit reaches the server |
| Editor binding (`WEB/features/home/hooks/useExcalidrawYjs.ts`, `organisms/ExcalidrawEditor.tsx`) | Excalidraw scene, `Y.Doc`, flags that suppress changes, checkpoint timer and revision | draw, write the scene, apply a remote update, push a checkpoint, save | no element of the board is lost, pages that have settled agree |
| Board editor page (`WEB/features/home/templates/HomeTemplate.tsx`) | list, open drawing, save state, calls under way | refresh, open, save, reload, switch repository, restore | a save overwrites what the page showed; unsaved work is shown as such |
| Moderation and following (`useCollabPresence.ts`, `useFollowOwner.ts`, `SessionModerationBar.tsx`) | moderation and votes shown, opt-out, throttle | switch, vote, scroll, follow | every page comes to show the room's state; followers see the host's place |
| Session lifecycle of the web app (`WEB/app/api/sessions`, `adhoc-sessions`, `WEB/lib/server/database/app-session-store.ts`) | session row: status, base revision, expiry, purge date; invitations | create, list, save, status, state, delete, purge | the two servers' rows agree; a save detects foreign changes and nothing else |
| Invites, guests, grants (`session-invite-store.ts`, `session-guest-store.ts`, `WEB/lib/server/auth`, `WEB/app/api/auth/socket-token`) | links, participants, guests, cookies, tickets | create, rotate, claim, remove, switch guests, issue tickets | whoever was removed or switched off stays out |
| Boards and drawing storage (`WEB/lib/server/database/workspace-board-store.ts`, `WEB/lib/server/workspace`, `WEB/lib/server/github`) | boards and their versions; the file on GitHub | create, open, save, restore, rename, delete | no version is lost or rewritten |
| Repositories (`WEB/lib/server/database/repository-store.ts`) | records, selections, identities | connect, list, activate, disconnect, scan | one active repository, and one's own |
| Accounts (`WEB/lib/server/database/instance-owner-store.ts`, `user-store.ts`, `WEB/app/api/auth`) | accounts, login sessions, cookies | setup, login, logout, password, manage, connect GitHub | logins end with the password they were opened with; one owner |
| Audit store, galleries, dialogs, marketing pages | | | not modelled, section 7 |

How they interact. A browser fetches a signed ticket from the web app
(`WEB/app/api/auth/socket-token/route.ts`), connects a socket with it and joins.
The gateway runs each event in one handler and each handler calls use cases, the
document registry and the store; it shares the registries (presence, eviction,
exclusions, facilitation, documents) with the HTTP controller, which the web app
calls with a server ticket (`WEB/lib/server/collab/collab-server-client.ts`) to
register a session, read or write its state, change its status, remove a client
or purge it. The document registry writes to the store behind a debounce timer.
The eviction scheduler releases documents of empty sessions. A save of a session
reads the collab state, writes the drawing to its storage and then updates both
databases. Between the two servers there is no transaction and no queue: a call
that is not answered in time may or may not have taken effect.

What is hard to test in it, each at its line in `PROJECT.json` under `hazards`:
releases of documents that race loads, updates and writes; a browser whose
acknowledgement is lost, late or overtaken by a newer edit; joins that race a
close, a removal, an eviction or a purge across their awaits; a disconnect in the
middle of a join or a kick; checks whose answer is stale when it is used; a purge
against queued writes and timers; a failing database call in the middle of a
handler; a crash between acknowledgement and write; calls and documents that
might be left behind for ever; API requests of the web app that cross between
their awaits, each holding rows it read before; a scrypt derivation during which
the account changes; revisions in React state that are older or newer than what
the canvas shows; drawing in the moment a remote update replaces the scene;
first changes of two pages that both seed the document; moderation broadcasts
that cross joins and reconnects.

## 2. How a JavaScript server is modelled

A handler is a *call* that stands at one of its awaits; an action is everything
it does from one await to the next, including the calls of other components that
happen without an await. Two kinds of await are told apart.

- An await of a database query, a timer or a message is ended by an *event*.
- An await whose promise settles without input or output (a document that is in
  memory, `fetchSockets` of the in-memory adapter, a write queue whose write has
  settled) resumes in the same turn of the event loop, before any further event.
  Every event therefore has the guard `Settled`: no call is due.

A query and its answer are one event, placed where the transaction commits. A
query can fail before or after it took effect. Identities (edits, sockets, users,
requests) are model values. A Yjs state is the set of changes merged into it:
union is what makes `Y.applyUpdate` and `Y.mergeUpdates` idempotent and
independent of order. Only `LiveCanvas` looks into it: there a document is a set of
writes of elements, and of concurrent writes the one of the greater client id
wins, as in a Yjs map. One session is modelled: every map of the server is keyed
by session and every row is locked by itself; the limits that count sessions are
a nondeterministic answer.

The web application is read the same way. A route is a *request* that stands at
one of its awaits with what it has read; a transaction or a call of the collab
server and its answer are one step; a request may end at any await. Of a call
that fails without an answer both outcomes are steps.

Variables marked "history" guard nothing. Some of them name the behaviours a
property does not promise, because the code as it is does not keep it there; each
is a race the model exhibits, and section 6 lists them.

## 3. Modules

The collab server and its client:

- `YjsDocuments` models the document registry together with the writes of the
  session's row it makes. Its variables are the registry's maps at one session
  (`docs`, `documentLoads`, `generations`, `snapshotRevisions`,
  `pendingPersistence`, `persistenceTimers`, `persistenceQueues`,
  `purgedSessions`), the row, and the calls of `releaseDocument` and of the purge
  use case. `GetDocument`, `Schedule`, `Enqueue`, `CancelScheduled` and
  `DeleteDocument` are the private methods; the actions are the handlers' steps:
  `Request`/`ApplyUpdate`/`MirrorSnapshot`, `ReadDocument`,
  `LoadReads`/`LoadDone`/`LoadFails`, `DebounceFires`, `StartWrite`,
  `WriteCommits`/`WriteFails`, `StartRelease`/`FinishRelease`,
  `StartPurge`/`FinishPurge`/`DeleteRow`/`TombstoneExpires`, `Crash`.
- `DocumentMemory` is the abstract specification of the registry for those who
  only need to know whether a document is in memory: an access loads it, a
  release drops it unless it has been used since the release began, a purge drops
  it whoever uses it.
- `YjsMemory` states that `YjsDocuments` implements `DocumentMemory`; the
  refinement mapping takes a release as "used" when the generation is not the one
  it began with.
- `SessionRoom` models the room of a session: sockets, presence, exclusions,
  facilitation, eviction timer, row and status, and every handler of the gateway
  and the controller that touches them. It takes the document from
  `DocumentMemory`, so what it shows holds of every registry that implements it.
  `call[c].at` is the await a call stands at. `Join`, `CapacityChecked`,
  `StatusChecked`, `SessionCreated`, `Mirrored`, `MirrorWritten` and `EnterRoom`
  are the steps of `joinSession`, `checkSessionCapacity`, `RegisterSessionUseCase`
  and `completeJoin`; `EndSession` is `SocketSessionConnections.endSession`;
  `Kick` to `KickDone` are `kickClient` and `kickSocket`; `TimerFires` and
  `Evicted` are the eviction scheduler.
- `ClientSync` models the way of a drawing from one browser to the server and to
  the others. Per client it has the editor's `Y.Doc` (`doc`), the 50 ms buffer
  (`buffer`, `pendingLocalUpdates`), the two fields of React state the editor
  reads (`base`, `remote`) and whether the document exists yet (`ready`), the
  variables of `useCollabPresence` as one record
  (`hook`: pending update and version, flight, `flushRequested`, retry timers and
  attempts, `joined`, the socket and what was written to it) and the messages on
  their way (`inbox`); of the server, its document, the room and the editing lock.
  `EditorReady` is the effect that creates the document when the editor and its API
  have started; `Render` and `RenderEarly` are the effect that merges a remote update,
  with the document and before it.
  `Flush`, `Settle`, `Acked`, `Limited`, `Locked`, `Rejected`, `TimedOut`,
  `Joined` and `Queued` are the hook's functions and callbacks, written as
  functions on that record; the actions apply them when the event happens.
- `Facilitation` models moderation, votes and "everyone follows me" between the
  pages and the server: `ModerationUpdate`, `VoteToggle`, `ViewportUpdate` are the
  gateway's handlers with `facilitation-state.ts`, `Receive` with `ShowModeration`
  and `ShowViewport` the page's callbacks with `useFollowOwner`, `Moderate`, `Vote`,
  `Scroll`, `Flush` and `ToggleFollow` what the moderation bar, the overlay and the
  throttle send. `mail` and `outbox` are the two directions of a connection.
- `LiveCanvas` models what is drawn: per page the scene of the canvas, its `Y.Doc`
  and what is under way, on the server the document, the checkpoint and the saved
  board. `DrawOn` is `onChange` with `applyLocalScene`, `Apply` the effect that
  merges a remote update and replaces the scene, `Push...` the checkpoint with its
  retry, `SaveMaterialized` the owner's save with `materialize`.

The web application:

- `DrawingStorage` models where boards are kept, behind one port: boards of the
  instance workspace with their versions, and a file on GitHub, whose sha is a
  function of its content.
- `SessionLifecycle` extends it by the session rows of both servers and by every
  route of a session's life: `Create...`, `Save...`, `Status...`, `List...`,
  `Delete...`, `Ensure...`, `Write...`, `Purge...`, and the board routes that touch
  sessions (`Rename...`, `DeleteBoard...`). `request[r].at` is the await. A status
  change on the collab server is read and admitted (`Asked`) in one step and written
  in another (`MoveEnds`); in between it is in `moving`, even when the request that
  sent it has given up (`Awaits`).
- `SessionAccess` models who gets into one session: links, claims, tickets and the
  removal of participants in the web app; connection, exclusion, guest policy with
  its audit trail and sweep in the collab server; a join in its three steps.
- `LocalAccounts` models setup, login, logout, passwords, account management and
  the GitHub connection, with the cookies a request was sent with and those its
  answer sets.
- `Repositories` models connection, activation, disconnection and scans of
  repositories by two users; `Locked` is the row lock of a disconnection between
  its statements.
- `BoardEditor` models one tab of the board editor, with each API call sent,
  served and answered in separate steps, while another tab switches the active
  repository and others write the board. `Touch` is the capture handlers that set
  `hasUserInteractedRef` (`touched`), `QuietEnds` the end of the suppression after an
  initial scene was put on an empty canvas (`quiet`); `Draw` reports a change only if
  it is `Noticed`, and `SaveOver` forgets the touch and the report.

- `MCYjsDocuments`, `MCYjsMemory`, `MCSessionRoom`, `MCClientSync` give TLC
  symmetry sets, the function from sockets to users, and the clients with what
  they draw and what disturbs them. `MCRoom` runs `SessionRoom` in three scopes,
  `MCWeb` the eight modules above in twenty: a scope says which component moves
  and which of its operations cross each other. The components of `MCWeb` share
  no variable, so each state is one of one component (`ScopeView`),
  the editor's without a history that `editor_reload` alone reads.
- `YjsDocumentsProofs`, `SessionRoomProofs`, `ClientSyncProofs`,
  `LiveSessionProofs` (`Facilitation` and `LiveCanvas`), `LocalAccountsProofs`
  (`LocalAccounts` and `Repositories`), `SessionAccessProofs`,
  `SessionLifecycleProofs` and `DrawingSavesProofs` (`DrawingStorage`, the saves of
  `SessionLifecycle`, `BoardEditor`) hold the theorems.

What `SessionRoom` abstracts. A socket that connects again stands for a new
socket. A socket runs one handler at a time (the browser waits for its
acknowledgements); requests overlap freely. Whether a new session has content to
seed its document with is nondeterministic, and so is the answer of the limit on
sessions. "save" stands for every status change other than a close: the code
treats `active` and `saved` alike. A release may last as long as any event, the
longest a queue of writes can hold it up. The debounced writes themselves are in
`YjsDocuments`; the row's existence follows only the writes that the room's calls
await.

What `ClientSync` abstracts. The server applies an update in one step: it awaits
only `getDocument`, and a socket in the room has its document in memory
(`PresentHaveDocument` of `SessionRoom`). A message that waits for its
acknowledgement carries the mark `awaited`; a timeout removes the mark, because
Socket.IO no longer delivers that answer, while the update itself still arrives.
`Weight` names the disturbances an instance exercises and what each costs of
`MaxFaults`; whatever is not in it does not happen. A browser connects again for
ever, where the code stops after eight attempts in a row; a closed session and a
removal are in `SessionRoom`. Elements that two browsers change at once, the
seeding of a new document and the editor's suppression of local changes are in
`LiveCanvas`. The editor starts after the hook, for which `EditorReady` stands, and
draws only then. `skipped` says that the present value of `remote` was read before
there was a document and will not be read again. `halt` and `lost` are history
variables.

What the others abstract. In `Facilitation` the answer of a join holds the state of
the moment the socket enters the room; a timer runs or does not; reactions, the
participants' own scrolling and the limiter of viewport updates are left out; that
the throttle has fired before "follow me" is off and on again is its 100 ms against
two clicks. `LiveCanvas` takes the way of an update (`ClientSync`) as one step; the
revision references of the hook and of the template are one `heard`, since every
answer sets both; a page that is not in the room pushes its checkpoint by PATCH,
without broadcast or retry. `SessionLifecycle` has one row per session id, each id
used once (UUIDs); `expiry` and `purge` are the comparison of a date with now.
`SessionAccess` has one session and leaves out whose account created it other than
as `Owner`; a socket is a connection, and its id is forgotten with it.
`Repositories` takes a transaction that waits for no other as one step. In
`BoardEditor` a board's sha is its content, so writing back the same content is no
change, as it is on GitHub; `hasUserInteractedRef` is `touched`, and a gesture is
any number of `Draw` after one `Touch`. One save of a tab is under way at a time: the
button is disabled for as long, but that flag is of the editor shown, so a tab that
opens its board anew could begin a second one. In `LiveCanvas` an update that is
skipped before the editor is ready stays in the page's inbox, and what is said of
pages with an empty inbox is not said of that one.

Definitions under a comment "Mutant" are altered versions of the definition that
follows them, as a plausible bug would have it; they are not part of the
specification. `PROJECT.json` names the property each one breaks.

## 4. What the runs check

| Run | Instance | Shows |
|---|---|---|
| `yjs_release` | 2 edits, 1 snapshot revision, 2 releases, 3 writes, 1 failure, 1 crash; 111k states | no release, reload, snapshot or reordered write loses an accepted change; what is not stored has a write coming; under fairness every change is stored and every call returns |
| `yjs_purge` | 2 edits, 1 revision, a release, a purge, 3 writes, 1 failure, 1 crash; 573k states | a purged row is not created again within the minute, whatever was queued or under way; the registry implements `DocumentMemory` |
| `room` | scope "core": 2 sockets of 2 users, 2 requests, 1 client allowed; join, update, facilitate, write, close, kick. Scope "failures": 1 socket, 2 requests, 1 failure; join, facilitate, canvas, save, purge, kick. 1,233k states | no ghosts, nobody hidden, the document stays with those present and is never left behind without a timer (but for a failed request and a canvas update that outlived its socket), votes outlive racing evictions |
| `room_progress` | scope "fair": 1 socket, 1 request; all but writes; 30k states | every call returns; a room everybody has left is freed |
| `client_sync` | 2 browsers, the guest draws 2 edits, the owner looks on; 2 light disturbances (broken connection, late answer, lock) or 1 heavy one (rate limit, rejection, refused join, checkpoint, crash, reload, remount); 174k states | no edit leaves the browser before the server holds it; nobody in the room has a gap; under fairness every edit reaches the server and every screen, or its author is told, with the exemptions of section 5; an editor that starts late |
| `web` | twenty scopes, 1,943k states, table below | the safety of the web application, the canvases and the moderated room |
| `room_reopened` | 2 requests; register, save, close | violation, section 6 |
| `room_closed_join` | 1 socket, 1 request; join, close | violation, section 6 |
| `room_kick_partial` | 3 sockets of one user, 1 request; join, kick | violation, section 6 |
| `sync_lock` | as `client_sync`, the lock set and lifted | violation, section 6 |
| `editor_reload` | `BoardEditor`, 2 repositories, 2 contents | violation, section 6 |
| `canvas_overwritten` | `LiveCanvas`, 2 pages, 3 changes | violation, section 6 |

The scopes of `web`, with the properties each is about:

| Scope (states) | What crosses | Property |
|---|---|---|
| sessions (342k) | create, status, delete, list, ensure, state, expiry; a GitHub and an upload session | `EndedIsEndedEverywhere`, `AnnouncedIsRegistered`, `GoneIsClosed` |
| purge (105k) | create, status, state and the purge of an ad-hoc session | the same |
| saves (128k), commits (153k) | two saves of a session, the editor's save, restores, edits; instance board, GitHub file | `SaveReplacesWhatItSaw`, `OwnSaveIsNoConflict`, `VersionsComplete`, `HistoryIntact` |
| boards (44k) | create, rename and delete of two boards with one title, a session on one | `VersionsComplete`, `AnnouncedIsRegistered` |
| guests (91k) | a guest's token and join, two changes of the policy, time, a restart | `RevokedGuestsAreOut` |
| removal (12k), links (3k) | token, claim, removal of an account on two sockets; of a guest, with new and expired links | `RemovedStaysOut` |
| passwords (80k), github (31k), setup (64k) | login and password change against reset, deactivation and logout in another browser; OAuth start and callback; two setups and account creation | `LoginsFollowPassword`, `OneOwnerRemains` |
| two (12k), one (31k), scan (4k) | two members connect one repository; one member connects, disconnects and relinks two; a scan crosses a connection | `OneActiveOwn` |
| editor (457k) | all of `BoardEditor`, two repositories | `EditorOverwritesWhatItShowed`, `UnsavedIsShown` |
| canvas (109k), checkpoints (186k) | drawing while updates arrive, three page loads; checkpoints and saves of two pages that draw one at a time | `NothingIsDropped`, `SettledCanvasesAgree` |
| follow (81k), votes (16k), switches (4k) | the host switches "follow me" and scrolls; votes with one vote each; lock and timer | `RoomShowsFacilitation`, `FollowersSeeModerator` |

Why these bounds are enough. The hazards of the registry need one release that
waits, an access while it waits and a second release or a purge; two releases,
two edits and three writes contain all of these, and one failure and one crash
hit every await. `MaxGen` and `MaxWrites` stop a counter that only grows; no
guard of the code reads its size. `MaxDocChanges` is the size
limit on a document: at 2, of three changes, the third is refused. `yjs_release` has no
purge, so that a purge itself returns is shown by the theorem `NobodyWaitsInVain` alone.
In the room two sockets
suffice for a hand-over (the last one leaves while another joins); one client is
allowed so that the limit refuses; two requests overlap with each other and with
a socket. `DocumentIsTended` says nothing once a request has failed or a canvas
update has outlived its socket (`strayed`, a history variable), the two exceptions
of section 6; scope "failures" is there for the other properties. In
`client_sync` two edits of one author are what it takes for an edit to meet the
flight of an earlier one, and a second browser what it takes to have a gap;
drawings of two authors never meet in the server other than in a union. The two
light disturbances cover a break during a retry, a late answer after a break and
a lock that is set and lifted; a heavy one alone already meets every state of the
hook. `RetryLimit` is 2 instead of 8: enough to give up after a retry, and the
code only compares the count with the limit.

In `web` the hazards are crossings of two requests, so two are enough for each
(`WebRequests`, `Visits`, `RepoRequests`, `AccessTasks`), and a scope holds those
operations that read what the others write; crossings of, say, a rename with a purge
share no row and are left out. In scope "purge" a PATCH sets "active" or "closed": no
guard tells "saved" from "active", and scope "sessions" has all three. `MaxRevision` =
3 with `MaxVersions` = 2 is the first revision that prunes a version. `MaxPolicies` =
2 is a switch off and on again, `MaxTime` = 2 a ticket before and one after; one call
of the collab server's queue of guest-policy changes is under way at a time (a second
would wait there and, given up, could only follow the last policy the bound allows).
`MaxPasswords` = 2 is one replacement. `MaxClient` = 3 is two pages and one load
again; `MaxDraws` = 2 is one change of each, the second after the first was received
or not; `MaxCheck` = 2 a checkpoint that makes the other page's stale. `MaxMail` = 2
lets a join's answer and a broadcast follow each other; `Limits` = {1} lets the second
vote be refused. `CHECK_DEADLOCK FALSE` is set for `web` because its counters are used
up: a session that is purged or a drawing at its last change has no further step.

The instances are complemented by the proofs, which have no bounds.

The properties themselves, with the code behaviour each is about, are commented
where they are defined, at the end of each module.

## 5. Fairness

`YjsDocuments` asks weak fairness of resumptions, of the load's steps, of a
debounce timer that is set, and of the database's answer to a write or a
deletion: the event loop and PostgreSQL owe these. No edit, release, purge,
failure or crash is ever obliged to happen. In `SessionRoom` an answer or a timer
is enabled only when no call is due, so it is enabled again and again rather than
for good; the event loop takes it up in its turn, which is strong fairness of
each call's progress, of the load, of the eviction timer and of its release.
Connecting, joining, leaving and requests are not obliged to happen, and
`QuietIsFreed` assumes that they stop.

`ClientSync` asks weak fairness, for each client, of the server's handling of its
oldest request, of the delivery of its oldest message, of connecting and noticing
a broken connection, of the 50 ms buffer, of the editor's start and of React's
rendering once there is a document (`RenderEarly` is not obliged), of a flight whose
answer will not come (its 2.5 s timeout) and of a retry timer. Nobody has to draw
and no disturbance has to happen. `EditsArrive` exempts exactly what the code
gives up: a loss to a crash or a reload, an author who is told (`syncError` or
status "error"), an update answered `editing_locked`, and a hook that gave up
after `RetryLimit` timeouts in a row. `EveryoneSees` exempts a browser that is
told it cannot join, and one whose editor skipped the update because it had no document
yet, as long as nothing else has come: the code shows the update with what comes next
(section 6).

The web application's modules state no fairness: a request may always end, a
browser may always be closed, and the code has no worker that would finish what a
request has begun, other than the purge, which somebody has to call.

## 6. What the checks found

Six disagreements between the code and what the repository says of it have a
run of their own.

- `room_reopened`: `UpdateSessionStatusUseCase` asks `canTransitionTo` about a
  status it read in an earlier query; `store.updateSessionStatus` does not ask
  again. A "saved" that read the row before a close committed overwrites
  "closed", although nothing leads out of `closed`.
- `room_closed_join`: a join checks the status once, then awaits twice; a close
  in between has already emptied the room, and the join enters it. The same
  window exists for `isExcluded` (a removed participant's second socket, its
  join under way, enters after the removal) and for a purge (a join under way is
  in the room of the deleted session).
- `room_kick_partial`: the loop over the participant's sockets returns at the
  first that is no longer connected; the others stay.
- `sync_lock`: an update answered `editing_locked` stays pending without a retry,
  and lifting the lock sends nothing. The author's screen shows the edit, nobody
  else's does, until the author edits again or reconnects; the operations guide
  promises convergence without another edit
  (`website/docs/operations/troubleshooting.md:37`).

- `editor_reload`: opening a board again because it changed in the repository
  loads the drawing but not the list that declares it stale; every save is still
  refused until the whole workspace is loaded anew (`WEB/.../HomeTemplate.tsx:766`,
  `messages/en.json:213`).
- `canvas_overwritten`: what is drawn in the 120 to 280 ms after a remote update,
  or in the rest of a gesture begun before it, is not taken into the document; the
  next remote update takes it off the canvas
  (`WEB/.../ExcalidrawEditor.tsx:505`, `website/docs/project/architecture.md:42`).

Smaller observations: behaviours of the model that a property leaves out by name,
or that appear when its bounds are changed as said.

- A release whose write fails drops the document all the same, so the accepted
  changes of that write are lost with a log line (`LiveDocumentComplete`,
  `ReleasedIsStored` except the set `failed` for that reason).
- Each purge starts its own timer, so the timer of an earlier purge ends the
  grace period of a later one (`PurgedRowStaysGone` fails with two `Purgers`). A purge
  that is draining then may leave behind a release that began meanwhile, which counts the
  accesses of another document from 0 up to what it saw and drops that one
  (`ImplementsMemory` fails with two `Purgers` and `MaxWrites` = 4).
- A request that fails after loading the document of an empty session, or a canvas
  update that outlives its socket by the 60 s grace period, leaves the document in
  memory without a timer (`DocumentIsTended` excepts `failures` and `strayed`). A kick whose
  audit write fails leaves the socket in the room and on no list (`NobodyHidden`
  excepts a failure).
- An update of the others that arrives after the join's answer and before Excalidraw's
  API is passed over: the effect returns while there is no document and does not depend
  on `api` (`WEB/.../useExcalidrawYjs.ts:270-282`), and the document starts from the
  join's answer. The page lacks the update until another one comes, with which it is
  merged, or a checkpoint or a reconnect (`EveryoneSees` excepts `skipped`).
- A status change that the collab server has admitted before a close and writes after it
  opens the session there again while the web application shows it as closed, or has
  deleted it. It is the race of `room_reopened`, and it does not need two requests under
  way in the web application: one whose `AbortSignal.timeout` has expired
  (`WEB/.../collab-server-client.ts:97`) has ended there while the collab server goes on
  (`EndedIsEndedEverywhere`, `GoneIsClosed` except `overtaken`).
- A save's `SaveRow` sets a row that was ended meanwhile back to "saved", and a
  PATCH "active" that had read the row before its end opens it again (`reopened`).
  After a close that the collab server did not carry out nothing closes it later
  (`unclosed`). Of two overlapping saves the later commit may record its base first,
  and a save that ends between commit and record leaves none: the next save is
  refused although the session wrote the drawing itself (`torn`).
- A list of sessions that crosses a close provides the closed session with
  invitations again. A state write to an ad-hoc row that was opened again creates the
  purged collab row again.
- A join that is past the exclusion's check when the removal runs, and a ticket issued
  before it that outlives a restart of the collab server, let a removed participant
  in (`slipped`). A policy change whose call failed leaves the row changed and the
  policy not (`confirmed`).
- A login whose password was verified before a reset or deactivation is opened after
  it (`late`).
- Two members who connect one repository for the first time at once share one record,
  which is then only one's own; overlapping disconnections may leave a member none
  that is active (`crossed`). A connection after the member linked another GitHub
  identity is refused by the unique index. A scan writes to the record id without
  suffix, so the second member's record never becomes fresh.
- A save that is answered while its board is being opened again takes the open
  board's place; the next save overwrites what had been restored (`crossed` of
  `BoardEditor`). An edit made during a save is shown as saved afterwards. So is what
  remains of a gesture begun before the save was over, because its success resets
  `hasUserInteractedRef` (`WEB/.../ExcalidrawEditor.tsx:401`, asked at 522), a file that is
  dropped on an untouched canvas, which no capture handler sees, and a drawing in the half
  second after the start (318-319); the next noticed change reports all of it (`missed`).
  And after a failed save the status "error" is never replaced by "dirty".
- Of two first changes that cross, both write the whole board; of an element both
  changed the greater client id's write stays, not the later one.
- A vote's retry after a timeout toggles it back; votes for elements that were deleted
  use up the budget; whoever joins while everyone follows gets no viewport until the
  host scrolls (`owed`).

## 7. What is proved, and what is not

TLAPS checks the following from the assumptions on the constants alone, for any
number of edits, releases, purges, sockets, users, requests, browsers and faults.
Two theorems have a further hypothesis, which they state: `PurgedRowsStayGone` and
`RegistryImplementsMemory` are about behaviours in which at most one purge at a time
is within its minute (`OnePurge`). With two of them TLC refutes both properties, because
the timer of the first ends the minute of the second (section 6). Three more state
under which condition a property holds that a run of section 4 refutes without it:
`ClosedStaysClosed`, `ClosedSessionsAreEmpty`, `DrawnElementsAreKept`.

`YjsDocumentsProofs`: `TypeCorrect`, `LiveDocumentIsComplete`,
`ReleasedDocumentIsStored`, `UnsavedChangesAreScheduled`. None of them is
inductive. A release may drop the document only if nothing was scheduled behind
the write it awaits, which it concludes from an unchanged generation. `IInv`
adds what makes this conclusion right: writes are numbered in the order they were
queued and settle in that order along one chain (`Numbered`, `InOrder`), the
generation a release saw is not from the future (`SeenBefore`), while it is
current nothing was scheduled or queued after the awaited write
(`QuietSinceSeen`), nothing is scheduled that is not part of the document
(`OnlyOfDocument`), and a load that has read the row still holds what the row
holds (`LoadIsCurrent`). A purge breaks this on purpose, so all of it is claimed
until a purge begins.

`PurgedRowsStayGone`: no write creates the deleted row
again within the minute. `PurgeInv` follows the purge: its tombstone stands from
its beginning until its timer fires; while it awaits the queue, no write is on its
way to the database that was queued behind the one it awaits, because the tombstone
turns such a write into nothing (`Orders`, the order of the one chain); once it has
drained the queue, no write is on its way at all, and none will be.

`RegistryImplementsMemory`: every behaviour of `YjsDocuments` is one of
`DocumentMemory`, purges and crashes included. The generation counter is
deleted with its document and starts again at 0; a release that saw 0 could take
a new document's counter for the old one. `Counted` excludes this: a counter at 0
has no scheduled and no queued write; a release that saw 0 is about to return, with
nobody's change waiting; and once a purge has drained the queue no release is
waiting when the next event comes (`NoneWaitsAfterwards`). So the end of a purge is
the abstract document's `Discard`, and every release that goes on after it finds
what the abstract one would.

`AcceptedChangesAreOnTheirWay` and `NobodyWaitsInVain` are the safety in the liveness
properties `AcceptedIsStored` and `CallsReturn`: until a purge an accepted change that no
row has and no write lost is in a queued write or behind a running timer, and what a call
awaits is under way. The second needs no hypothesis on purges. Its first two parts
(`Served`) are inductive with `IInv` and `HandlersGoFirst`: between a load and the
handlers that awaited it no release and no purge goes on and drops the document under
them, because a write whose turn comes before theirs is newer than the one it awaits.
The third, that no chain of writes waits on itself, follows from their numbers: once all
promises are taken up, the first write of each chain is at the database.

`SessionRoomProofs`: `TypeCorrect`, `PresenceShowsNoGhosts`,
`PresentHaveTheDocument`, `FacilitationIsKept`, `NobodyIsHidden`,
`DocumentsAreTended`. A release that has seen no access
began in an empty room and still goes on in one (`ReleaseSeesNobody`): whoever
becomes present has read the document in the same turn, and a call about to go
on with a document in memory has told every release (`HeldDocumentIsUsed`;
`Settled` keeps any event from coming between). So a release that drops the
document finds nobody present, and facilitation, which is cleared only then and
at the end of a session, is never lost by a participant. For the last two the
invariant is `TendedInv`: every call is at an await its operation has
(`CallsAtStages`); a socket in the room is on the presence list, or a kick that
took it off is about to put it out; and a document in memory or being loaded has
somebody who sees to it (`DocumentHasTender`): a participant, a timer, a release, or
a call that will start a timer if it finds the room empty when it goes on (`Tends`).

`RoomImplementsMemory` closes the circle with `RegistryImplementsMemory`: the room's
variables of the document, under any interleaving of its handlers, behave as
`DocumentMemory` does, of which the registry is an implementation. So what is proved of
the room rests on an interface the registry provides, for behaviours with one purge at a
time. `NobodyWaitsInVain`: a call that is not over awaits the database, the document
that is in memory or being loaded, or its own release; it follows from `CallsAtStages`
and says that the room's progress (`QuietIsFreed`, `CallsReturn`) hangs on nothing else.

`ClosedStaysClosed` and `ClosedSessionsAreEmpty` show that the two findings of section 6
have one cause each. A closed session stays closed unless two status changes are between
their read and their write at once (`OneStatusChange`); the invariant is that a save
about to be written found the row not closed (`SavesAreOpen`). A closed session is empty
unless a join that has found it open is still on its way in when the close is written
(`NoJoinCrossesClose`), or a database call failed; `ClosedIsLeft` says more, that no
call under way will enter a closed session.

`ClientSyncProofs`: `TypeCorrect`, `EditsAreKept`, `NoGap`, `InvariantHolds`. The
pending update may be dropped at an acknowledgement only if that flight carried
all of it. `FlightsAreSafe` says why it did: one request is in flight at a time,
at most one message waits for an answer, and a flight whose version is still the
pending one carries everything pending, so the server holds it when "ok" is on
its way. That nobody has a gap needs both directions of the connection: what the
link's state says of the two streams (`StreamsFit`: whoever the hook thinks is
joined is in the room, the join's answer comes first); full states only grow on
their way, so none takes back what a client held (`StatesGrow`); and what a
client lacks is in the join's answer or in an update after it
(`NothingSkipped`, in which `OwnAreShown` accounts for its own edits, which are
sent to the others only). The first lemmas say what each function of the hook
preserves; then each part of the invariant has a lemma with one step per action. The
editor's start and rendering take what the React state holds to the screen or leave it
(`DisplaysKeep`); the state itself is theirs neither to gain nor to lose.
`NobodyIsStranded` is the safety in `EditsArrive`: several functions of the hook return
early and rely on another to send later, and in every state the other one is there. A
client in the room with a pending update has a request in flight, a running timer, or
a reason that is known: it was told, or the hook gave up or was answered while editing
was locked (`halt`, the finding `sync_lock`). A client that is connected and not in the
room has a join or its answer on the way, or was told.

`LiveSessionProofs`: `FacilitationTypeCorrect`, `RoomShowsWhatItHolds`. What a page
will show is decided by the last message on its way that tells the field, or by what it
shows already (`Shows`). A broadcast appends to the mail of everyone in the room and
tells the new value; the answer to a join tells everything, and a page that is not in
the room has nothing on its way (`OutIsSilent`), so nothing older follows the answer.
The first lemmas say what appending to and receiving from a queue does to `Shows`.
`LiveTypeCorrect` are the types of `LiveCanvas`: a stamp is never more than one version
above the number of changes drawn, wherever it has got to, which bounds the canvases.

`FollowersSeeTheModerator` is about three stations: what the host's page shows, what
its messages ask for, what the others were sent. `FollowInv` says that the host's
queue in each direction turns "follow me" at most once, to what its page last asked for,
and never both (`HostTurnsOnce`), that a viewport still held by the throttle belongs to
the present turn (`NothingWaitsWhileOff`), that while it broadcasts the last viewport it
sent or holds is where it is (`HostSentItsPlace`), so that once the host's queues have
nothing more the last viewport on its way to a page, or the one it saw, is the host's
place (`OthersWillSeeIt`), and that a follower is where it saw the host last
(`FollowersAreAtTheLast`).

`NothingIsEverDropped` and `SettledCanvasesShowTheSame` are about the canvases, with a
finite board. An element's writes form a tree, of which Yjs shows one; the first lemmas
show that `Ahead` orders writes totally, so that every nonempty finite document has
exactly one write that each element shows, and that a merge shows the greater of
both. `LiveInv`: a write is named by its path, and a page has all that its client id
wrote (`PathsHold`: no other page has this id, which is new with each load); what a page
holds is the server's document or not yet sent, and what it lacks is on its way
(`FlowHolds`); every document with anything in it has all elements of the board
(`CoverHolds`); and a canvas shows its document, but for changes held back
(`ShownHolds`).

`DrawnElementsAreKept` names the cause of `canvas_overwritten`: what was drawn stays,
through lost connections, saves and any order of updates, in every behaviour without the
one step in which an update that changes the document replaces a canvas holding a change
not taken (`NoneHeldIsReplaced`). `DrawnOrHeld` is inductive then: what was drawn is
held by a canvas, or is in the server's document or on its way there; a change that is
taken takes all that its canvas held with it (`KeptWhenTaken`), because the document
then has every element of the canvas.

`LocalAccountsProofs`: `AccountsHoldAlways`, `LoginsEndWithPassword`, `OwnerIsOne`,
`OneRepositoryIsActive`, and the types of both modules (`AccountTypeCorrect`,
`RepositoryTypeCorrect`: a cookie is of a login that exists, a selection of a record
that does). A request writes on the strength of what it read some awaits ago. What keeps
that safe is that accounts and logins are never deleted and a role is for good (`Grow`),
so what a request has found is found again (`Finds`): the account a reset or a
deactivation writes to is still a user's, never the owner's. A change of password or
status ends the logins of its account in the same transaction (`EndedKept`); and of two
setups only the first reaches the opening of a login (`SetupStep`). Of a member's
repositories one is active because a disconnection that has read which one is to follow
stays right until it deletes (`Agreed`): the selection is still the last, or still the
active one with another to take its place. Connections and activations wait for its row
locks; a new instance repository and a second disconnection need not, and members for
whom they crossed it, or who were given another's record, are exempt (`crossed`). All
others have `MemberInv`.

`SessionAccessProofs`: `RemovalHolds`, `RemovedParticipantsStayOut`, `AccessHolds`,
`RevokedGuestsStayOut`, `AccessTypeCorrect` (nothing is dated later than now, whatever
tasks cross), from the assumption that guests' ids are not accounts' ids. A removal is
remembered in two places, and each covers what the other forgets: the database refuses
new tickets for good, the collab server's memory refuses the tickets issued before,
until it restarts. So a removed participant is barred by memory with no join under way
(`Barred`), or has nothing left to join with (`Gone`), or is one of those who slipped
past (`OutStays`); at a restart the first turns into the second or the third. For
guests, the memory and a restart both read the one trail in the database (`PolicyHolds`,
`RestoredIsTrail`); updates are worked on one at a time, each with a revision above the
trail's, and only the last has anybody waiting for it (`UpdatesHold`); a guest in the
room has a ticket from after the trail's last revocation, or is about to be swept out
(`GuestsFit`, `AboutToSweep`); and a setting is confirmed only when nothing is under way
(`SettingsHold`).

`SessionLifecycleProofs`: `LifecycleHolds`, `EndedSessionsHaveEnded`,
`AnnouncedSessionsAreRegistered`, `GoneSessionsAreClosed`. The row is closed
some awaits after the collab server has answered, and by then anything may have
happened there. It is enough that a request that is about to close the row knows what
cannot be undone (`RequestsKnow`): the collab session is closed, or it was purged and can
never be registered again (`EndedThere`). The latter rests on time: a purge is due only
when no request is as old as the session's end (`Safe`, `PurgesEnded`), so nothing that
read the session as open is still to write. The former has one exception: a status
change that was admitted while the session was open (`moving`) may still be written. A
session that it opens again is in `overtaken` until the next close is written, and all
this is said of the others. Every action is shown to change rows, collab sessions and
requests in one of a few allowed ways (`RowsAllowed`, `CollabAllowed`,
`RequestsAllowed`), and these to preserve the invariant (`AllowedStep`).

`DrawingSavesProofs`: `VersionsAreComplete`, `HistoryStaysIntact`,
`SavesReplaceWhatTheySaw`, `OwnSavesAreNoConflict`, `LifecycleTypeCorrect` (whatever
content is stored, registered or saved, somebody drew it). Boards have paths of their
own since a title has more numbers to try than there are boards, which needs that boards
are finitely many (`SomePathIsFree`); `StorageInv` then says which versions a board has.
What a session knows of a drawing is a pair of sha and content. `SawInv` says that the
pair is one the drawing once had: a board's revision is never given to another content,
and a GitHub file's sha is its content. So a save that the storage accepts, since the
sha is the present one, replaces the content of the pair, as long as the board at the
path is still the one the session read (`BoardOf`). `OwnInv` says that a row has the sha
of its session's last write, or a save is between its commit and the record of it
(`Tears`), and no second one is; the other rows are in `torn`.

`EditorOverwritesOnlyWhatItShowed` and `UnsavedEditsAreShown` are about the board
editor's tab. Every call has its answer applied to a page that may have moved on.
`EditorInv`: which of the calls can be under way with which page (`MountsHold`); the
base a save sends is what its canvas was drawn from, whatever answers
came since it was mounted (`BaseHolds`); what differs from it is being saved, or is shown
as unsaved (`EditsHold`), or was drawn during a save or unnoticed: a report is made
only of a noticed change and forgotten only with a save of this canvas, so what a report
still stands for is not saved. The exemptions are those of section 6. `EditorTypeCorrect` are
the editor's types.

`WebTypes`, which the run `web` checks, is the conjunction of the types of its seven
components for the scopes of that run, some of which start in the middle of a
behaviour; each component has its own type theorem, from its own initial states. Only
model-checked: all liveness (`AcceptedIsStored`, `CallsReturn`, `QuietIsFreed`,
`EditsArrive`, `EveryoneSees`), which is beyond the prover; the theorems above prove that
something is under way in every state, and that it comes to an end is TLC's part.
`AcceptedIsOnItsWay`, `NothingWaitsInVain` (of both modules), `NothingStranded` and
`KeepsToMemory` are stated by theorems and checked by no run; TLC agreed
with them on the instances of the runs before they were proved. The findings
`room_kick_partial`, `editor_reload` and `sync_lock` have no such theorem: what is left
of the first two under a condition that excludes them is a single guard, and the third
is liveness.

Not modelled, and why:

- cryptography and parsing: ticket signatures, cookies' encoding, password hashing,
  the OAuth exchange, payload schemas;
- logging, configuration, diagnostics, HTTP plumbing, the audit store: they hold no
  state that a property could be about;
- the rate limits: clock arithmetic of one synchronous function each; that a limit
  refuses is an outcome of the edits (`ClientSync`) and of the joins (`SessionRoom`).
  The limit on clients is asked before a join's awaits and may be exceeded by joins
  that overlap;
- cursors, reactions and the renewal of a ticket on a live socket: they are relayed
  and leave nothing behind;
- files and background of a board, fractional indices, and the path of a drawing in a
  snapshot: data next to the elements, moved by the same steps;
- galleries, dialogs, layout and wording of the web pages;
- GitHub and PostgreSQL themselves: external, present as the answers they give.

## 8. What is left

In the order of what it would add:

1. The renewal of tickets on a live socket, which would date `socket[s].issued` anew.
2. Snapshot revisions of the registry (a snapshot older than the one mirrored before a
   release may be mirrored again after it) and `drawing_path`.
3. Files of a board beside its elements in `LiveCanvas`.

Runs stay few: one per question, components with small state sharing one.
