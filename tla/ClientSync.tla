----------------------------- MODULE ClientSync -----------------------------
(***************************************************************************)
(* How the drawings of several browsers reach the collaboration server and *)
(* each other: the editor's Yjs document and its 50 ms buffer, the hook    *)
(* that keeps one merged update until the server acknowledges it, the      *)
(* socket's two streams, and the server's side of session:join and         *)
(* yjs:update.                                                             *)
(*                                                                         *)
(* A document is the set of edits it holds: Yjs updates merge and are      *)
(* idempotent.  The server applies an update in one step because a joined  *)
(* socket's document is loaded (PresentHaveDocument of SessionRoom).       *)
(***************************************************************************)
EXTENDS Naturals, Sequences

CONSTANTS
  Clients, Owners,  \* the browsers, and those the editing lock does not stop
  Drawn,            \* bound: how many edits each client makes
  RetryLimit,       \* timeouts in a row after which the hook stops retrying
  Weight,           \* the disturbances this instance exercises, and their weights
  MaxFaults         \* bound: the weight of those that happen

AllFaults == {"break", "late", "limit", "reject", "refuse", "lock",
              "checkpoint", "crash", "reload", "remount"}

ASSUME SyncAssumption ==
  /\ Owners \subseteq Clients /\ Drawn \in [Clients -> Nat]
  /\ RetryLimit \in Nat /\ MaxFaults \in Nat
  /\ DOMAIN Weight \subseteq AllFaults /\ \A kind \in DOMAIN Weight : Weight[kind] \in Nat \ {0}

VARIABLES
  server,  \* the edits in the server's document
  room,    \* clients whose current connection has joined the room
  locked,  \* moderation.editingLocked
  made,    \* how many edits each client has drawn
  ready,   \* clients whose Excalidraw has answered, so that the document exists
  doc,     \* the editor's Y.Doc
  buffer,  \* pendingLocalUpdates: drawn less than 50 ms ago
  base,    \* state.yjsStateBase64, not yet applied to the document
  remote,  \* state.remoteYjsUpdate, not yet applied to the document
  skipped, \* clients whose effect has run for remote while there was no document
  hook,    \* the variables of useCollabPresence, see Hooks
  inbox,   \* the server's messages on the current connection, in order
  lost,    \* history: edits a crash or a reload took away
  faults

serverVars == <<server, room, locked>>
editorVars == <<ready, doc, buffer, made>>
viewVars   == <<base, remote, skipped>>
countVars  == <<lost, faults>>
vars == <<serverVars, editorVars, viewVars, hook, inbox, countVars>>

Edits == UNION {{c} \X (1..Drawn[c]) : c \in Clients}
MadeBy(c) == {e \in Edits : e[1] = c /\ e[2] <= made[c]}

\* Messages.  awaited: the sender still waits for the answer (ack) to this one.
Join == [kind |-> "join", edits |-> {}, awaited |-> FALSE]
Update(edits) == [kind |-> "update", edits |-> edits, awaited |-> TRUE]
Message(kind, edits) == [kind |-> kind, edits |-> edits, awaited |-> FALSE]
Answer(kind, edits, m) == [kind |-> kind, edits |-> edits, awaited |-> m.awaited]
Requests == [kind : {"join", "update"}, edits : SUBSET Edits, awaited : BOOLEAN]
Messages == [kind : {"joined", "refused", "ok", "limited", "locked", "rejected", "news", "state"},
             edits : SUBSET Edits, awaited : BOOLEAN]

Hooks ==
  [pending  : SUBSET Edits,            \* pendingYjsRef, merged; empty for null
   version  : Nat,                     \* its version, 0 for null
   sent     : Nat,                     \* version in flight, 0 without yjsInFlight
   asked    : BOOLEAN,                 \* flushRequested
   timers   : Nat, handle : BOOLEAN,   \* retry timers running; retryTimer is set
   attempts : Nat,                     \* retryAttempts
   joined   : BOOLEAN,
   told     : BOOLEAN,                 \* syncError, or status "error"
   halt     : {"none", "locked", "exhausted"},  \* history: why nothing is resent
   link     : {"down", "up", "dead"},  \* the socket; dead: broken, not noticed yet
   out      : Seq(Requests)]           \* written to the socket, not handled yet

Unmounted ==
  [pending |-> {}, version |-> 0, sent |-> 0, asked |-> FALSE, timers |-> 0,
   handle |-> FALSE, attempts |-> 0, joined |-> FALSE, told |-> FALSE,
   halt |-> "none", link |-> "down", out |-> << >>]

TypeOK ==
  /\ server \subseteq Edits /\ room \subseteq Clients /\ locked \in BOOLEAN
  /\ made \in [Clients -> Nat] /\ lost \subseteq Edits /\ faults \in Nat
  /\ doc \in [Clients -> SUBSET Edits] /\ buffer \in [Clients -> SUBSET Edits]
  /\ base \in [Clients -> SUBSET Edits] /\ remote \in [Clients -> SUBSET Edits]
  /\ ready \subseteq Clients /\ skipped \subseteq Clients
  /\ hook \in [Clients -> Hooks] /\ inbox \in [Clients -> Seq(Messages)]

None == [c \in Clients |-> {}]

Init ==
  /\ server = {} /\ room = {} /\ locked = FALSE
  /\ made = [c \in Clients |-> 0]
  /\ doc = None /\ buffer = None /\ base = None /\ remote = None
  /\ ready = {} /\ skipped = {}
  /\ hook = [c \in Clients |-> Unmounted] /\ inbox = [c \in Clients |-> << >>]
  /\ lost = {} /\ faults = 0

Fault(kind) ==
  kind \in DOMAIN Weight /\ faults' = faults + Weight[kind] /\ faults' <= MaxFaults

-----------------------------------------------------------------------------
(* What the hook does with its variables h at each event.                  *)

\* The acks of a flight that timed out are no longer delivered.
Abandoned(messages) == [i \in DOMAIN messages |-> [messages[i] EXCEPT !.awaited = FALSE]]
Awaited(messages) == \E i \in DOMAIN messages : messages[i].awaited
Has(messages, kind) == \E i \in DOMAIN messages : messages[i].kind = kind

Ready(h) == h.joined /\ h.link # "down" /\ h.pending # {}

\* flushYjs: sends the pending update unless one is in flight.
Flush(h) ==
  IF ~Ready(h) THEN h
  ELSE IF h.sent # 0 THEN [h EXCEPT !.asked = TRUE]
  ELSE [h EXCEPT !.asked = FALSE, !.sent = h.version, !.halt = "none",
                 !.out = Append(h.out, Update(h.pending))]

Schedule(h) == [h EXCEPT !.timers = h.timers + 1, !.handle = TRUE]

\* The finally clause: the flight is over; a newer update goes out at once.
Settle(h) ==
  LET over == [h EXCEPT !.sent = 0]
  IN IF ~h.handle /\ (h.asked \/ h.version # h.sent) THEN Flush(over) ELSE over

\* Mutant: the acknowledgement clears whatever is pending.
AckedBlindly(h) == Settle([h EXCEPT !.attempts = 0, !.pending = {}, !.version = 0])

\* An acknowledgement clears the pending update it was sent for, no newer one.
Acked(h) ==
  Settle(IF h.version = h.sent
           THEN [h EXCEPT !.attempts = 0, !.pending = {}, !.version = 0]
           ELSE [h EXCEPT !.attempts = 0])

Limited(h)  == Settle(Schedule(h))
Locked(h)   == Settle([h EXCEPT !.halt = "locked"])
Rejected(h) == Settle([h EXCEPT !.told = TRUE])

\* The catch clause: no answer within 2.5 s.  Retries with a backoff, or at
\* once when a reconnect or a newer edit has already asked for a flush.
TimedOut(h) ==
  LET quiet == [h EXCEPT !.out = Abandoned(h.out)]
      again == [quiet EXCEPT !.attempts = h.attempts + 1]
  IN Settle(IF h.attempts >= RetryLimit THEN [quiet EXCEPT !.halt = "exhausted"]
            ELSE IF h.asked /\ h.joined /\ h.link # "down" THEN again
            ELSE Schedule(again))

TimerFired(h) == Flush([h EXCEPT !.timers = h.timers - 1, !.handle = FALSE])

\* Mutant: joining does not send what was drawn while disconnected.
JoinedQuietly(h) == [h EXCEPT !.joined = TRUE, !.attempts = 0, !.told = FALSE]

\* Mutant: cancels a retry timer that may have fired already.
JoinedAfterTimer(h) ==
  Flush([h EXCEPT !.joined = TRUE, !.attempts = 0, !.told = FALSE, !.handle = FALSE,
                  !.timers = h.timers - 1])

\* The join's answer: the latest retry timer is cancelled, its update sent now.
Joined(h) ==
  Flush([h EXCEPT !.joined = TRUE, !.attempts = 0, !.told = FALSE, !.handle = FALSE,
                  !.timers = IF h.handle THEN h.timers - 1 ELSE h.timers])

\* sendYjsUpdate: merged into what is pending, under a new version.
Queued(h, edits) ==
  Flush([h EXCEPT !.pending = h.pending \cup edits, !.version = h.version + 1])

-----------------------------------------------------------------------------
(* The editor.                                                             *)

\* applyLocalScene: an edit enters the document and waits in the buffer.
Edit(c) ==
  /\ c \in ready /\ made[c] < Drawn[c]
  /\ made' = [made EXCEPT ![c] = made[c] + 1]
  /\ doc' = [doc EXCEPT ![c] = doc[c] \cup {<<c, made[c] + 1>>}]
  /\ buffer' = [buffer EXCEPT ![c] = buffer[c] \cup {<<c, made[c] + 1>>}]
  /\ UNCHANGED <<serverVars, ready, viewVars, hook, inbox, countVars>>

\* The buffer's timer: its edits are merged into the pending update.
SendYjsUpdate(c) ==
  /\ buffer[c] # {}
  /\ hook' = [hook EXCEPT ![c] = Queued(hook[c], buffer[c])]
  /\ buffer' = [buffer EXCEPT ![c] = {}]
  /\ UNCHANGED <<serverVars, ready, doc, made, viewVars, inbox, countVars>>

\* Excalidraw hands out its API: the document is created from the base state.
\* An update that an effect has skipped stays where it is.
EditorReady(c) ==
  /\ c \notin ready /\ ready' = ready \cup {c}
  /\ doc' = [doc EXCEPT ![c] = doc[c] \cup base[c]] /\ base' = [base EXCEPT ![c] = {}]
  /\ UNCHANGED <<serverVars, buffer, made, remote, skipped, hook, inbox, countVars>>

\* What the update's effect finds to apply: it has not run for it before.
Fresh(c) == IF c \in skipped THEN {} ELSE remote[c]

\* Mutant: a base state that comes after the document is not merged into it.
RenderUpdates(c) ==
  /\ c \in ready /\ Fresh(c) # {}
  /\ doc' = [doc EXCEPT ![c] = doc[c] \cup Fresh(c)]
  /\ remote' = [remote EXCEPT ![c] = remote[c] \ Fresh(c)]
  /\ UNCHANGED <<serverVars, ready, buffer, made, base, skipped, hook, inbox, countVars>>

\* React renders: the effects apply what the hook's state holds.
Render(c) ==
  /\ c \in ready /\ base[c] \cup Fresh(c) # {}
  /\ doc' = [doc EXCEPT ![c] = doc[c] \cup base[c] \cup Fresh(c)]
  /\ base' = [base EXCEPT ![c] = {}] /\ remote' = [remote EXCEPT ![c] = remote[c] \ Fresh(c)]
  /\ UNCHANGED <<serverVars, ready, buffer, made, skipped, hook, inbox, countVars>>

\* The update's effect returns without a document, and runs again only for
\* another update: the API is not among its dependencies.
RenderEarly(c) ==
  /\ c \notin ready /\ Fresh(c) # {}
  /\ skipped' = skipped \cup {c}
  /\ UNCHANGED <<serverVars, editorVars, base, remote, hook, inbox, countVars>>

-----------------------------------------------------------------------------
(* The connection.                                                         *)

\* The socket connects, again and again, and asks to join.
Connect(c) ==
  /\ hook[c].link = "down"
  /\ hook' = [hook EXCEPT ![c].link = "up", ![c].out = <<Join>>]
  /\ UNCHANGED <<serverVars, editorVars, viewVars, inbox, countVars>>

\* The connection breaks: what is in transit is gone.
Break(c) ==
  /\ Fault("break") /\ hook[c].link = "up"
  /\ hook' = [hook EXCEPT ![c].link = "dead", ![c].out = << >>]
  /\ inbox' = [inbox EXCEPT ![c] = << >>] /\ room' = room \ {c}
  /\ UNCHANGED <<server, locked, editorVars, viewVars, lost>>

\* The client notices that its connection broke.
Disconnect(c) ==
  /\ hook[c].link = "dead"
  /\ hook' = [hook EXCEPT ![c].link = "down", ![c].joined = FALSE, ![c].out = << >>]
  /\ UNCHANGED <<serverVars, editorVars, viewVars, inbox, countVars>>

\* The hook's effect is cleaned up and runs again (its role or invitation
\* changed): a new socket; the pending update stays.
Remount(c) ==
  /\ Fault("remount")
  /\ hook' = [hook EXCEPT ![c] = [Unmounted EXCEPT !.pending = hook[c].pending,
                                  !.version = hook[c].version, !.told = hook[c].told]]
  /\ inbox' = [inbox EXCEPT ![c] = << >>] /\ room' = room \ {c}
  /\ UNCHANGED <<server, locked, editorVars, viewVars, lost>>

\* The state's remoteYjsUpdate is absent.
NoUpdate(c) == remote' = [remote EXCEPT ![c] = {}] /\ skipped' = skipped \ {c}

\* The page is closed and opened again: all that is in the browser is gone.
Reload(c) ==
  /\ Fault("reload")
  /\ lost' = lost \cup (MadeBy(c) \ server)
  /\ hook' = [hook EXCEPT ![c] = Unmounted]
  /\ doc' = [doc EXCEPT ![c] = {}] /\ buffer' = [buffer EXCEPT ![c] = {}]
  /\ ready' = ready \ {c} /\ NoUpdate(c) /\ base' = [base EXCEPT ![c] = {}]
  /\ inbox' = [inbox EXCEPT ![c] = << >>] /\ room' = room \ {c}
  /\ UNCHANGED <<server, locked, made>>

-----------------------------------------------------------------------------
(* The server.                                                             *)

\* Handles the oldest request of a client: m is it, the answer follows.
Handles(c, kind) == hook[c].link = "up" /\ hook[c].out # << >> /\ Head(hook[c].out).kind = kind
Handled(c) == hook' = [hook EXCEPT ![c].out = Tail(hook[c].out)]
Answers(c, kind, edits) ==
  inbox' = [inbox EXCEPT ![c] = Append(inbox[c], Answer(kind, edits, Head(hook[c].out)))]

\* session:join: the answer carries the document's state.
ServerJoins(c) ==
  /\ Handles(c, "join") /\ Handled(c)
  /\ room' = room \cup {c} /\ Answers(c, "joined", server)
  /\ UNCHANGED <<server, locked, editorVars, viewVars, countVars>>

\* The session is full or closed.
ServerRefuses(c) ==
  /\ Fault("refuse") /\ Handles(c, "join") /\ Handled(c)
  /\ Answers(c, "refused", {})
  /\ UNCHANGED <<serverVars, editorVars, viewVars, lost>>

\* The editing lock stops everyone but an owner.
Stops(c) == locked /\ c \notin Owners

\* yjs:update: merged, sent to the others in the room, acknowledged with the state.
ServerUpdates(c) ==
  /\ Handles(c, "update") /\ Handled(c) /\ c \in room /\ ~Stops(c)
  /\ server' = server \cup Head(hook[c].out).edits
  /\ inbox' = [d \in Clients |->
       IF d = c THEN Append(inbox[d], Answer("ok", server', Head(hook[c].out)))
       ELSE IF d \in room THEN Append(inbox[d], Message("news", Head(hook[c].out).edits))
       ELSE inbox[d]]
  /\ UNCHANGED <<room, locked, editorVars, viewVars, countVars>>

\* yjs:update while editing is locked.
ServerStops(c) ==
  /\ Handles(c, "update") /\ Handled(c) /\ Stops(c)
  /\ Answers(c, "locked", {})
  /\ UNCHANGED <<serverVars, editorVars, viewVars, countVars>>

\* yjs:update over the rate limit.
ServerLimits(c) ==
  /\ Fault("limit") /\ Handles(c, "update") /\ Handled(c)
  /\ Answers(c, "limited", {})
  /\ UNCHANGED <<serverVars, editorVars, viewVars, lost>>

\* yjs:update that is invalid or makes the document too large.
ServerRejects(c) ==
  /\ Fault("reject") /\ Handles(c, "update") /\ Handled(c)
  /\ Answers(c, "rejected", {})
  /\ UNCHANGED <<serverVars, editorVars, viewVars, lost>>

\* canvas:update of client c: the others get the document's state.
Checkpoint(c) ==
  /\ Fault("checkpoint") /\ c \in room
  /\ inbox' = [d \in Clients |-> IF d \in room \ {c}
                                  THEN Append(inbox[d], Message("state", server)) ELSE inbox[d]]
  /\ UNCHANGED <<serverVars, editorVars, viewVars, hook, lost>>

\* moderation:update by the owner.
ToggleLock ==
  /\ Fault("lock") /\ locked' = ~locked
  /\ UNCHANGED <<server, room, editorVars, viewVars, hook, inbox, lost>>

\* The server stops and starts: the store may be behind the document, the
\* lock is forgotten, every connection breaks.
Crash ==
  /\ Fault("crash")
  /\ \E stored \in SUBSET server : server' = stored /\ lost' = lost \cup (server \ stored)
  /\ room' = {} /\ locked' = FALSE
  /\ hook' = [c \in Clients |->
       IF hook[c].link = "up" THEN [hook[c] EXCEPT !.link = "dead", !.out = << >>] ELSE hook[c]]
  /\ inbox' = [c \in Clients |-> << >>]
  /\ UNCHANGED <<editorVars, viewVars>>

-----------------------------------------------------------------------------
(* What the client does with the server's messages.                        *)

Receives(c, kind) == inbox[c] # << >> /\ Head(inbox[c]).kind = kind
Received(c) == inbox' = [inbox EXCEPT ![c] = Tail(inbox[c])]
Shows(c, h) == hook' = [hook EXCEPT ![c] = h]

\* Joining replaces the hook's state by the answer's.
JoinAnswer(c) ==
  /\ Receives(c, "joined") /\ Received(c) /\ Shows(c, Joined(hook[c]))
  /\ base' = [base EXCEPT ![c] = Head(inbox[c]).edits] /\ NoUpdate(c)
  /\ UNCHANGED <<serverVars, editorVars, countVars>>

JoinRefusal(c) ==
  /\ Receives(c, "refused") /\ Received(c)
  /\ Shows(c, [hook[c] EXCEPT !.told = TRUE])
  /\ base' = [base EXCEPT ![c] = {}] /\ NoUpdate(c)
  /\ UNCHANGED <<serverVars, editorVars, countVars>>

\* The acknowledgement of a flight that did not time out replaces the base state.
Acknowledgement(c) ==
  /\ Receives(c, "ok") /\ Received(c)
  /\ IF Head(inbox[c]).awaited
       THEN Shows(c, Acked(hook[c])) /\ base' = [base EXCEPT ![c] = Head(inbox[c]).edits]
       ELSE UNCHANGED <<hook, base>>
  /\ UNCHANGED <<serverVars, editorVars, remote, skipped, countVars>>

Refusal(c) ==
  /\ \/ Receives(c, "limited") /\ Shows(c, IF Head(inbox[c]).awaited THEN Limited(hook[c]) ELSE hook[c])
     \/ Receives(c, "locked") /\ Shows(c, IF Head(inbox[c]).awaited THEN Locked(hook[c]) ELSE hook[c])
     \/ Receives(c, "rejected") /\ Shows(c, IF Head(inbox[c]).awaited THEN Rejected(hook[c]) ELSE hook[c])
  /\ Received(c)
  /\ UNCHANGED <<serverVars, editorVars, viewVars, countVars>>

\* Mutant: the last of several updates between two renders wins.
NewsReplaces(c) ==
  /\ Receives(c, "news") /\ Received(c)
  /\ remote' = [remote EXCEPT ![c] = Head(inbox[c]).edits] /\ skipped' = skipped \ {c}
  /\ UNCHANGED <<serverVars, editorVars, base, hook, countVars>>

\* Updates of the others are merged with those before, the skipped ones too:
\* the effect runs again, for all of them.
News(c) ==
  /\ Receives(c, "news") /\ Received(c)
  /\ remote' = [remote EXCEPT ![c] = remote[c] \cup Head(inbox[c]).edits]
  /\ skipped' = skipped \ {c}
  /\ UNCHANGED <<serverVars, editorVars, base, hook, countVars>>

StateUpdate(c) ==
  /\ Receives(c, "state") /\ Received(c)
  /\ base' = [base EXCEPT ![c] = Head(inbox[c]).edits]
  /\ UNCHANGED <<serverVars, editorVars, remote, skipped, hook, countVars>>

\* A flight fails: its request or answer went down with the connection, or
\* the answer is late.
FlightLost(c) ==
  /\ hook[c].sent # 0 /\ ~Awaited(hook[c].out) /\ ~Awaited(inbox[c])
  /\ Shows(c, TimedOut(hook[c]))
  /\ UNCHANGED <<serverVars, editorVars, viewVars, inbox, countVars>>

FlightLate(c) ==
  /\ Fault("late") /\ hook[c].sent # 0 /\ (Awaited(hook[c].out) \/ Awaited(inbox[c]))
  /\ Shows(c, TimedOut(hook[c]))
  /\ inbox' = [inbox EXCEPT ![c] = Abandoned(inbox[c])]
  /\ UNCHANGED <<serverVars, editorVars, viewVars, lost>>

RetryTimer(c) ==
  /\ hook[c].timers > 0 /\ Shows(c, TimerFired(hook[c]))
  /\ UNCHANGED <<serverVars, editorVars, viewVars, inbox, countVars>>

-----------------------------------------------------------------------------
Serves(c) == ServerJoins(c) \/ ServerUpdates(c) \/ ServerStops(c)
Reads(c) ==
  \/ JoinAnswer(c) \/ JoinRefusal(c) \/ Acknowledgement(c) \/ Refusal(c)
  \/ News(c) \/ StateUpdate(c)
Disturbs(c) ==
  \/ Break(c) \/ Remount(c) \/ Reload(c) \/ ServerRefuses(c) \/ ServerLimits(c)
  \/ ServerRejects(c) \/ Checkpoint(c) \/ FlightLate(c)
Displays(c) == EditorReady(c) \/ Render(c) \/ RenderEarly(c)
Tick(c) == SendYjsUpdate(c) \/ FlightLost(c) \/ RetryTimer(c)
Links(c) == Connect(c) \/ Disconnect(c)

Next ==
  \/ \E c \in Clients : Edit(c) \/ Serves(c) \/ Reads(c) \/ Displays(c) \/ Tick(c) \/ Links(c) \/ Disturbs(c)
  \/ ToggleLock \/ Crash

Spec == Init /\ [][Next]_vars

\* Timers fire, Excalidraw starts, React renders, messages travel and a closed socket connects
\* again.  Nobody has to draw, and nothing has to go wrong.
Fairness == \A c \in Clients :
  /\ WF_vars(Serves(c)) /\ WF_vars(Reads(c)) /\ WF_vars(Links(c))
  /\ WF_vars(SendYjsUpdate(c)) /\ WF_vars(EditorReady(c)) /\ WF_vars(Render(c))
  /\ WF_vars(FlightLost(c)) /\ WF_vars(RetryTimer(c))

FairSpec == Spec /\ Fairness

-----------------------------------------------------------------------------
(* Properties.                                                             *)

\* Until the server's document holds an edit, the browser that made it keeps
\* it in the pending update or in the 50 ms buffer, whatever was acknowledged,
\* late or lost in between (useCollabPresence.ts 151-154 against 528-537).
NothingForgotten == \A c \in Clients :
  MadeBy(c) \subseteq server \cup lost \cup hook[c].pending \cup buffer[c]

\* A client in the room misses nothing of the server's document: what its own
\* document lacks is in its React state or on its way (the join's answer and
\* the updates sent after it fit together without a gap).
NothingMissed == \A c \in room :
  server \subseteq doc[c] \cup base[c] \cup remote[c] \cup
                   UNION {inbox[c][i].edits : i \in DOMAIN inbox[c]}

\* Every edit reaches the server, or its author is told (status or sync error),
\* unless its update was answered while editing was locked or the hook gave
\* up after RetryLimit timeouts: then nothing resends it.
EditsArrive == \A e \in Edits :
  e \in MadeBy(e[1]) ~> \/ e \in server \cup lost
                        \/ hook[e[1]].told \/ hook[e[1]].halt # "none"

\* What the server's document holds reaches the document of every browser
\* that is not told it cannot join, unless it came in an update between the
\* join's answer and the editor's document: that one waits for another update
\* (useExcalidrawYjs.ts 270-282).
EveryoneSees == \A e \in Edits, c \in Clients :
  e \in server ~> \/ e \in lost \/ e \in doc[c] \/ hook[c].told
                  \/ c \in ready \cap skipped /\ e \in remote[c]

\* What makes both so: in every state a pending update of a client that has
\* joined is in flight, has a retry timer or is one that nothing resends, which
\* is known; and whoever is connected has joined, is about to, or is told.
\* (sendYjsUpdate, the acknowledgement, the timeout, the retry timer and the
\* join each return early, relying on another of them to send.)
Resent(h) == h.joined /\ h.pending # {} =>
  h.sent # 0 \/ h.timers > 0 \/ h.told \/ h.halt # "none"
Joins(h, box) ==
  h.joined \/ h.told \/ Has(h.out, "join") \/ Has(box, "joined") \/ Has(box, "refused")
NothingStranded == \A c \in Clients :
  Resent(hook[c]) /\ (hook[c].link = "up" => Joins(hook[c], inbox[c]))

\* Changes that arrive late or stay pending converge without another edit
\* (website/docs/operations/troubleshooting.md:37).
ConvergesWithoutAnotherEdit == \A e \in Edits :
  e \in MadeBy(e[1]) ~> e \in server \cup lost \/ hook[e[1]].told \/ locked

-----------------------------------------------------------------------------
(* The inductive invariant.                                                *)

Covered == server \cup lost

\* One request at a time: at most one message is awaited, and only in flight.
OneAwaited(h, box) ==
  /\ \A i, j \in DOMAIN h.out : h.out[i].awaited /\ h.out[j].awaited => i = j
  /\ \A i, j \in DOMAIN box : box[i].awaited /\ box[j].awaited => i = j
  /\ ~(Awaited(h.out) /\ Awaited(box))
  /\ Awaited(h.out) \/ Awaited(box) => h.sent # 0

\* A flight of the pending update's version carries all of the pending update,
\* and its acknowledgement comes when the server has it.
FlightMatches(h, box, covered) ==
  /\ h.pending # {} => h.version > 0
  /\ \A i \in DOMAIN h.out : h.out[i].awaited =>
       h.sent <= h.version /\ (h.version = h.sent => h.pending \subseteq h.out[i].edits)
  /\ \A i \in DOMAIN box : box[i].awaited /\ box[i].kind = "ok" =>
       h.sent <= h.version /\ (h.version = h.sent => h.pending \subseteq covered)

TimersCounted(h) == h.handle => h.timers > 0

FlightsAreSafe == \A c \in Clients :
  /\ OneAwaited(hook[c], inbox[c]) /\ FlightMatches(hook[c], inbox[c], Covered)
  /\ TimersCounted(hook[c])

\* What a client sends it has drawn and still shows.
OwnAreShown == \A c \in Clients :
  /\ hook[c].pending \cup buffer[c] \subseteq doc[c]
  /\ \A i \in DOMAIN hook[c].out : hook[c].out[i].edits \subseteq doc[c]

\* What the connection's state says about the two streams and the room.
Fits(h, box, present) ==
  /\ h.link = "down" => h.out = << >> /\ ~h.joined
  /\ h.link # "up" => box = << >> /\ ~present
  /\ h.link = "up" /\ (h.joined \/ Has(box, "joined") \/ Has(h.out, "update")) => present
  /\ present => ~Has(box, "refused")
  /\ Has(h.out, "join") => Len(h.out) = 1 /\ box = << >> /\ ~present /\ ~h.joined
StreamsFit == \A c \in Clients : Fits(hook[c], inbox[c], c \in room)

\* The full states on the way to a client grow, none exceeds the server's, and
\* none is behind the state held that it replaces; the join's comes first.
IsFull(m) == m.kind \in {"joined", "ok", "state"}
Grows(box, held, state) ==
  /\ \A i \in DOMAIN box : box[i].kind = "joined" => i = 1
  /\ \A i \in DOMAIN box : IsFull(box[i]) => box[i].edits \subseteq state
  /\ \A i, j \in DOMAIN box :
       IsFull(box[i]) /\ IsFull(box[j]) /\ i < j => box[i].edits \subseteq box[j].edits
  /\ ~Has(box, "joined") =>
       held \subseteq state /\ \A i \in DOMAIN box : IsFull(box[i]) => held \subseteq box[i].edits
StatesGrow == \A c \in room : Grows(inbox[c], base[c], server)

\* What a client in the room lacks is in the join's answer or in an update.
Coming(box, e) == \E i \in DOMAIN box : box[i].kind \in {"joined", "news"} /\ e \in box[i].edits
Complete(box, shown, held, state) == \A e \in state :
  /\ e \in shown \cup held \/ Coming(box, e)
  /\ Has(box, "joined") => e \in shown \/ Coming(box, e)
NothingSkipped == \A c \in room : Complete(inbox[c], doc[c], base[c] \cup remote[c], server)

IInv ==
  /\ TypeOK /\ NothingForgotten
  /\ FlightsAreSafe /\ OwnAreShown /\ StreamsFit /\ StatesGrow /\ NothingSkipped

=============================================================================
