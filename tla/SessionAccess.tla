---------------------------- MODULE SessionAccess ----------------------------
(***************************************************************************)
(* Who gets into one open session: invitation links, the grants and        *)
(* tickets the web application issues for them, and the collab server that *)
(* admits sockets by their ticket.  The web application remembers in its   *)
(* database who was removed and whether guests are welcome; the collab     *)
(* server keeps both in memory, and the guest policy in the audit trail of *)
(* the session.  A web request or a join stands at one of its awaits.      *)
(***************************************************************************)
EXTENDS Naturals, Sequences, Functions

CONSTANTS
  Users,        \* accounts
  Guests,       \* guest ids, each given out once
  Owner,        \* the owner of the session
  Sockets,      \* connections a person may have open at a time
  Holder,       \* whose browser a socket belongs to
  AccessTasks,  \* requests the web process serves at a time
  MaxLinks,     \* bound: invitation links per role
  MaxTime,      \* bound: the clock that dates tickets and policies
  MaxPolicies,  \* bound: changes of the guest policy
  Nobody

People == Users \cup Guests \cup {Owner}
Roles == {"collaborator", "viewer"}

ASSUME AccessAssumption ==
  /\ Holder \in [Sockets -> People] /\ MaxLinks \in Nat \ {0} /\ MaxTime \in Nat \ {0} /\ MaxPolicies \in Nat
  /\ Guests \cap (Users \cup {Owner}) = {} /\ Nobody \notin People \cup Sockets \cup AccessTasks

VARIABLES
  link,         \* app_session_invites: by role the latest link and whether it is valid
  known,        \* rows of app_session_participants and app_session_guests
  removed,      \* those with removed_at
  allowGuests,  \* app_sessions.allow_anonymous_viewers
  grant,        \* the grant cookie of a browser: a role and the number of its link
  ticket,       \* the ticket a browser holds: the time of its issue, 0 for none
  task,         \* web requests
  socket,       \* connections and the ticket each was made with
  policy,       \* guest policy in the collab server's memory
  trail,        \* the latest policy in the audit trail
  excluded,     \* removed participants in the collab server's memory
  updates,      \* guest-access calls the collab server has accepted, one at a time
  clock,
  out,          \* history: people whose removal was answered with success
  slipped,      \* history: people a join or a restart let past their removal
  confirmed,    \* history: the last change of allowGuests was answered with success
  off           \* history: the time of the last confirmed disabling of guests

webSide == <<link, known, removed, allowGuests, grant, ticket, task>>
collabSide == <<socket, policy, trail, excluded, updates>>
told == <<out, slipped, confirmed, off>>
accessVars == <<webSide, collabSide, clock, told>>

Idle == [op |-> "none", at |-> "none", who |-> Nobody, role |-> "viewer", n |-> 0,
         socket |-> Nobody, on |-> FALSE, since |-> 0]
NoPolicy == [on |-> TRUE, before |-> 0, revision |-> 0]
Unconnected == [at |-> "off", issued |-> 0]
Inside == {"entering", "in"}

AccessTypes ==
  /\ \A r \in Roles : link[r].n \in 1 .. MaxLinks /\ link[r].valid \in BOOLEAN
  /\ known \subseteq Users \cup Guests /\ removed \subseteq known
  /\ \A s \in Sockets : socket[s].at \in {"off", "connected", "joining", "sweeping"} \cup Inside
  /\ \A s \in Sockets : socket[s].issued <= clock
  /\ policy.revision >= 0 /\ policy.before <= clock /\ trail.before <= clock
  /\ out \subseteq People /\ excluded \subseteq Users \cup Guests /\ off <= clock
  /\ \A t \in AccessTasks : task[t].who \in People \cup {Nobody}

AccessInit ==
  /\ link = [r \in Roles |-> [n |-> 1, valid |-> TRUE]]
  /\ known = {} /\ removed = {} /\ allowGuests \in BOOLEAN
  /\ grant = [p \in People |-> <<"viewer", 0>>] /\ ticket = [p \in People |-> 0]
  /\ task = [t \in AccessTasks |-> Idle]
  /\ socket = [s \in Sockets |-> Unconnected]
  /\ policy = NoPolicy /\ trail = NoPolicy /\ excluded = {} /\ updates = <<>>
  /\ clock = 1 /\ out = {} /\ slipped = {} /\ confirmed = TRUE /\ off = 0

-----------------------------------------------------------------------------

Valid(role, n) == link[role].valid /\ link[role].n = n

\* The cookie of a claim carries the link's id, and is good as long as the link is.
GrantCookie(p, role, n) == grant' = [grant EXCEPT ![p] = <<role, n>>]
HoldsGrant(p) == grant[p][2] # 0 /\ Valid(grant[p][1], grant[p][2])

\* Rows of participants and guests.  A row that exists keeps its removed_at.
Record(p) == known' = known \cup {p}
GuestRow(p) == p \in Guests \cap known
MarkRemoved(p) == removed' = removed \cup ({p} \cap known)
IsRemoved(p) == p \in removed

StandsAt(t, op, at) == task[t].op = op /\ task[t].at = at
Start(t, fields) == task[t] = Idle /\ task' = [task EXCEPT ![t] = fields]
GoOn(t, at) == task' = [task EXCEPT ![t].at = at]
Finish(t) == task' = [task EXCEPT ![t] = Idle]

(* Invitation links.                                                       *)

NewLink(r) ==
  /\ link[r].n < MaxLinks
  /\ link' = [link EXCEPT ![r] = [n |-> @.n + 1, valid |-> TRUE]]

\* ensureSessionInvites replaces a link that is missing; rotate revokes the one there is.
EnsureInvite(r) ==
  /\ ~link[r].valid /\ NewLink(r)
  /\ UNCHANGED <<known, removed, allowGuests, grant, ticket, task, collabSide, clock, told>>
RotateInvite(r) ==
  /\ NewLink(r)
  /\ UNCHANGED <<known, removed, allowGuests, grant, ticket, task, collabSide, clock, told>>
InviteExpires(r) ==
  /\ link[r].valid /\ link' = [link EXCEPT ![r].valid = FALSE]
  /\ UNCHANGED <<known, removed, allowGuests, grant, ticket, task, collabSide, clock, told>>

\* claim and claim-guest: the session and the link are read, then the person's row
\* is written; the cookie carries the link that was read.
ClaimRead(t, p, r) ==
  /\ link[r].valid
  /\ \/ p \in Users
     \/ p \in Guests \ known /\ r = "viewer" /\ allowGuests
  /\ Start(t, [Idle EXCEPT !.op = "claim", !.at = "record", !.who = p, !.role = r, !.n = link[r].n])
  /\ UNCHANGED <<link, known, removed, allowGuests, grant, ticket, collabSide, clock, told>>

ClaimRecord(t) ==
  LET p == task[t].who
  IN  /\ StandsAt(t, "claim", "record") /\ Finish(t)
      /\ Record(p) /\ GrantCookie(p, task[t].role, task[t].n)
      /\ UNCHANGED <<link, removed, allowGuests, ticket, collabSide, clock, told>>

(* Tickets: POST socket-token, and authorizeSessionRequest, which asks the *)
(* same questions for an API request.                                      *)

OwnerTicket ==
  /\ ticket' = [ticket EXCEPT ![Owner] = clock]
  /\ UNCHANGED <<link, known, removed, allowGuests, grant, task, collabSide, clock, told>>

\* By the grant, or, for an account, by the link itself.
TokenRead(t, p) ==
  /\ p \in Users \/ GuestRow(p)
  /\ \/ HoldsGrant(p)
     \/ p \in Users /\ \E r \in Roles : link[r].valid
  /\ Start(t, [Idle EXCEPT !.op = "token", !.at = IF p \in Guests THEN "allowed" ELSE "removed",
                           !.who = p])
  /\ UNCHANGED <<link, known, removed, allowGuests, grant, ticket, collabSide, clock, told>>

TokenAllowed(t) ==
  /\ StandsAt(t, "token", "allowed")
  /\ IF allowGuests THEN GoOn(t, "removed") ELSE Finish(t)
  /\ UNCHANGED <<link, known, removed, allowGuests, grant, ticket, collabSide, clock, told>>

TokenRemoved(t) ==
  /\ StandsAt(t, "token", "removed")
  /\ IF IsRemoved(task[t].who) THEN Finish(t) ELSE GoOn(t, "issue")
  /\ UNCHANGED <<link, known, removed, allowGuests, grant, ticket, collabSide, clock, told>>

\* An account's row is written, a guest's is touched; then the ticket is dated.
TokenIssue(t) ==
  /\ StandsAt(t, "token", "issue") /\ Finish(t)
  /\ Record(task[t].who)
  /\ ticket' = [ticket EXCEPT ![task[t].who] = clock]
  /\ UNCHANGED <<link, removed, allowGuests, grant, collabSide, clock, told>>

TicketExpires(p) ==
  /\ ticket[p] # 0 /\ ticket' = [ticket EXCEPT ![p] = 0]
  /\ UNCHANGED <<link, known, removed, allowGuests, grant, task, collabSide, clock, told>>

-----------------------------------------------------------------------------
(* Sockets at the collab server.                                           *)

CanAccessUnder(rules, s) ==
  Holder[s] \in Guests /\ rules.revision > 0 => rules.on /\ socket[s].issued > rules.before

\* Mutant: a collab server that has restarted goes by its memory.
NotRestored == policy

\* restoreGuestPolicy: only newer policies of the trail.
Restored == IF trail.revision > policy.revision THEN trail ELSE policy

\* readAuth of an HTTP request with a guest's ticket; of the guest's requests none
\* changes anything else.
RestoreForRequest(p) ==
  /\ p \in Guests /\ ticket[p] # 0
  /\ policy' = Restored /\ Restored # policy
  /\ UNCHANGED <<webSide, socket, trail, excluded, updates, clock, told>>

\* The ticket is verified here, and its expiry nowhere else.
Connect(s) ==
  /\ socket[s].at = "off" /\ ticket[Holder[s]] # 0
  /\ socket' = [socket EXCEPT ![s] = [at |-> "connected", issued |-> ticket[Holder[s]]]]
  /\ UNCHANGED <<webSide, policy, trail, excluded, updates, clock, told>>

\* Mutant: the exclusion is not asked for.
JoinUnexcluded(s) ==
  /\ socket[s].at = "connected" /\ CanAccessUnder(policy, s)
  /\ socket' = [socket EXCEPT ![s].at = "joining"]
  /\ UNCHANGED <<webSide, policy, trail, excluded, updates, clock, told>>

JoinStart(s) ==
  /\ socket[s].at = "connected" /\ CanAccessUnder(policy, s)
  /\ Holder[s] \notin excluded
  /\ socket' = [socket EXCEPT ![s].at = "joining"]
  /\ UNCHANGED <<webSide, policy, trail, excluded, updates, clock, told>>

\* The session is registered and its policy restored before the access is asked again.
JoinRegistered(s) ==
  /\ socket[s].at = "joining" /\ policy' = Restored
  /\ socket' = [socket EXCEPT ![s].at = IF CanAccessUnder(Restored, s) THEN "entering" ELSE "connected"]
  /\ UNCHANGED <<webSide, trail, excluded, updates, clock, told>>

\* And once more when the socket is in the room, before its presence is added.
JoinEnter(s) ==
  /\ socket[s].at = "entering"
  /\ socket' = [socket EXCEPT ![s].at = IF CanAccessUnder(policy, s) THEN "in" ELSE "connected"]
  /\ UNCHANGED <<webSide, policy, trail, excluded, updates, clock, told>>

\* A socket's id is of one connection: requests about it find nobody from now on.
Forget(gone) == [t \in AccessTasks |->
  IF task[t].socket \in gone THEN [task[t] EXCEPT !.socket = Nobody] ELSE task[t]]

Disconnect(s) ==
  /\ socket[s].at # "off" /\ socket' = [socket EXCEPT ![s] = Unconnected]
  /\ task' = Forget({s})
  /\ UNCHANGED <<link, known, removed, allowGuests, grant, ticket, policy, trail, excluded,
                 updates, clock, told>>

\* Connections, exclusions and the policy in memory are gone.
CollabRestart ==
  /\ policy # NoPolicy \/ excluded # {} \/ updates # <<>>
  /\ socket' = [s \in Sockets |-> Unconnected] /\ task' = Forget(Sockets)
  /\ policy' = NoPolicy /\ excluded' = {} /\ updates' = <<>>
  /\ slipped' = slipped \cup {p \in out : ticket[p] # 0
                                \/ \E t \in AccessTasks : StandsAt(t, "token", "issue") /\ task[t].who = p}
  /\ UNCHANGED <<link, known, removed, allowGuests, grant, ticket, trail, clock, out, confirmed, off>>

-----------------------------------------------------------------------------
(* Removing a participant: DELETE clients/[socketId].                      *)

\* inspectCollabSession; who is Nobody for the owner, for a socket that is not
\* listed, and when the collab server cannot be reached.
RemoveInspect(t, s) ==
  /\ socket[s].at = "in"
  /\ \E who \in {Nobody, Holder[s]} \ {Owner} :
       Start(t, [Idle EXCEPT !.op = "remove", !.at = IF who = Nobody THEN "kick" ELSE "mark",
                             !.who = who, !.socket = s])
  /\ UNCHANGED <<link, known, removed, allowGuests, grant, ticket, collabSide, clock, told>>

RemoveMark(t) ==
  /\ StandsAt(t, "remove", "mark") /\ GoOn(t, "kick")
  /\ MarkRemoved(task[t].who)
  /\ UNCHANGED <<link, known, allowGuests, grant, ticket, collabSide, clock, told>>

\* client:kick: every socket of the person that is present; with excludeActor the
\* person may not join again.  The audit of each is modelled in SessionRoom.
RemoveKick(t) ==
  LET p == task[t].who
      present == {s \in Sockets : socket[s].at = "in" /\ Holder[s] = p}
      gone == IF p = Nobody THEN {task[t].socket} ELSE present
  IN  /\ StandsAt(t, "remove", "kick")
      /\ IF task[t].socket # Nobody /\ socket[task[t].socket].at = "in"
           THEN /\ socket' = [s \in Sockets |-> IF s \in gone THEN Unconnected ELSE socket[s]]
                /\ task' = [Forget(gone) EXCEPT ![t] = Idle]
                /\ excluded' = excluded \cup ({p} \ {Nobody})
                /\ out' = out \cup ({p} \ {Nobody})
                /\ slipped' = slipped \cup
                     {Holder[s] : s \in {x \in Sockets : socket[x].at \in {"joining", "entering"} /\ Holder[x] = p}}
           ELSE Finish(t) /\ UNCHANGED <<socket, excluded, out, slipped>>
      /\ UNCHANGED <<link, known, removed, allowGuests, grant, ticket, policy, trail, updates,
                     clock, confirmed, off>>

-----------------------------------------------------------------------------
(* Switching guests on and off: PATCH settings.                            *)

SettingsStart(t, on) ==
  /\ Start(t, [Idle EXCEPT !.op = "settings", !.at = "row", !.on = on])
  /\ UNCHANGED <<link, known, removed, allowGuests, grant, ticket, collabSide, clock, told>>

\* settingsUpdates: one change of a session at a time.
SettingsRow(t) ==
  /\ StandsAt(t, "settings", "row")
  /\ \A x \in AccessTasks : task[x].op = "settings" => task[x].at = "row"
  /\ allowGuests' = task[t].on /\ confirmed' = FALSE
  /\ task' = [task EXCEPT ![t].at = "call", ![t].since = clock]
  /\ UNCHANGED <<link, known, removed, grant, ticket, collabSide, clock, out, slipped, off>>

SettingsCall(t) ==
  /\ StandsAt(t, "settings", "call") /\ GoOn(t, "wait") /\ Len(updates) < MaxPolicies
  /\ updates' = Append(updates, [task |-> t, at |-> "read", rules |-> [NoPolicy EXCEPT !.on = task[t].on]])
  /\ UNCHANGED <<link, known, removed, allowGuests, grant, ticket, socket, policy, trail, excluded, clock, told>>

\* The call fails, or its time is over while the collab server still works on it;
\* or the web process ends.
GiveUp(t) ==
  /\ task[t] # Idle /\ Finish(t)
  /\ updates' = [i \in DOMAIN updates |->
       IF updates[i].task = t THEN [updates[i] EXCEPT !.task = Nobody] ELSE updates[i]]
  /\ UNCHANGED <<link, known, removed, allowGuests, grant, ticket, socket, policy, trail, excluded, clock, told>>

Working(at) == updates # <<>> /\ Head(updates).at = at
Proceed(at, rules) ==
  updates' = [updates EXCEPT ![1].at = at, ![1].rules = rules]

\* nextGuestPolicy, from the session that was read.
PolicyRead ==
  LET on == Head(updates).rules.on
  IN  /\ Working("read") /\ policy' = Restored /\ Restored.revision < MaxPolicies
      /\ Proceed("persist", [on |-> on, before |-> IF on THEN Restored.before ELSE clock,
                             revision |-> Restored.revision + 1])
      /\ UNCHANGED <<webSide, socket, trail, excluded, clock, told>>

PolicyPersist ==
  /\ Working("persist") /\ Proceed("apply", Head(updates).rules)
  /\ trail' = Head(updates).rules
  /\ UNCHANGED <<webSide, socket, policy, excluded, clock, told>>

\* The policy applies before the sockets of the room are fetched.
PolicyApply ==
  LET rules == Head(updates).rules
  IN  /\ Working("apply") /\ Proceed("sweep", rules) /\ policy' = rules
      /\ socket' = [s \in Sockets |->
           IF ~rules.on /\ Holder[s] \in Guests /\ socket[s].at \in Inside
             THEN [socket[s] EXCEPT !.at = "sweeping"] ELSE socket[s]]
      /\ UNCHANGED <<webSide, trail, excluded, clock, told>>

Sweep(s) ==
  /\ Working("sweep") /\ socket[s].at = "sweeping"
  /\ socket' = [socket EXCEPT ![s] = Unconnected] /\ task' = Forget({s})
  /\ UNCHANGED <<link, known, removed, allowGuests, grant, ticket, policy, trail, excluded,
                 updates, clock, told>>

\* The answer, to whom still waits for it.
PolicyDone ==
  LET u == Head(updates)
  IN  /\ Working("sweep") /\ \A s \in Sockets : socket[s].at # "sweeping"
      /\ updates' = Tail(updates)
      /\ IF u.task \in AccessTasks
           THEN /\ Finish(u.task) /\ confirmed' = TRUE
                /\ off' = IF u.rules.on THEN off ELSE task[u.task].since
           ELSE UNCHANGED <<task, confirmed, off>>
      /\ UNCHANGED <<link, known, removed, allowGuests, grant, ticket, socket, policy, trail,
                     excluded, clock, out, slipped>>

Tick ==
  /\ clock < MaxTime /\ clock' = clock + 1
  /\ UNCHANGED <<webSide, collabSide, told>>

-----------------------------------------------------------------------------

AccessNext ==
  \/ \E r \in Roles : EnsureInvite(r) \/ RotateInvite(r) \/ InviteExpires(r)
  \/ \E t \in AccessTasks :
       \/ \E p \in Users \cup Guests, r \in Roles : ClaimRead(t, p, r)
       \/ \E p \in Users \cup Guests : TokenRead(t, p)
       \/ ClaimRecord(t) \/ TokenAllowed(t) \/ TokenRemoved(t) \/ TokenIssue(t)
       \/ \E s \in Sockets : RemoveInspect(t, s)
       \/ RemoveMark(t) \/ RemoveKick(t)
       \/ \E on \in BOOLEAN : SettingsStart(t, on)
       \/ SettingsRow(t) \/ SettingsCall(t) \/ GiveUp(t)
  \/ OwnerTicket \/ \E p \in People : TicketExpires(p) \/ RestoreForRequest(p)
  \/ \E s \in Sockets :
       Connect(s) \/ JoinStart(s) \/ JoinRegistered(s) \/ JoinEnter(s) \/ Disconnect(s) \/ Sweep(s)
  \/ PolicyRead \/ PolicyPersist \/ PolicyApply \/ PolicyDone
  \/ CollabRestart \/ Tick

AccessSpec == AccessInit /\ [][AccessNext]_accessVars

-----------------------------------------------------------------------------
(* Properties.                                                             *)

\* A removed participant does not come back: not by a reconnect, by the grant it
\* holds, by another link, nor after a restart of the collab server, which forgets
\* whom it excluded.  What passes is a join that was past the exclusion's check when
\* the removal ran, and a ticket issued before it that outlives a restart.
RemovedStaysOut ==
  \A s \in Sockets : socket[s].at = "in" => Holder[s] \notin out \ slipped

\* Once guests were switched off with success no guest is in the room, and no ticket
\* from before that is good for the room again, also when guests are welcome again
\* or the collab server has restarted in between.
RevokedGuestsAreOut ==
  \A s \in Sockets : socket[s].at = "in" /\ Holder[s] \in Guests =>
    (confirmed => allowGuests) /\ socket[s].issued > off
=============================================================================
