-------------------------- MODULE SessionAccessProofs --------------------------
(* Access to a session for any number of people, sockets, requests and links: *)
(* who was removed stays out.  Removal is remembered in two places, and each  *)
(* covers what the other forgets: the database refuses new tickets for good,  *)
(* the collab server's memory refuses the tickets that were issued before,    *)
(* until it restarts.  Guests whose links a policy revokes are out once it is *)
(* applied, and links, tickets and policies have their types.                 *)
EXTENDS SessionAccess, TLAPS

Link == [n: Nat, valid: BOOLEAN]
Stages == {"off", "connected", "joining", "entering", "in", "sweeping"}
Socket == [at: Stages, issued: Nat]
Task == [op: {"none", "claim", "token", "remove", "settings"},
         at: {"none", "record", "allowed", "removed", "issue", "mark", "kick", "row", "call", "wait"},
         who: People \cup {Nobody}, role: Roles, n: Nat, socket: Sockets \cup {Nobody},
         on: BOOLEAN, since: Nat]

Shapes ==
  /\ link \in [Roles -> Link] /\ ticket \in [People -> Nat] /\ clock \in Nat \ {0}
  /\ socket \in [Sockets -> Socket] /\ task \in [AccessTasks -> Task]

Issues(t, p) == task[t].op = "token" /\ task[t].at = "issue" /\ task[t].who = p

\* Whoever holds a ticket or a connection has a row; who is about to be kicked is
\* marked in it.
Removes(q, rows, marked) ==
  q.op = "remove" /\ q.who # Nobody =>
    q.who \in People \ {Owner} /\ q.who \in rows /\ (q.at = "kick" => q.who \in marked)
HaveRows ==
  /\ \A p \in People \ {Owner} : ticket[p] # 0 => p \in known
  /\ \A s \in Sockets : socket[s].at # "off" /\ Holder[s] # Owner => Holder[s] \in known
  /\ \A t \in AccessTasks : Removes(task[t], known, removed)

Joins == {"joining", "entering", "in"}

\* The collab server remembers p, and no join of p is under way or done.
Barred(p) == p \in excluded /\ \A s \in Sockets : Holder[s] = p => socket[s].at \notin Joins
\* Nothing is left that p could join with.
Gone(p) ==
  /\ ticket[p] = 0 /\ \A t \in AccessTasks : ~Issues(t, p)
  /\ \A s \in Sockets : Holder[s] = p => socket[s].at = "off"

OutStays ==
  \A p \in out : p \in People \ {Owner} /\ p \in removed /\ (p \in slipped \/ Barred(p) \/ Gone(p))

RInv == Shapes /\ HaveRows /\ OutStays

-----------------------------------------------------------------------------
(* What a step may do.                                                     *)

TicketsAllowed ==
  \A p \in People : ticket'[p] # 0 =>
    /\ ticket[p] # 0 \/ p = Owner \/ \E t \in AccessTasks : Issues(t, p)
    /\ p = Owner \/ p \in known'

\* Nobody connects without a ticket, or joins while excluded.
SocketsAllowed ==
  \A s \in Sockets :
    /\ socket'[s].at # "off" => socket[s].at # "off" \/ ticket[Holder[s]] # 0
    /\ socket'[s].at \in Joins => socket[s].at \in Joins \/ Holder[s] \notin excluded

\* No ticket is about to be issued to who is removed, unless it was already.
TasksAllowed ==
  \A t \in AccessTasks :
    /\ Removes(task'[t], known', removed')
    /\ \A p \in People : Issues(t, p)' => Issues(t, p) \/ p \notin removed

LEMMA AllowedStep ==
  ASSUME RInv, Shapes', TicketsAllowed, SocketsAllowed, TasksAllowed,
         known \subseteq known', removed \subseteq removed', UNCHANGED <<excluded, out, slipped>>
  PROVE  RInv'
<1>1. Holder \in [Sockets -> People]
  BY AccessAssumption
<1>2. HaveRows'
  <2>1. \A p \in People \ {Owner} : ticket'[p] # 0 => p \in known'
    BY DEF TicketsAllowed
  <2>2. \A s \in Sockets : socket'[s].at # "off" /\ Holder[s] # Owner => Holder[s] \in known'
    BY <1>1 DEF SocketsAllowed, RInv, HaveRows
  <2>3. \A t \in AccessTasks : Removes(task'[t], known', removed')
    BY DEF TasksAllowed
  <2> QED BY <2>1, <2>2, <2>3 DEF HaveRows
<1>3. ASSUME NEW p \in out
      PROVE  p \in People \ {Owner} /\ p \in removed' /\ (p \in slipped' \/ Barred(p)' \/ Gone(p)')
  <2>1. p \in People \ {Owner} /\ p \in removed /\ (p \in slipped \/ Barred(p) \/ Gone(p))
    BY <1>3 DEF RInv, OutStays
  <2>2. CASE Barred(p)
    BY <2>1, <2>2 DEF Barred, SocketsAllowed
  <2>3. CASE Gone(p)
    <3>1. ticket'[p] = 0
      BY <2>1, <2>3 DEF Gone, TicketsAllowed
    <3>2. \A s \in Sockets : Holder[s] = p => socket'[s].at = "off"
      BY <2>3 DEF Gone, SocketsAllowed
    <3>3. \A t \in AccessTasks : ~Issues(t, p)'
      BY <2>1, <2>3 DEF Gone, TasksAllowed
    <3> QED BY <2>1, <3>1, <3>2, <3>3 DEF Gone
  <2> QED BY <2>1, <2>2, <2>3
<1> QED BY <1>2, <1>3 DEF RInv, OutStays

\* Nothing about tickets, sockets or tasks.
LEMMA SameTickets ==
  ASSUME RInv, UNCHANGED ticket, known \subseteq known'
  PROVE  TicketsAllowed
  BY DEF RInv, HaveRows, TicketsAllowed

LEMMA SameSockets ==
  ASSUME UNCHANGED socket
  PROVE  SocketsAllowed
  BY DEF SocketsAllowed

LEMMA SameTasks ==
  ASSUME RInv, known \subseteq known', removed \subseteq removed',
         \A t \in AccessTasks : /\ task'[t].op = task[t].op /\ task'[t].at = task[t].at
                                /\ task'[t].who = task[t].who
  PROVE  TasksAllowed
  BY DEF RInv, HaveRows, TasksAllowed, Removes, Issues

\* One request goes on as q.
LEMMA OneTask ==
  ASSUME RInv, known \subseteq known', removed \subseteq removed', NEW t \in AccessTasks, NEW q \in Task,
         task' = [task EXCEPT ![t] = q], Removes(q, known', removed'),
         q.op = "token" /\ q.at = "issue" => q.who \notin removed
  PROVE  TasksAllowed /\ task' \in [AccessTasks -> Task]
<1>1. task' \in [AccessTasks -> Task] /\ \A x \in AccessTasks : task'[x] = IF x = t THEN q ELSE task[x]
  BY DEF RInv, Shapes
<1>2. ASSUME NEW x \in AccessTasks, x # t
      PROVE  /\ Removes(task'[x], known', removed')
             /\ \A p \in People : Issues(x, p)' => Issues(x, p)
  BY <1>1, <1>2 DEF RInv, HaveRows, Removes, Issues
<1>3. /\ Removes(task'[t], known', removed')
      /\ \A p \in People : Issues(t, p)' => p \notin removed
  BY <1>1 DEF Issues
<1> QED BY <1>1, <1>2, <1>3 DEF TasksAllowed

\* A request alone, with at most links, the clock or the guest policy beside it.
LEMMA TaskStep ==
  ASSUME RInv, NEW t \in AccessTasks, NEW q \in Task, task' = [task EXCEPT ![t] = q],
         Removes(q, known', removed'), q.op = "token" /\ q.at = "issue" => q.who \notin removed,
         known \subseteq known', removed \subseteq removed',
         UNCHANGED <<link, ticket, socket, clock, excluded, out, slipped>>
  PROVE  RInv'
<1>1. TasksAllowed /\ Shapes'
  BY OneTask DEF RInv, Shapes
<1> QED BY <1>1, AllowedStep, SameTickets, SameSockets

LEMMA IdleIsTask == Idle \in Task /\ Idle.op = "none" /\ \A rows, marked : Removes(Idle, rows, marked)
<1>1. Idle = [op |-> "none", at |-> "none", who |-> Nobody, role |-> "viewer", n |-> 0,
              socket |-> Nobody, on |-> FALSE, since |-> 0]
  BY DEF Idle
<1> QED BY <1>1 DEF Task, Roles, Removes

LEMMA FinishStep ==
  ASSUME RInv, NEW t \in AccessTasks, Finish(t), known \subseteq known', removed \subseteq removed',
         UNCHANGED <<link, ticket, socket, clock, excluded, out, slipped>>
  PROVE  RInv'
  BY IdleIsTask, TaskStep DEF Finish

\* A request goes to its next await.
LEMMA GoOnStep ==
  ASSUME RInv, NEW t \in AccessTasks, NEW at \in {"removed", "issue", "kick", "wait"}, GoOn(t, at),
         task[t].op = "remove" /\ at = "kick" /\ task[t].who # Nobody => task[t].who \in removed',
         at = "issue" => task[t].who \notin removed,
         known \subseteq known', removed \subseteq removed',
         UNCHANGED <<link, ticket, socket, clock, excluded, out, slipped>>
  PROVE  RInv'
<1> DEFINE q == [task[t] EXCEPT !.at = at]
<1>1. task[t] \in Task /\ Removes(task[t], known, removed)
  BY DEF RInv, Shapes, HaveRows
<1>2. q \in Task /\ q.op = task[t].op /\ q.at = at /\ q.who = task[t].who
  BY <1>1 DEF Task
<1>3. task' = [task EXCEPT ![t] = q]
  BY DEF GoOn
<1> HIDE DEF q
<1>4. Removes(q, known', removed')
  BY <1>1, <1>2 DEF Removes
<1> QED BY <1>2, <1>3, <1>4, TaskStep

-----------------------------------------------------------------------------
(* The steps of the web application.                                       *)

LEMMA LinkStep ==
  ASSUME RInv, NEW r \in Roles, EnsureInvite(r) \/ RotateInvite(r) \/ InviteExpires(r)
  PROVE  RInv'
<1>1. UNCHANGED <<ticket, socket, task, clock, known, removed, excluded, out, slipped>>
  BY DEF EnsureInvite, RotateInvite, InviteExpires, collabSide, told
<1>2. link' \in [Roles -> Link]
  <2>1. link \in [Roles -> Link] /\ link[r] \in Link
    BY DEF RInv, Shapes
  <2>2. [n |-> link[r].n + 1, valid |-> TRUE] \in Link /\ [link[r] EXCEPT !.valid = FALSE] \in Link
    <3>1. link[r].n + 1 \in Nat
      BY <2>1 DEF Link
    <3> QED BY <2>1, <3>1 DEF Link
  <2>3. \/ link' = [link EXCEPT ![r] = [n |-> link[r].n + 1, valid |-> TRUE]]
        \/ link' = [link EXCEPT ![r] = [link[r] EXCEPT !.valid = FALSE]]
    BY DEF EnsureInvite, RotateInvite, InviteExpires, NewLink
  <2> QED BY <2>1, <2>2, <2>3
<1>3. Shapes' /\ TasksAllowed
  BY <1>1, <1>2, SameTasks DEF RInv, Shapes
<1> QED BY <1>1, <1>3, AllowedStep, SameTickets, SameSockets

\* Requests that begin.
LEMMA BeginStep ==
  ASSUME RInv, NEW t \in AccessTasks,
         \/ \E p \in Users \cup Guests, r \in Roles : ClaimRead(t, p, r)
         \/ \E p \in Users \cup Guests : TokenRead(t, p)
         \/ \E on \in BOOLEAN : SettingsStart(t, on)
  PROVE  RInv'
<1>1. UNCHANGED <<link, ticket, socket, clock, known, removed, excluded, out, slipped>>
  BY DEF ClaimRead, TokenRead, SettingsStart, collabSide, told
<1>2. Idle \in Task
  BY IdleIsTask
<1>3. ASSUME NEW q \in Task, q.op # "remove", q.at # "issue", Start(t, q)
      PROVE  RInv'
  <2>1. task' = [task EXCEPT ![t] = q] /\ Removes(q, known', removed')
    BY <1>3 DEF Start, Removes
  <2> QED BY <1>1, <1>3, <2>1, TaskStep
<1>4. ASSUME NEW p \in Users \cup Guests, NEW r \in Roles, ClaimRead(t, p, r) PROVE RInv'
  <2> DEFINE q == [Idle EXCEPT !.op = "claim", !.at = "record", !.who = p, !.role = r, !.n = link[r].n]
  <2>1. link[r].n \in Nat /\ p \in People
    BY DEF RInv, Shapes, Link, People
  <2>2. q \in Task /\ q.op = "claim" /\ q.at = "record"
    BY <1>2, <2>1 DEF Task
  <2>3. Start(t, q)
    BY <1>4 DEF ClaimRead
  <2> QED BY <1>3, <2>2, <2>3
<1>5. ASSUME NEW p \in Users \cup Guests, TokenRead(t, p) PROVE RInv'
  <2> DEFINE at == IF p \in Guests THEN "allowed" ELSE "removed"
             q == [Idle EXCEPT !.op = "token", !.at = at, !.who = p]
  <2>1. at \in {"allowed", "removed"} /\ p \in People
    BY DEF People
  <2>2. Start(t, q)
    BY <1>5 DEF TokenRead
  <2> HIDE DEF at
  <2>3. q \in Task /\ q.op = "token" /\ q.at # "issue"
    BY <1>2, <2>1 DEF Task
  <2> QED BY <1>3, <2>2, <2>3
<1>6. ASSUME NEW on \in BOOLEAN, SettingsStart(t, on) PROVE RInv'
  <2> DEFINE q == [Idle EXCEPT !.op = "settings", !.at = "row", !.on = on]
  <2>1. q \in Task /\ q.op = "settings" /\ q.at = "row"
    BY <1>2 DEF Task
  <2>2. Start(t, q)
    BY <1>6 DEF SettingsStart
  <2> QED BY <1>3, <2>1, <2>2
<1> QED BY <1>4, <1>5, <1>6

\* Requests that go on or end.
LEMMA ContinueStep ==
  ASSUME RInv, NEW t \in AccessTasks,
         \/ ClaimRecord(t) \/ TokenAllowed(t) \/ TokenRemoved(t)
         \/ RemoveMark(t) \/ SettingsCall(t) \/ GiveUp(t)
  PROVE  RInv'
<1>1. /\ UNCHANGED <<link, ticket, socket, clock, excluded, out, slipped>>
      /\ known \subseteq known' /\ removed \subseteq removed'
  BY DEF ClaimRecord, Record, TokenAllowed, TokenRemoved, RemoveMark, MarkRemoved, SettingsCall, GiveUp,
         collabSide, told
<1>2. CASE Finish(t)
  BY <1>1, <1>2, FinishStep
<1>3. CASE TokenAllowed(t) /\ GoOn(t, "removed")
  BY <1>1, <1>3, GoOnStep DEF TokenAllowed, StandsAt
<1>4. CASE TokenRemoved(t) /\ ~Finish(t)
  <2>1. GoOn(t, "issue") /\ task[t].who \notin removed /\ task[t].op = "token"
    BY <1>4 DEF TokenRemoved, StandsAt, IsRemoved
  <2> QED BY <1>1, <2>1, GoOnStep
<1>5. CASE RemoveMark(t)
  <2>1. task[t].op = "remove" /\ GoOn(t, "kick") /\ removed' = removed \cup ({task[t].who} \cap known)
    BY <1>5 DEF RemoveMark, StandsAt, MarkRemoved
  <2>2. task[t].who # Nobody => task[t].who \in removed'
    BY <2>1 DEF RInv, HaveRows, Removes
  <2> QED BY <1>1, <2>1, <2>2, GoOnStep
<1>6. CASE SettingsCall(t)
  <2>1. GoOn(t, "wait")
    BY <1>6 DEF SettingsCall
  <2> QED BY <1>1, <2>1, GoOnStep
<1> QED BY <1>2, <1>3, <1>4, <1>5, <1>6 DEF ClaimRecord, TokenAllowed, TokenRemoved, GiveUp

LEMMA SettingsRowStep ==
  ASSUME RInv, NEW t \in AccessTasks, SettingsRow(t)
  PROVE  RInv'
<1> DEFINE q == [task[t] EXCEPT !.at = "call", !.since = clock]
<1>1. task[t] \in Task /\ task[t].op = "settings" /\ clock \in Nat
  BY DEF RInv, Shapes, SettingsRow, StandsAt
<1>2. q \in Task /\ q.op = "settings" /\ q.at = "call"
  BY <1>1 DEF Task
<1>3. /\ task' = [task EXCEPT ![t] = q]
      /\ UNCHANGED <<link, ticket, socket, clock, known, removed, excluded, out, slipped>>
  BY DEF SettingsRow, collabSide
<1> HIDE DEF q
<1>4. Removes(q, known', removed')
  BY <1>2 DEF Removes
<1> QED BY <1>2, <1>3, <1>4, TaskStep

\* The owner whose removal is asked for is nobody's.
LEMMA InspectStep ==
  ASSUME RInv, NEW t \in AccessTasks, NEW s \in Sockets, RemoveInspect(t, s)
  PROVE  RInv'
<1>1. PICK who \in {Nobody, Holder[s]} \ {Owner} :
        Start(t, [Idle EXCEPT !.op = "remove", !.at = IF who = Nobody THEN "kick" ELSE "mark",
                              !.who = who, !.socket = s])
  BY DEF RemoveInspect
<1> DEFINE at == IF who = Nobody THEN "kick" ELSE "mark"
           q == [Idle EXCEPT !.op = "remove", !.at = at, !.who = who, !.socket = s]
<1>2. Holder[s] \in People /\ socket[s].at = "in"
  BY AccessAssumption DEF RemoveInspect
<1>3. who # Nobody => who \in People \ {Owner} /\ who \in known
  BY <1>2 DEF RInv, HaveRows
<1>4. at \in {"kick", "mark"} /\ (at = "kick" <=> who = Nobody) /\ task' = [task EXCEPT ![t] = q]
  BY <1>1 DEF Start
<1> HIDE DEF at
<1>5. Idle \in Task /\ who \in People \cup {Nobody}
  BY <1>2, IdleIsTask
<1>6. q \in Task /\ q.op = "remove" /\ q.at = at /\ q.who = who
  BY <1>4, <1>5 DEF Task
<1>7. UNCHANGED <<link, ticket, socket, clock, known, removed, excluded, out, slipped>>
  BY DEF RemoveInspect, collabSide, told
<1> HIDE DEF q
<1>8. Removes(q, known', removed')
  BY <1>3, <1>4, <1>6, <1>7 DEF Removes
<1> QED BY <1>4, <1>6, <1>7, <1>8, TaskStep

\* Tickets, dated by the clock.
LEMMA TicketStep ==
  ASSUME RInv,
         \/ OwnerTicket \/ \E p \in People : TicketExpires(p)
         \/ \E t \in AccessTasks : TokenIssue(t)
  PROVE  RInv'
<1>1. UNCHANGED <<link, socket, clock, removed, excluded, out, slipped>> /\ known \subseteq known'
  BY DEF OwnerTicket, TicketExpires, TokenIssue, Record, collabSide, told
<1>2. ticket \in [People -> Nat] /\ clock \in Nat
  BY DEF RInv, Shapes
<1>3. CASE OwnerTicket \/ \E p \in People : TicketExpires(p)
  <2>1. UNCHANGED task /\ ticket' \in [People -> Nat] /\ TicketsAllowed
    BY <1>1, <1>2, <1>3 DEF OwnerTicket, TicketExpires, TicketsAllowed, RInv, HaveRows
  <2>2. Shapes' /\ TasksAllowed
    BY <1>1, <2>1, SameTasks DEF RInv, Shapes
  <2> QED BY <1>1, <2>1, <2>2, AllowedStep, SameSockets
<1>4. CASE \E t \in AccessTasks : TokenIssue(t)
  <2>1. PICK t \in AccessTasks : TokenIssue(t)
    BY <1>4
  <2> DEFINE who == task[t].who
  <2>2. /\ Issues(t, who) /\ known' = known \cup {who} /\ ticket' = [ticket EXCEPT ![who] = clock]
        /\ task' = [task EXCEPT ![t] = Idle]
    BY <2>1 DEF TokenIssue, StandsAt, Issues, Record, Finish
  <2> HIDE DEF who
  <2>3. ticket' \in [People -> Nat] /\ TicketsAllowed
    BY <1>2, <2>2 DEF TicketsAllowed, RInv, HaveRows
  <2>4. TasksAllowed /\ task' \in [AccessTasks -> Task]
    BY <1>1, <2>2, IdleIsTask, OneTask
  <2>5. Shapes'
    BY <1>1, <2>3, <2>4 DEF RInv, Shapes
  <2> QED BY <1>1, <2>3, <2>4, <2>5, AllowedStep, SameSockets
<1> QED BY <1>3, <1>4

-----------------------------------------------------------------------------
(* The steps of the collab server.                                         *)

LEMMA ForgetKeeps ==
  ASSUME Shapes, NEW gone
  PROVE  /\ Forget(gone) \in [AccessTasks -> Task]
         /\ \A t \in AccessTasks : /\ Forget(gone)[t].op = task[t].op /\ Forget(gone)[t].at = task[t].at
                                   /\ Forget(gone)[t].who = task[t].who /\ Forget(gone)[t].on = task[t].on
                                   /\ Forget(gone)[t].since = task[t].since
<1>1. \A t \in AccessTasks : task[t] \in Task
  BY DEF Shapes
<1>2. \A t \in AccessTasks :
        /\ [task[t] EXCEPT !.socket = Nobody] \in Task
        /\ [task[t] EXCEPT !.socket = Nobody].op = task[t].op
        /\ [task[t] EXCEPT !.socket = Nobody].at = task[t].at
        /\ [task[t] EXCEPT !.socket = Nobody].who = task[t].who
        /\ [task[t] EXCEPT !.socket = Nobody].on = task[t].on
        /\ [task[t] EXCEPT !.socket = Nobody].since = task[t].since
  BY <1>1 DEF Task
<1> QED BY <1>1, <1>2 DEF Forget

\* A step of the collab server that excludes nobody.
LEMMA CollabStep ==
  ASSUME RInv, UNCHANGED <<link, ticket, known, removed, excluded, out, slipped>>, clock' \in Nat \ {0},
         socket' \in [Sockets -> Socket], SocketsAllowed,
         task' = task \/ \E gone \in SUBSET Sockets : task' = Forget(gone)
  PROVE  RInv'
<1>1. /\ task' \in [AccessTasks -> Task]
      /\ \A t \in AccessTasks : /\ task'[t].op = task[t].op /\ task'[t].at = task[t].at
                                /\ task'[t].who = task[t].who
  BY ForgetKeeps DEF RInv, Shapes
<1>2. Shapes' /\ TasksAllowed
  BY <1>1, SameTasks DEF RInv, Shapes
<1> QED BY <1>2, AllowedStep, SameTickets

LEMMA PolicyStep ==
  ASSUME RInv, \/ PolicyRead \/ PolicyPersist \/ Tick \/ \E p \in People : RestoreForRequest(p)
  PROVE  RInv'
<1>1. UNCHANGED <<link, ticket, socket, task, known, removed, excluded, out, slipped>>
  BY DEF PolicyRead, PolicyPersist, RestoreForRequest, Tick, webSide, collabSide, told
<1>2. clock' \in Nat \ {0}
  BY DEF PolicyRead, PolicyPersist, RestoreForRequest, Tick, RInv, Shapes
<1> QED BY <1>1, <1>2, CollabStep, SameSockets DEF RInv, Shapes

LEMMA PolicyDoneStep ==
  ASSUME RInv, PolicyDone
  PROVE  RInv'
<1>1. UNCHANGED <<link, ticket, socket, clock, known, removed, excluded, out, slipped>>
  BY DEF PolicyDone
<1>2. UNCHANGED task \/ \E t \in AccessTasks : Finish(t)
  BY DEF PolicyDone
<1> QED BY <1>1, <1>2, FinishStep, CollabStep, SameSockets DEF RInv, Shapes

LEMMA SocketStep ==
  ASSUME RInv, NEW s \in Sockets,
         \/ Connect(s) \/ JoinStart(s) \/ JoinRegistered(s) \/ JoinEnter(s) \/ Disconnect(s) \/ Sweep(s)
  PROVE  RInv'
<1>1. UNCHANGED <<link, ticket, clock, known, removed, excluded, out, slipped>>
  BY DEF Connect, JoinStart, JoinRegistered, JoinEnter, Disconnect, Sweep, webSide, told
<1>2. task' = task \/ task' = Forget({s})
  BY DEF Connect, JoinStart, JoinRegistered, JoinEnter, Disconnect, Sweep, webSide
<1>3. socket[s] \in Socket /\ ticket[Holder[s]] \in Nat
  BY AccessAssumption DEF RInv, Shapes
<1>4. ASSUME NEW c \in Socket, socket' = [socket EXCEPT ![s] = c],
             c.at # "off" => socket[s].at # "off" \/ ticket[Holder[s]] # 0,
             c.at \in Joins => socket[s].at \in Joins \/ Holder[s] \notin excluded
      PROVE  RInv'
  <2>1. /\ socket' \in [Sockets -> Socket]
        /\ \A x \in Sockets : socket'[x] = IF x = s THEN c ELSE socket[x]
    BY <1>4 DEF RInv, Shapes
  <2>2. SocketsAllowed
    BY <1>4, <2>1 DEF SocketsAllowed
  <2> QED BY <1>1, <1>2, <2>1, <2>2, CollabStep DEF RInv, Shapes
<1>5. CASE Connect(s)
  <2> DEFINE c == [at |-> "connected", issued |-> ticket[Holder[s]]]
  <2>1. c \in Socket /\ c.at = "connected"
    BY <1>3 DEF Socket, Stages
  <2>2. socket' = [socket EXCEPT ![s] = c] /\ ticket[Holder[s]] # 0
    BY <1>5 DEF Connect
  <2> QED BY <1>4, <2>1, <2>2 DEF Joins
<1>6. CASE Disconnect(s) \/ Sweep(s)
  <2>1. Unconnected \in Socket /\ Unconnected.at = "off"
    BY DEF Unconnected, Socket, Stages
  <2>2. socket' = [socket EXCEPT ![s] = Unconnected]
    BY <1>6 DEF Disconnect, Sweep
  <2> QED BY <1>4, <2>1, <2>2 DEF Joins
<1>7. ASSUME NEW at \in {"connected", "joining", "entering", "in"}, socket' = [socket EXCEPT ![s].at = at],
             socket[s].at # "off", socket[s].at \in Joins \/ Holder[s] \notin excluded
      PROVE  RInv'
  <2> DEFINE c == [socket[s] EXCEPT !.at = at]
  <2>1. c \in Socket
    BY <1>3 DEF Socket, Stages
  <2> QED BY <1>4, <1>7, <2>1
<1>8. CASE JoinStart(s)
  BY <1>7, <1>8 DEF JoinStart
<1>9. CASE JoinRegistered(s)
  <2>1. PICK at \in {"connected", "entering"} : socket' = [socket EXCEPT ![s].at = at]
    BY <1>9 DEF JoinRegistered
  <2> QED BY <1>7, <1>9, <2>1 DEF JoinRegistered, Joins
<1>10. CASE JoinEnter(s)
  <2>1. PICK at \in {"connected", "in"} : socket' = [socket EXCEPT ![s].at = at]
    BY <1>10 DEF JoinEnter
  <2> QED BY <1>7, <1>10, <2>1 DEF JoinEnter, Joins
<1> QED BY <1>5, <1>6, <1>8, <1>9, <1>10

LEMMA ApplyStep ==
  ASSUME RInv, PolicyApply
  PROVE  RInv'
<1> DEFINE swept(s) == ~Head(updates).rules.on /\ Holder[s] \in Guests /\ socket[s].at \in Inside
<1>1. /\ socket' = [s \in Sockets |-> IF swept(s) THEN [socket[s] EXCEPT !.at = "sweeping"] ELSE socket[s]]
      /\ UNCHANGED <<link, ticket, known, removed, task, clock, excluded, out, slipped>>
  BY DEF PolicyApply, webSide, told
<1>2. \A s \in Sockets : swept(s) => socket[s].at \in Inside
  OBVIOUS
<1> HIDE DEF swept
<1>3. \A s \in Sockets : /\ socket[s] \in Socket /\ [socket[s] EXCEPT !.at = "sweeping"] \in Socket
                         /\ [socket[s] EXCEPT !.at = "sweeping"].at = "sweeping"
  BY DEF RInv, Shapes, Socket, Stages
<1>4. socket' \in [Sockets -> Socket] /\ SocketsAllowed
  BY <1>1, <1>2, <1>3 DEF SocketsAllowed, Joins, Inside
<1> QED BY <1>1, <1>4, CollabStep DEF RInv, Shapes

-----------------------------------------------------------------------------
(* The two steps that matter: the kick and the restart.                    *)

\* After the kick every socket of the person that was in is gone; a join that is
\* under way slips through, and from now on the memory bars the others.
LEMMA KickStep ==
  ASSUME RInv, NEW t \in AccessTasks, RemoveKick(t)
  PROVE  RInv'
<1> DEFINE p == task[t].who
           present == {s \in Sockets : socket[s].at = "in" /\ Holder[s] = p}
           gone == IF p = Nobody THEN {task[t].socket} ELSE present
           late == {Holder[s] : s \in {x \in Sockets : socket[x].at \in {"joining", "entering"} /\ Holder[x] = p}}
<1>1. UNCHANGED <<link, ticket, clock, known, removed>>
  BY DEF RemoveKick
<1>2. CASE Finish(t) /\ UNCHANGED <<socket, excluded, out, slipped>>
  BY <1>1, <1>2, FinishStep
<1>3. CASE ~(Finish(t) /\ UNCHANGED <<socket, excluded, out, slipped>>)
  <2>1. /\ task[t].op = "remove" /\ task[t].at = "kick"
        /\ socket' = [s \in Sockets |-> IF s \in gone THEN Unconnected ELSE socket[s]]
        /\ task' = [Forget(gone) EXCEPT ![t] = Idle]
        /\ excluded' = excluded \cup ({p} \ {Nobody})
        /\ out' = out \cup ({p} \ {Nobody})
        /\ slipped' = slipped \cup late
    BY <1>3 DEF RemoveKick, StandsAt
  <2>2. p # Nobody => p \in People \ {Owner} /\ p \in removed
    BY <2>1 DEF RInv, HaveRows, Removes
  <2>3. p # Nobody => \A s \in Sockets : Holder[s] = p /\ socket[s].at = "in" => s \in gone
    OBVIOUS
  <2>4. \A s \in Sockets : Holder[s] = p /\ socket[s].at \in {"joining", "entering"} => p \in late
    OBVIOUS
  <2> HIDE DEF p, gone, late
  <2>5. Unconnected \in Socket /\ Unconnected.at = "off"
    BY DEF Unconnected, Socket, Stages
  <2>6. /\ socket' \in [Sockets -> Socket]
        /\ \A s \in Sockets : socket'[s] = IF s \in gone THEN Unconnected ELSE socket[s]
    BY <2>1, <2>5 DEF RInv, Shapes
  <2>7. /\ Forget(gone) \in [AccessTasks -> Task]
        /\ \A x \in AccessTasks : /\ Forget(gone)[x].op = task[x].op /\ Forget(gone)[x].at = task[x].at
                                  /\ Forget(gone)[x].who = task[x].who
    BY ForgetKeeps DEF RInv
  <2>8. /\ task' \in [AccessTasks -> Task]
        /\ \A x \in AccessTasks : x # t => /\ task'[x].op = task[x].op /\ task'[x].at = task[x].at
                                          /\ task'[x].who = task[x].who
        /\ task'[t] = Idle /\ Idle.op = "none"
    BY <2>1, <2>7, IdleIsTask
  <2>9. Shapes'
    BY <1>1, <2>6, <2>8 DEF RInv, Shapes
  <2>10. HaveRows'
    <3>1. \A s \in Sockets : socket'[s].at # "off" => socket[s].at # "off"
      BY <2>5, <2>6
    <3>2. \A x \in AccessTasks : Removes(task'[x], known, removed)
      BY <2>8 DEF RInv, HaveRows, Removes
    <3> QED BY <1>1, <3>1, <3>2 DEF RInv, HaveRows
  <2>11. ASSUME NEW x \in out'
         PROVE  x \in People \ {Owner} /\ x \in removed' /\ (x \in slipped' \/ Barred(x)' \/ Gone(x)')
    <3>1. CASE x = p /\ p # Nobody
      <4>1. x \in excluded'
        BY <2>1, <3>1
      <4>2. CASE x \in late
        BY <1>1, <2>1, <2>2, <3>1, <4>2
      <4>3. CASE x \notin late
        <5>1. \A s \in Sockets : Holder[s] = x => socket'[s].at \notin Joins
          BY <2>3, <2>4, <2>5, <2>6, <3>1, <4>3 DEF Joins
        <5> QED BY <1>1, <2>2, <3>1, <4>1, <5>1 DEF Barred
      <4> QED BY <4>2, <4>3
    <3>2. CASE ~(x = p /\ p # Nobody)
      <4>1. x \in out
        BY <2>1, <3>2
      <4>2. x \in People \ {Owner} /\ x \in removed /\ (x \in slipped \/ Barred(x) \/ Gone(x))
        BY <4>1 DEF RInv, OutStays
      <4>3. Barred(x) => Barred(x)'
        BY <2>1, <2>5, <2>6 DEF Barred, Joins
      <4>4. Gone(x) => Gone(x)'
        BY <1>1, <2>5, <2>6, <2>8 DEF Gone, Issues
      <4> QED BY <1>1, <2>1, <4>2, <4>3, <4>4
    <3> QED BY <3>1, <3>2
  <2> QED BY <2>9, <2>10, <2>11 DEF RInv, OutStays
<1> QED BY <1>2, <1>3

\* The restart forgets whom it barred.  Who holds no ticket, and has none under way, is
\* refused the next one.
LEMMA RestartStep ==
  ASSUME RInv, CollabRestart
  PROVE  RInv'
<1>1. /\ socket' = [s \in Sockets |-> Unconnected] /\ task' = Forget(Sockets)
      /\ slipped' = slipped \cup {p \in out : ticket[p] # 0
                                     \/ \E t \in AccessTasks : task[t].op = "token" /\ task[t].at = "issue"
                                                               /\ task[t].who = p}
      /\ UNCHANGED <<link, known, removed, ticket, clock, out>>
  BY DEF CollabRestart, StandsAt
<1>2. /\ task' \in [AccessTasks -> Task]
      /\ \A t \in AccessTasks : /\ task'[t].op = task[t].op /\ task'[t].at = task[t].at
                                /\ task'[t].who = task[t].who
  BY <1>1, ForgetKeeps DEF RInv
<1>3. socket' \in [Sockets -> Socket] /\ \A s \in Sockets : socket'[s].at = "off"
  BY <1>1 DEF Unconnected, Socket, Stages
<1>4. Shapes'
  BY <1>1, <1>2, <1>3 DEF RInv, Shapes
<1>5. HaveRows'
  BY <1>1, <1>2, <1>3 DEF RInv, HaveRows, Removes
<1>6. ASSUME NEW p \in out, p \notin slipped'
      PROVE  Gone(p)'
  <2>1. ticket[p] = 0 /\ \A t \in AccessTasks : ~Issues(t, p)
    BY <1>1, <1>6 DEF Issues
  <2>2. \A t \in AccessTasks : ~Issues(t, p)'
    BY <1>2, <2>1 DEF Issues
  <2> QED BY <1>1, <1>3, <2>1, <2>2 DEF Gone
<1>7. OutStays'
  BY <1>1, <1>6 DEF RInv, OutStays
<1> QED BY <1>4, <1>5, <1>7 DEF RInv

-----------------------------------------------------------------------------
(* The theorem.                                                            *)

LEMMA RInvInit == AccessInit => RInv
<1> SUFFICES ASSUME AccessInit PROVE RInv
  OBVIOUS
<1>1. Unconnected \in Socket /\ Unconnected.at = "off"
  BY DEF Unconnected, Socket, Stages
<1>2. [n |-> 1, valid |-> TRUE] \in Link
  BY DEF Link
<1>3. Shapes
  BY <1>1, <1>2, IdleIsTask DEF AccessInit, Shapes
<1>4. HaveRows
  BY <1>1, IdleIsTask DEF AccessInit, HaveRows
<1> QED BY <1>3, <1>4 DEF RInv, OutStays, AccessInit

LEMMA RInvNext == RInv /\ [AccessNext]_accessVars => RInv'
<1> SUFFICES ASSUME RInv, [AccessNext]_accessVars PROVE RInv'
  OBVIOUS
<1>1. CASE UNCHANGED accessVars
  <2>1. UNCHANGED <<link, ticket, clock, socket, task, known, removed, excluded, out, slipped>>
    BY <1>1 DEF accessVars, webSide, collabSide, told
  <2> QED BY <2>1, CollabStep, SameSockets DEF RInv, Shapes
<1>2. ASSUME NEW r \in Roles, EnsureInvite(r) \/ RotateInvite(r) \/ InviteExpires(r) PROVE RInv'
  BY <1>2, LinkStep
<1>3. ASSUME NEW t \in AccessTasks,
             \/ \E p \in Users \cup Guests, r \in Roles : ClaimRead(t, p, r)
             \/ \E p \in Users \cup Guests : TokenRead(t, p)
             \/ ClaimRecord(t) \/ TokenAllowed(t) \/ TokenRemoved(t) \/ TokenIssue(t)
             \/ \E s \in Sockets : RemoveInspect(t, s)
             \/ RemoveMark(t) \/ RemoveKick(t)
             \/ \E on \in BOOLEAN : SettingsStart(t, on)
             \/ SettingsRow(t) \/ SettingsCall(t) \/ GiveUp(t)
      PROVE  RInv'
  BY <1>3, BeginStep, ContinueStep, TicketStep, InspectStep, KickStep, SettingsRowStep
<1>4. ASSUME OwnerTicket \/ \E p \in People : TicketExpires(p) \/ RestoreForRequest(p) PROVE RInv'
  BY <1>4, TicketStep, PolicyStep
<1>5. ASSUME NEW s \in Sockets,
             Connect(s) \/ JoinStart(s) \/ JoinRegistered(s) \/ JoinEnter(s) \/ Disconnect(s) \/ Sweep(s)
      PROVE  RInv'
  BY <1>5, SocketStep
<1>6. ASSUME PolicyRead \/ PolicyPersist \/ PolicyApply \/ PolicyDone \/ CollabRestart \/ Tick PROVE RInv'
  BY <1>6, PolicyStep, ApplyStep, PolicyDoneStep, RestartStep
<1> QED BY <1>1, <1>2, <1>3, <1>4, <1>5, <1>6 DEF AccessNext

\* The invariant of removal holds for any number of people, sockets and requests.
THEOREM RemovalHolds == AccessSpec => []RInv
  BY RInvInit, RInvNext, PTL DEF AccessSpec

\* For any number of people, links, sockets and requests: who was removed is not in the
\* room again, unless a join or a restart let that person slip past the removal.
THEOREM RemovedParticipantsStayOut == AccessSpec => []RemovedStaysOut
<1>1. RInv => RemovedStaysOut
  BY DEF RInv, OutStays, Barred, Gone, Joins, RemovedStaysOut
<1> QED BY <1>1, RemovalHolds, PTL

-----------------------------------------------------------------------------
(* Guests switched off.  The collab server works on one change of the      *)
(* policy at a time, from its look at the session to the sweep of the      *)
(* room; the trail holds the newest policy, and memory is never ahead of it.*)

Policy == [on: BOOLEAN, before: Nat, revision: Nat]
Update == [task: AccessTasks \cup {Nobody}, at: {"read", "persist", "apply", "sweep"}, rules: Policy]

PolicyShapes ==
  /\ policy \in Policy /\ trail \in Policy /\ updates \in Seq(Update)
  /\ allowGuests \in BOOLEAN /\ off \in Nat

PolicyHolds ==
  /\ policy.revision <= trail.revision /\ (policy.revision = trail.revision => policy = trail)
  /\ trail.revision = 0 => trail = NoPolicy
  /\ trail.before <= clock /\ off <= trail.before

\* A change of the settings between its row and its answer.
Live(q) == q.op = "settings" /\ q.at \in {"call", "wait"}

\* Only the first update is worked on; who waits for an answer waits for the last.
UpdatesHold ==
  /\ \A i \in 2 .. Len(updates) : updates[i].at = "read"
  /\ Len(updates) > 0 =>
       LET u == updates[1]
       IN  /\ u.at = "persist" => /\ u.rules.revision = trail.revision + 1
                                  /\ trail.before <= u.rules.before /\ u.rules.before <= clock
                                  /\ u.rules.on => u.rules.before = trail.before
           /\ u.at \in {"apply", "sweep"} => u.rules = trail /\ trail.revision > 0
  /\ \A i \in 1 .. Len(updates) : updates[i].task \in AccessTasks =>
       LET q == task[updates[i].task]
       IN  /\ i = Len(updates) /\ q.op = "settings" /\ q.at = "wait" /\ q.on = updates[i].rules.on
           /\ updates[i].at # "read" /\ ~q.on => q.since <= updates[i].rules.before

\* Guests are to be swept out of the room in the next step.
AboutToSweep == Len(updates) > 0 /\ updates[1].at = "apply" /\ ~trail.on

GuestsFit ==
  /\ \A s \in Sockets : socket[s].at # "off" => socket[s].issued > 0
  /\ \A s \in Sockets : Holder[s] \in Guests /\ socket[s].at \in Inside =>
       socket[s].issued > off /\ ((trail.on /\ socket[s].issued > trail.before) \/ AboutToSweep)

\* Where guests were never welcome there are none.
NoGuests == Guests \cap known = {} /\ \A t \in AccessTasks : task[t].op \in {"claim", "token"} => task[t].who \notin Guests

SettingsHold ==
  /\ \A t, x \in AccessTasks : Live(task[t]) /\ Live(task[x]) => t = x
  /\ \A t \in AccessTasks : Live(task[t]) =>
       task[t].on = allowGuests /\ task[t].since <= clock /\ ~confirmed
  /\ confirmed => Len(updates) = 0 /\ (allowGuests \/ ~trail.on \/ NoGuests)

GInv == PolicyShapes /\ PolicyHolds /\ UpdatesHold /\ GuestsFit /\ SettingsHold
IInv == RInv /\ GInv

LEMMA RestoredIsTrail == GInv => Restored = trail
  BY DEF GInv, PolicyHolds, PolicyShapes, Policy, Restored

LEMMA NoPolicyIsPolicy == NoPolicy \in Policy /\ NoPolicy.on = TRUE /\ NoPolicy.before = 0 /\ NoPolicy.revision = 0
  BY DEF NoPolicy, Policy

LEMMA WorkingOn ==
  ASSUME GInv, NEW at, Working(at)
  PROVE  /\ Len(updates) \in Nat \ {0} /\ Head(updates) = updates[1] /\ updates[1] \in Update
         /\ updates[1].at = at /\ updates # <<>>
<1>1. updates \in Seq(Update) /\ updates # <<>>
  BY DEF Working, GInv, PolicyShapes
<1> QED BY <1>1 DEF Working

LEMMA Proceeds ==
  ASSUME GInv, NEW from, Working(from), NEW at \in {"persist", "apply", "sweep"}, NEW rules \in Policy,
         Proceed(at, rules)
  PROVE  /\ updates' \in Seq(Update) /\ Len(updates') = Len(updates)
         /\ updates'[1].at = at /\ updates'[1].rules = rules /\ updates'[1].task = updates[1].task
         /\ \A i \in 2 .. Len(updates) : updates'[i] = updates[i]
<1>1. /\ updates \in Seq(Update) /\ Len(updates) \in Nat \ {0} /\ updates[1] \in Update
  BY WorkingOn DEF GInv, PolicyShapes
<1> DEFINE u == [updates[1] EXCEPT !.at = at, !.rules = rules]
<1>2. u \in Update /\ u.at = at /\ u.rules = rules /\ u.task = updates[1].task
  BY <1>1 DEF Update
<1>3. updates' = [updates EXCEPT ![1] = u]
  BY DEF Proceed
<1> HIDE DEF u
<1>4. updates' \in Seq(Update) /\ Len(updates') = Len(updates)
  BY <1>1, <1>2, <1>3
<1>5. updates'[1] = u /\ \A i \in 2 .. Len(updates) : updates'[i] = updates[i]
  BY <1>1, <1>3
<1> QED BY <1>2, <1>4, <1>5

-----------------------------------------------------------------------------
(* What a step may do to each part.                                        *)

LEMMA PolicyKept ==
  ASSUME GInv, UNCHANGED <<trail, off>>, Shapes, Shapes', clock <= clock', policy' \in {policy, trail, NoPolicy}
  PROVE  PolicyHolds'
  BY NoPolicyIsPolicy DEF GInv, PolicyHolds, PolicyShapes, Policy, Shapes

\* Changes of the settings are left as they are, or end; guests only claim where they
\* are welcome, and ask for tickets where they have a row.
TasksKeep ==
  \A t \in AccessTasks :
    /\ Live(task'[t]) => Live(task[t])
    /\ Live(task[t]) /\ Live(task'[t]) =>
         task'[t].op = task[t].op /\ task'[t].at = task[t].at /\ task'[t].on = task[t].on /\ task'[t].since = task[t].since
    /\ task'[t].op \in {"claim", "token"} =>
         \/ task[t].op \in {"claim", "token"} /\ task'[t].who = task[t].who
         \/ task'[t].who \notin Guests \/ task'[t].who \in known \/ allowGuests
RowsKeep == known' = known \/ \E t \in AccessTasks : task[t].op \in {"claim", "token"} /\ known' = known \cup {task[t].who}

LEMMA SettingsKept ==
  ASSUME GInv, Shapes, Shapes', UNCHANGED <<trail, allowGuests, confirmed>>, clock <= clock', TasksKeep, RowsKeep,
         confirmed => Len(updates') = 0
  PROVE  SettingsHold'
<1>1. SettingsHold
  BY DEF GInv
<1>2. \A t, x \in AccessTasks : Live(task'[t]) /\ Live(task'[x]) => t = x
  BY <1>1 DEF SettingsHold, TasksKeep
<1>3. ASSUME NEW t \in AccessTasks, Live(task'[t])
      PROVE  task'[t].on = allowGuests /\ task'[t].since <= clock' /\ ~confirmed
  <2>1. task'[t].on = task[t].on /\ task'[t].since = task[t].since /\ Live(task[t])
    BY <1>3 DEF TasksKeep
  <2>2. task[t].on = allowGuests /\ task[t].since <= clock /\ ~confirmed
    BY <1>1, <2>1 DEF SettingsHold
  <2>3. clock \in Nat /\ clock' \in Nat /\ task[t].since \in Nat
    BY DEF Shapes, Task
  <2> QED BY <2>1, <2>2, <2>3
<1>4. NoGuests /\ ~allowGuests => NoGuests'
  BY DEF NoGuests, TasksKeep, RowsKeep
<1> QED BY <1>1, <1>2, <1>3, <1>4 DEF SettingsHold

LEMMA UpdatesKept ==
  ASSUME GInv, Shapes, Shapes', UNCHANGED <<updates, trail>>, clock <= clock', TasksKeep,
         \A t \in AccessTasks : Live(task[t]) => Live(task'[t])
  PROVE  UpdatesHold'
<1>1. UpdatesHold /\ updates \in Seq(Update)
  BY DEF GInv, PolicyShapes
<1>2. ASSUME NEW i \in 1 .. Len(updates), updates[i].task \in AccessTasks
      PROVE  LET q == task'[updates[i].task]
             IN  /\ i = Len(updates) /\ q.op = "settings" /\ q.at = "wait" /\ q.on = updates[i].rules.on
                 /\ updates[i].at # "read" /\ ~q.on => q.since <= updates[i].rules.before
  <2> DEFINE t == updates[i].task
  <2>1. /\ i = Len(updates) /\ task[t].op = "settings" /\ task[t].at = "wait" /\ task[t].on = updates[i].rules.on
        /\ updates[i].at # "read" /\ ~task[t].on => task[t].since <= updates[i].rules.before
    BY <1>1, <1>2 DEF UpdatesHold
  <2>2. Live(task[t])
    BY <2>1 DEF Live
  <2>3. task'[t].op = task[t].op /\ task'[t].at = task[t].at /\ task'[t].on = task[t].on /\ task'[t].since = task[t].since
    BY <1>2, <2>2 DEF TasksKeep
  <2> QED BY <2>1, <2>3
<1>3. Len(updates) > 0 => updates[1].rules.before \in Nat
  <2>1. Len(updates) > 0 => updates[1] \in Update
    BY <1>1
  <2>2. Len(updates) > 0 => updates[1].rules \in Policy
    BY <2>1 DEF Update
  <2> QED BY <2>2 DEF Policy
<1>4. clock \in Nat /\ clock' \in Nat
  BY DEF Shapes
<1>5. Len(updates) > 0 => (updates[1].rules.before <= clock => updates[1].rules.before <= clock')
  BY <1>3, <1>4
<1> QED BY <1>1, <1>2, <1>5 DEF UpdatesHold

\* A guest who comes in fits the newest policy.
SocketsFit ==
  \A s \in Sockets :
    /\ socket'[s].at # "off" =>
         \/ socket[s].at # "off" /\ socket'[s].issued = socket[s].issued
         \/ socket'[s].issued > 0 /\ socket'[s].at = "connected"
    /\ Holder[s] \in Guests /\ socket'[s].at \in Inside =>
         \/ socket[s].at \in Inside
         \/ trail.on /\ socket'[s].issued > trail.before

LEMMA GuestsKept ==
  ASSUME GInv, Shapes, Shapes', UNCHANGED <<trail, off>>, SocketsFit, AboutToSweep => AboutToSweep'
  PROVE  GuestsFit'
<1>1. GuestsFit /\ off \in Nat /\ trail.before \in Nat /\ off <= trail.before
  BY DEF GInv, PolicyShapes, PolicyHolds, Policy
<1>2. \A s \in Sockets : socket[s].issued \in Nat /\ socket'[s].issued \in Nat
  BY DEF Shapes, Socket
<1>3. \A s \in Sockets : socket'[s].at # "off" => socket'[s].issued > 0
  BY <1>1 DEF GuestsFit, SocketsFit
<1>4. ASSUME NEW s \in Sockets, Holder[s] \in Guests, socket'[s].at \in Inside
      PROVE  socket'[s].issued > off /\ ((trail.on /\ socket'[s].issued > trail.before) \/ AboutToSweep')
  <2>1. CASE trail.on /\ socket'[s].issued > trail.before
    BY <1>1, <1>2, <2>1
  <2>2. CASE socket[s].at \in Inside
    <3>1. socket'[s].issued = socket[s].issued
      BY <1>4, <2>2 DEF SocketsFit, Inside
    <3>2. socket[s].issued > off /\ ((trail.on /\ socket[s].issued > trail.before) \/ AboutToSweep)
      BY <1>1, <1>4, <2>2 DEF GuestsFit
    <3> QED BY <3>1, <3>2
  <2> QED BY <1>4, <2>1, <2>2 DEF SocketsFit
<1> QED BY <1>3, <1>4 DEF GuestsFit

\* A step that leaves the policy's trail, its updates and the settings alone.
LEMMA QuietStep ==
  ASSUME IInv, RInv', UNCHANGED <<trail, updates, off, allowGuests, confirmed>>, policy' \in {policy, trail},
         clock <= clock', TasksKeep, RowsKeep, SocketsFit,
         \A t \in AccessTasks : Live(task[t]) => Live(task'[t])
  PROVE  GInv'
<1>1. GInv /\ Shapes /\ Shapes'
  BY DEF IInv, RInv
<1>2. PolicyShapes'
  BY <1>1 DEF GInv, PolicyShapes
<1>3. AboutToSweep => AboutToSweep'
  BY DEF AboutToSweep
<1>4. confirmed => Len(updates') = 0
  BY <1>1 DEF GInv, SettingsHold
<1> QED BY <1>1, <1>2, <1>3, <1>4, PolicyKept, SettingsKept, UpdatesKept, GuestsKept DEF GInv

LEMMA SocketsSame ==
  ASSUME UNCHANGED socket
  PROVE  SocketsFit
  BY DEF SocketsFit

LEMMA TasksSame ==
  ASSUME \A t \in AccessTasks : /\ task'[t].op = task[t].op /\ task'[t].at = task[t].at /\ task'[t].who = task[t].who
                                /\ task'[t].on = task[t].on /\ task'[t].since = task[t].since
  PROVE  TasksKeep /\ \A t \in AccessTasks : Live(task[t]) => Live(task'[t])
  BY DEF TasksKeep, Live

\* One request, which is not a change of the settings between row and answer.
LEMMA OtherRequest ==
  ASSUME IInv, RInv', NEW t \in AccessTasks, NEW q, task' = [task EXCEPT ![t] = q], ~Live(task[t]), ~Live(q),
         q.op \in {"claim", "token"} =>
           \/ task[t].op \in {"claim", "token"} /\ q.who = task[t].who
           \/ q.who \notin Guests \/ q.who \in known \/ allowGuests,
         known' = known \/ (task[t].op \in {"claim", "token"} /\ known' = known \cup {task[t].who}),
         UNCHANGED <<socket, policy, trail, updates, off, allowGuests, confirmed, clock>>
  PROVE  GInv'
<1>1. \A x \in AccessTasks : task'[x] = IF x = t THEN q ELSE task[x]
  BY DEF IInv, RInv, Shapes
<1>2. TasksKeep /\ \A x \in AccessTasks : Live(task[x]) => Live(task'[x])
  BY <1>1 DEF TasksKeep
<1>3. RowsKeep /\ clock <= clock'
  BY DEF RowsKeep, IInv, RInv, Shapes
<1> QED BY <1>2, <1>3, SocketsSame, QuietStep

-----------------------------------------------------------------------------
(* The steps of the web application.                                       *)

LEMMA RequestG ==
  ASSUME IInv, RInv', NEW t \in AccessTasks,
         \/ \E p \in Users \cup Guests, r \in Roles : ClaimRead(t, p, r)
         \/ \E p \in Users \cup Guests : TokenRead(t, p)
         \/ \E on \in BOOLEAN : SettingsStart(t, on)
         \/ \E s \in Sockets : RemoveInspect(t, s)
         \/ ClaimRecord(t) \/ TokenAllowed(t) \/ TokenRemoved(t) \/ TokenIssue(t) \/ RemoveMark(t)
  PROVE  GInv'
<1>1. UNCHANGED <<socket, policy, trail, updates, off, allowGuests, confirmed, clock>>
  BY DEF ClaimRead, TokenRead, SettingsStart, RemoveInspect, ClaimRecord, TokenAllowed, TokenRemoved,
         TokenIssue, RemoveMark, collabSide, told
<1>2. Idle \in Task /\ Idle.op = "none" /\ task[t] \in Task
  BY IdleIsTask DEF IInv, RInv, Shapes
<1>3. CASE Finish(t) /\ UNCHANGED known /\ task[t].op # "settings"
  BY <1>1, <1>2, <1>3, OtherRequest DEF Finish, Live
<1>4. CASE ClaimRecord(t) \/ TokenIssue(t)
  <2>1. /\ task[t].op \in {"claim", "token"} /\ known' = known \cup {task[t].who}
        /\ task' = [task EXCEPT ![t] = Idle]
    BY <1>4 DEF ClaimRecord, TokenIssue, StandsAt, Record, Finish
  <2> QED BY <1>1, <1>2, <2>1, OtherRequest DEF Live
<1>5. ASSUME NEW at, GoOn(t, at), UNCHANGED known, task[t].op \in {"token", "remove"}
      PROVE  GInv'
  <2> DEFINE q == [task[t] EXCEPT !.at = at]
  <2>1. q.op = task[t].op /\ q.who = task[t].who /\ task' = [task EXCEPT ![t] = q]
    BY <1>2, <1>5 DEF GoOn, Task
  <2> HIDE DEF q
  <2> QED BY <1>1, <1>5, <2>1, OtherRequest DEF Live
<1>6. CASE (TokenAllowed(t) \/ TokenRemoved(t) \/ RemoveMark(t)) /\ ~Finish(t)
  <2>1. /\ GoOn(t, "removed") \/ GoOn(t, "issue") \/ GoOn(t, "kick")
        /\ UNCHANGED known /\ task[t].op \in {"token", "remove"}
    BY <1>6 DEF TokenAllowed, TokenRemoved, RemoveMark, StandsAt
  <2> QED BY <1>5, <2>1
<1>7. ASSUME NEW q, Start(t, q), UNCHANGED known, ~Live(q),
             q.op \in {"claim", "token"} => q.who \notin Guests \/ q.who \in known \/ allowGuests
      PROVE  GInv'
  <2>1. task[t] = Idle /\ task' = [task EXCEPT ![t] = q]
    BY <1>7 DEF Start
  <2> QED BY <1>1, <1>2, <1>7, <2>1, OtherRequest DEF Live
<1>8. ASSUME NEW p \in Users \cup Guests, NEW r \in Roles, ClaimRead(t, p, r) PROVE GInv'
  <2> DEFINE q == [Idle EXCEPT !.op = "claim", !.at = "record", !.who = p, !.role = r, !.n = link[r].n]
  <2>1. q.op = "claim" /\ q.who = p
    BY <1>2 DEF Task
  <2>2. Start(t, q) /\ UNCHANGED known
    BY <1>8 DEF ClaimRead
  <2>3. p \notin Guests \/ allowGuests
    BY <1>8, AccessAssumption DEF ClaimRead
  <2> HIDE DEF q
  <2> QED BY <1>7, <2>1, <2>2, <2>3 DEF Live
<1>9. ASSUME NEW p \in Users \cup Guests, TokenRead(t, p) PROVE GInv'
  <2> DEFINE q == [Idle EXCEPT !.op = "token", !.at = IF p \in Guests THEN "allowed" ELSE "removed", !.who = p]
  <2>1. q.op = "token" /\ q.who = p
    BY <1>2 DEF Task
  <2>2. Start(t, q) /\ UNCHANGED known
    BY <1>9 DEF TokenRead
  <2>3. p \notin Guests \/ p \in known
    BY <1>9, AccessAssumption DEF TokenRead, GuestRow
  <2> HIDE DEF q
  <2> QED BY <1>7, <2>1, <2>2, <2>3 DEF Live
<1>10. ASSUME NEW on \in BOOLEAN, SettingsStart(t, on) PROVE GInv'
  <2> DEFINE q == [Idle EXCEPT !.op = "settings", !.at = "row", !.on = on]
  <2>1. q.op = "settings" /\ q.at = "row"
    BY <1>2 DEF Task
  <2>2. Start(t, q) /\ UNCHANGED known
    BY <1>10 DEF SettingsStart
  <2> HIDE DEF q
  <2> QED BY <1>7, <2>1, <2>2 DEF Live
<1>11. ASSUME NEW s \in Sockets, RemoveInspect(t, s) PROVE GInv'
  <2>1. PICK who : Start(t, [Idle EXCEPT !.op = "remove", !.at = IF who = Nobody THEN "kick" ELSE "mark",
                                        !.who = who, !.socket = s])
    BY <1>11 DEF RemoveInspect
  <2> DEFINE q == [Idle EXCEPT !.op = "remove", !.at = IF who = Nobody THEN "kick" ELSE "mark",
                               !.who = who, !.socket = s]
  <2>2. q.op = "remove"
    BY <1>2 DEF Task
  <2>3. Start(t, q) /\ UNCHANGED known
    BY <1>11, <2>1 DEF RemoveInspect
  <2> HIDE DEF q
  <2> QED BY <1>7, <2>2, <2>3 DEF Live
<1>12. CASE TokenAllowed(t) \/ TokenRemoved(t)
  BY <1>3, <1>6, <1>12 DEF TokenAllowed, TokenRemoved, StandsAt
<1>13. CASE RemoveMark(t)
  <2>1. GoOn(t, "kick") /\ UNCHANGED known /\ task[t].op \in {"token", "remove"}
    BY <1>13 DEF RemoveMark, StandsAt
  <2> QED BY <1>5, <2>1
<1> QED BY <1>4, <1>8, <1>9, <1>10, <1>11, <1>12, <1>13

\* The new setting is in the database, and no longer confirmed.
LEMMA SettingsRowG ==
  ASSUME IInv, RInv', NEW t \in AccessTasks, SettingsRow(t)
  PROVE  GInv'
<1> DEFINE q == [task[t] EXCEPT !.at = "call", !.since = clock]
<1>1. /\ GInv /\ Shapes /\ task[t] \in Task /\ clock \in Nat
      /\ task[t].op = "settings" /\ task[t].at = "row"
  BY DEF IInv, RInv, Shapes, SettingsRow, StandsAt
<1>2. q.op = "settings" /\ q.at = "call" /\ q.on = task[t].on /\ q.since = clock /\ task[t].on \in BOOLEAN
  BY <1>1 DEF Task
<1>3. /\ task' = [task EXCEPT ![t] = q] /\ allowGuests' = task[t].on /\ confirmed' = FALSE
      /\ \A x \in AccessTasks : task[x].op = "settings" => task[x].at = "row"
      /\ UNCHANGED <<socket, policy, trail, updates, off, clock, known>>
  BY DEF SettingsRow, collabSide
<1> HIDE DEF q
<1>4. \A x \in AccessTasks : task'[x] = IF x = t THEN q ELSE task[x]
  BY <1>1, <1>3 DEF Shapes
<1>5. \A x \in AccessTasks : ~Live(task[x]) /\ (Live(task'[x]) => x = t)
  BY <1>3, <1>4 DEF Live
<1>6. SettingsHold'
  BY <1>1, <1>2, <1>3, <1>4, <1>5 DEF SettingsHold
<1>7. \A i \in 1 .. Len(updates) : updates[i].task \notin AccessTasks
  BY <1>1, <1>5 DEF GInv, UpdatesHold, Live
<1>8. UpdatesHold'
  BY <1>1, <1>3, <1>7 DEF GInv, UpdatesHold
<1>9. PolicyShapes' /\ PolicyHolds' /\ GuestsFit'
  BY <1>1, <1>2, <1>3 DEF GInv, PolicyShapes, PolicyHolds, GuestsFit, AboutToSweep
<1> QED BY <1>6, <1>8, <1>9 DEF GInv

\* The call to the collab server is queued behind the updates nobody waits for any more.
LEMMA SettingsCallG ==
  ASSUME IInv, RInv', NEW t \in AccessTasks, SettingsCall(t)
  PROVE  GInv'
<1> DEFINE q == [task[t] EXCEPT !.at = "wait"]
           rules == [NoPolicy EXCEPT !.on = task[t].on]
           u == [task |-> t, at |-> "read", rules |-> rules]
<1>1. GInv /\ Shapes /\ task[t] \in Task /\ task[t].op = "settings" /\ task[t].at = "call"
  BY DEF IInv, RInv, Shapes, SettingsCall, StandsAt
<1>2. q.op = "settings" /\ q.at = "wait" /\ q.on = task[t].on /\ q.since = task[t].since
  BY <1>1 DEF Task
<1>3. rules \in Policy /\ rules.on = task[t].on
  BY <1>1, NoPolicyIsPolicy DEF Policy, Task
<1>4. /\ task' = [task EXCEPT ![t] = q] /\ updates' = Append(updates, u)
      /\ UNCHANGED <<socket, policy, trail, off, clock, known, allowGuests, confirmed>>
  BY DEF SettingsCall, GoOn, told
<1> HIDE DEF q, rules
<1>5. u \in Update /\ u.task = t /\ u.at = "read" /\ u.rules = rules
  BY <1>3 DEF Update
<1> HIDE DEF u
<1>6. updates \in Seq(Update) /\ Len(updates) \in Nat
  BY <1>1 DEF GInv, PolicyShapes
<1>7. /\ updates' \in Seq(Update) /\ Len(updates') = Len(updates) + 1 /\ updates'[Len(updates) + 1] = u
      /\ \A i \in 1 .. Len(updates) : updates'[i] = updates[i]
  BY <1>4, <1>5, <1>6
<1>8. \A x \in AccessTasks : task'[x] = IF x = t THEN q ELSE task[x]
  BY <1>1, <1>4 DEF Shapes
<1>9. Live(task[t]) /\ Live(q)
  BY <1>1, <1>2 DEF Live
<1>10. SettingsHold'
  BY <1>1, <1>2, <1>4, <1>8, <1>9 DEF GInv, SettingsHold
\* Nobody else is between row and answer, so nobody waits for the earlier ones.
<1>11. \A i \in 1 .. Len(updates) : updates[i].task \notin AccessTasks
  <2> SUFFICES ASSUME NEW i \in 1 .. Len(updates), updates[i].task \in AccessTasks PROVE FALSE
    OBVIOUS
  <2>1. task[updates[i].task].op = "settings" /\ task[updates[i].task].at = "wait"
    BY <1>1 DEF GInv, UpdatesHold
  <2>2. updates[i].task = t
    BY <1>1, <1>9, <2>1 DEF GInv, SettingsHold, Live
  <2> QED BY <1>1, <2>1, <2>2
<1>12. UpdatesHold'
  <2>1. \A i \in 2 .. Len(updates') : updates'[i].at = "read"
    <3> SUFFICES ASSUME NEW i \in 2 .. Len(updates') PROVE updates'[i].at = "read"
      OBVIOUS
    <3>1. CASE i = Len(updates) + 1
      BY <1>5, <1>7, <3>1
    <3>2. CASE i # Len(updates) + 1
      <4>1. i \in 2 .. Len(updates) /\ i \in 1 .. Len(updates)
        BY <1>6, <1>7, <3>2
      <4> QED BY <1>1, <1>7, <4>1 DEF GInv, UpdatesHold
    <3> QED BY <3>1, <3>2
  <2>2. /\ updates'[1].at = "persist" => /\ updates'[1].rules.revision = trail.revision + 1
                                         /\ trail.before <= updates'[1].rules.before /\ updates'[1].rules.before <= clock
                                         /\ updates'[1].rules.on => updates'[1].rules.before = trail.before
        /\ updates'[1].at \in {"apply", "sweep"} => updates'[1].rules = trail /\ trail.revision > 0
    <3>1. CASE Len(updates) = 0
      BY <1>5, <1>7, <3>1
    <3>2. CASE Len(updates) > 0
      <4>1. updates'[1] = updates[1]
        BY <1>6, <1>7, <3>2
      <4> QED BY <1>1, <3>2, <4>1 DEF GInv, UpdatesHold
    <3> QED BY <1>6, <3>1, <3>2
  <2>3. ASSUME NEW i \in 1 .. Len(updates'), updates'[i].task \in AccessTasks
        PROVE  LET c == task'[updates'[i].task]
               IN  /\ i = Len(updates') /\ c.op = "settings" /\ c.at = "wait" /\ c.on = updates'[i].rules.on
                   /\ updates'[i].at # "read" /\ ~c.on => c.since <= updates'[i].rules.before
    <3>1. i = Len(updates) + 1
      BY <1>6, <1>7, <1>11, <2>3
    <3> QED BY <1>2, <1>3, <1>5, <1>7, <1>8, <3>1
  <2> QED BY <1>4, <2>1, <2>2, <2>3 DEF UpdatesHold
<1>13. AboutToSweep => AboutToSweep'
  BY <1>4, <1>6, <1>7 DEF AboutToSweep
<1>14. SocketsFit
  BY <1>4, SocketsSame
<1>15. PolicyShapes' /\ PolicyHolds' /\ GuestsFit'
  BY <1>1, <1>4, <1>7, <1>13, <1>14, GuestsKept, PolicyKept DEF IInv, RInv, GInv, PolicyShapes, Shapes
<1> QED BY <1>10, <1>12, <1>15 DEF GInv

\* Who gives up no longer waits; the update goes on.
LEMMA GiveUpG ==
  ASSUME IInv, RInv', NEW t \in AccessTasks, GiveUp(t)
  PROVE  GInv'
<1>1. GInv /\ Shapes /\ Shapes' /\ updates \in Seq(Update) /\ Len(updates) \in Nat
  BY DEF IInv, RInv, GInv, PolicyShapes
<1>2. /\ task' = [task EXCEPT ![t] = Idle] /\ Idle.op = "none"
      /\ UNCHANGED <<socket, policy, trail, off, clock, known, allowGuests, confirmed>>
  BY IdleIsTask DEF GiveUp, Finish, told
<1>3. \A i \in 1 .. Len(updates) :
        /\ updates[i] \in Update /\ [updates[i] EXCEPT !.task = Nobody] \in Update
        /\ [updates[i] EXCEPT !.task = Nobody].task = Nobody
        /\ [updates[i] EXCEPT !.task = Nobody].at = updates[i].at
        /\ [updates[i] EXCEPT !.task = Nobody].rules = updates[i].rules
  <2>1. \A i \in 1 .. Len(updates) : updates[i] \in Update
    BY <1>1
  <2> QED BY <2>1 DEF Update
<1>4. updates' = [i \in 1 .. Len(updates) |->
        IF updates[i].task = t THEN [updates[i] EXCEPT !.task = Nobody] ELSE updates[i]]
  BY <1>1 DEF GiveUp
<1>5. /\ updates' \in Seq(Update) /\ Len(updates') = Len(updates)
      /\ \A i \in 1 .. Len(updates) :
           /\ updates'[i].at = updates[i].at /\ updates'[i].rules = updates[i].rules
           /\ updates'[i].task \in AccessTasks => updates'[i].task = updates[i].task /\ updates[i].task # t
  BY <1>1, <1>3, <1>4, AccessAssumption
<1>6. \A x \in AccessTasks : task'[x] = IF x = t THEN Idle ELSE task[x]
  BY <1>1, <1>2 DEF Shapes
<1>7. TasksKeep /\ RowsKeep
  BY <1>2, <1>6 DEF TasksKeep, RowsKeep, Live
<1>8. SettingsHold'
  <2>1. confirmed => Len(updates') = 0
    BY <1>1, <1>5 DEF GInv, SettingsHold
  <2>2. clock <= clock'
    BY <1>1, <1>2 DEF Shapes
  <2> QED BY <1>1, <1>2, <1>7, <2>1, <2>2, SettingsKept
<1>9. UpdatesHold'
  <2>1. UpdatesHold
    BY <1>1 DEF GInv
  <2>2. Len(updates) > 0 => 1 \in 1 .. Len(updates)
    BY <1>1
  <2>3. \A i \in 1 .. Len(updates) : updates'[i].task \in AccessTasks => task'[updates'[i].task] = task[updates[i].task]
    BY <1>5, <1>6
  <2>4. \A i \in 2 .. Len(updates) : updates'[i].at = "read"
    BY <1>1, <1>5, <2>1 DEF UpdatesHold
  <2> QED BY <1>2, <1>5, <2>1, <2>2, <2>3, <2>4 DEF UpdatesHold
<1>10. AboutToSweep => AboutToSweep'
  BY <1>1, <1>2, <1>5 DEF AboutToSweep
<1>11. SocketsFit /\ clock <= clock'
  BY <1>1, <1>2, SocketsSame DEF Shapes
<1>12. PolicyShapes' /\ PolicyHolds' /\ GuestsFit'
  BY <1>1, <1>2, <1>5, <1>10, <1>11, GuestsKept, PolicyKept DEF GInv, PolicyShapes
<1> QED BY <1>8, <1>9, <1>12 DEF GInv

-----------------------------------------------------------------------------
(* The steps of the collab server.                                         *)

LEMMA OthersG ==
  ASSUME IInv, RInv',
         \/ \E r \in Roles : EnsureInvite(r) \/ RotateInvite(r) \/ InviteExpires(r)
         \/ OwnerTicket \/ \E p \in People : TicketExpires(p) \/ RestoreForRequest(p)
         \/ Tick \/ UNCHANGED accessVars
  PROVE  GInv'
<1>1. UNCHANGED <<socket, task, trail, updates, off, allowGuests, confirmed, known>>
  BY DEF EnsureInvite, RotateInvite, InviteExpires, OwnerTicket, TicketExpires, RestoreForRequest, Tick,
         accessVars, webSide, collabSide, told
<1>2. policy' \in {policy, trail}
  <2>1. CASE \E p \in People : RestoreForRequest(p)
    BY <2>1, RestoredIsTrail DEF RestoreForRequest, IInv
  <2>2. CASE ~ \E p \in People : RestoreForRequest(p)
    BY <2>2 DEF EnsureInvite, RotateInvite, InviteExpires, OwnerTicket, TicketExpires, Tick,
                accessVars, webSide, collabSide, told
  <2> QED BY <2>1, <2>2
<1>3. clock <= clock'
  <2>1. clock' = clock \/ clock' = clock + 1
    BY DEF EnsureInvite, RotateInvite, InviteExpires, OwnerTicket, TicketExpires, RestoreForRequest, Tick,
           accessVars
  <2> QED BY <2>1 DEF IInv, RInv, Shapes
<1>4. TasksKeep /\ RowsKeep /\ \A t \in AccessTasks : Live(task[t]) => Live(task'[t])
  BY <1>1, TasksSame DEF RowsKeep
<1> QED BY <1>1, <1>2, <1>3, <1>4, SocketsSame, QuietStep

\* A join restores the policy before the access is asked for the second time.
LEMMA SocketG ==
  ASSUME IInv, RInv', NEW s \in Sockets,
         \/ Connect(s) \/ JoinStart(s) \/ JoinRegistered(s) \/ JoinEnter(s) \/ Disconnect(s) \/ Sweep(s)
  PROVE  GInv'
<1>1. UNCHANGED <<trail, updates, off, allowGuests, confirmed, known, clock>>
  BY DEF Connect, JoinStart, JoinRegistered, JoinEnter, Disconnect, Sweep, webSide, told
<1>2. policy' \in {policy, trail}
  BY RestoredIsTrail DEF Connect, JoinStart, JoinRegistered, JoinEnter, Disconnect, Sweep, IInv
<1>3. task' = task \/ task' = Forget({s})
  BY DEF Connect, JoinStart, JoinRegistered, JoinEnter, Disconnect, Sweep, webSide
<1>4. TasksKeep /\ RowsKeep /\ \A t \in AccessTasks : Live(task[t]) => Live(task'[t])
  BY <1>1, <1>3, ForgetKeeps, TasksSame DEF RowsKeep, IInv, RInv
<1>5. socket[s] \in Socket /\ Shapes /\ GInv /\ clock <= clock' /\ ticket[Holder[s]] \in Nat
  BY <1>1, AccessAssumption DEF IInv, RInv, Shapes
<1>6. ASSUME NEW c, socket' = [socket EXCEPT ![s] = c],
             c.at # "off" =>
               \/ socket[s].at # "off" /\ c.issued = socket[s].issued
               \/ c.issued > 0 /\ c.at = "connected",
             Holder[s] \in Guests /\ c.at \in Inside =>
               socket[s].at \in Inside \/ (trail.on /\ c.issued > trail.before)
      PROVE  GInv'
  <2>1. \A x \in Sockets : socket'[x] = IF x = s THEN c ELSE socket[x]
    BY <1>5, <1>6 DEF Shapes
  <2>2. SocketsFit
    BY <1>6, <2>1 DEF SocketsFit
  <2> QED BY <1>1, <1>2, <1>4, <1>5, <2>2, QuietStep
<1>7. CASE Connect(s)
  <2> DEFINE c == [at |-> "connected", issued |-> ticket[Holder[s]]]
  <2>1. c.at = "connected" /\ c.issued > 0 /\ socket' = [socket EXCEPT ![s] = c]
    BY <1>5, <1>7 DEF Connect
  <2> QED BY <1>6, <2>1 DEF Inside
<1>8. CASE Disconnect(s) \/ Sweep(s)
  <2>1. Unconnected.at = "off" /\ socket' = [socket EXCEPT ![s] = Unconnected]
    BY <1>8 DEF Unconnected, Disconnect, Sweep
  <2> QED BY <1>6, <2>1 DEF Inside
<1>9. ASSUME NEW at \in {"connected", "joining", "entering", "in"}, socket' = [socket EXCEPT ![s].at = at],
             socket[s].at # "off",
             Holder[s] \in Guests /\ at \in Inside =>
               socket[s].at \in Inside \/ (trail.on /\ socket[s].issued > trail.before)
      PROVE  GInv'
  <2> DEFINE c == [socket[s] EXCEPT !.at = at]
  <2>1. c.at = at /\ c.issued = socket[s].issued /\ socket' = [socket EXCEPT ![s] = c]
    BY <1>5, <1>9 DEF Socket
  <2> HIDE DEF c
  <2> QED BY <1>6, <1>9, <2>1
<1>10. CASE JoinStart(s)
  BY <1>9, <1>10 DEF JoinStart, Inside
<1>11. CASE JoinEnter(s)
  <2>1. PICK at \in {"connected", "in"} : socket' = [socket EXCEPT ![s].at = at]
    BY <1>11 DEF JoinEnter
  <2> QED BY <1>9, <1>11, <2>1 DEF JoinEnter, Inside
<1>12. CASE JoinRegistered(s)
  <2>1. socket[s].at = "joining" /\ socket' = [socket EXCEPT ![s].at = IF CanAccessUnder(trail, s) THEN "entering" ELSE "connected"]
    BY <1>5, <1>12, RestoredIsTrail DEF JoinRegistered
  <2>2. CASE CanAccessUnder(trail, s)
    <3>1. Holder[s] \in Guests => trail.on /\ socket[s].issued > trail.before
      <4>1. trail.revision > 0 \/ (trail = NoPolicy /\ trail.on = TRUE /\ trail.before = 0)
        BY <1>5, NoPolicyIsPolicy DEF GInv, PolicyHolds, PolicyShapes, Policy
      <4>2. socket[s].issued > 0
        BY <1>5, <2>1 DEF GInv, GuestsFit
      <4> QED BY <2>2, <4>1, <4>2 DEF CanAccessUnder
    <3> QED BY <1>9, <2>1, <2>2, <3>1
  <2>3. CASE ~CanAccessUnder(trail, s)
    BY <1>9, <2>1, <2>3 DEF Inside
  <2> QED BY <2>2, <2>3
<1> QED BY <1>7, <1>8, <1>10, <1>11, <1>12

LEMMA KickG ==
  ASSUME IInv, RInv', NEW t \in AccessTasks, RemoveKick(t)
  PROVE  GInv'
<1> DEFINE gone == IF task[t].who = Nobody THEN {task[t].socket}
                   ELSE {s \in Sockets : socket[s].at = "in" /\ Holder[s] = task[t].who}
<1>1. UNCHANGED <<policy, trail, updates, off, allowGuests, confirmed, known, clock>> /\ task[t].op = "remove"
  BY DEF RemoveKick, StandsAt
<1>2. /\ task' = [task EXCEPT ![t] = Idle] \/ task' = [Forget(gone) EXCEPT ![t] = Idle]
      /\ socket' = socket \/ socket' = [s \in Sockets |-> IF s \in gone THEN Unconnected ELSE socket[s]]
  BY DEF RemoveKick, Finish
<1> HIDE DEF gone
<1>3. Shapes /\ Idle.op = "none" /\ clock <= clock'
  BY <1>1, IdleIsTask DEF IInv, RInv, Shapes
<1>4. \A x \in AccessTasks :
        /\ x # t => /\ task'[x].op = task[x].op /\ task'[x].at = task[x].at /\ task'[x].who = task[x].who
                    /\ task'[x].on = task[x].on /\ task'[x].since = task[x].since
        /\ x = t => task'[x] = Idle
  BY <1>2, <1>3, ForgetKeeps DEF Shapes
<1>5. TasksKeep /\ RowsKeep /\ \A x \in AccessTasks : Live(task[x]) => Live(task'[x])
  BY <1>1, <1>3, <1>4 DEF TasksKeep, RowsKeep, Live
<1>6. SocketsFit
  BY <1>2, <1>3 DEF SocketsFit, Unconnected, Inside, Shapes
<1> QED BY <1>1, <1>3, <1>5, <1>6, QuietStep

LEMMA RestartG ==
  ASSUME IInv, RInv', CollabRestart
  PROVE  GInv'
<1>1. /\ socket' = [s \in Sockets |-> Unconnected] /\ task' = Forget(Sockets)
      /\ policy' = NoPolicy /\ updates' = <<>>
      /\ UNCHANGED <<trail, off, allowGuests, confirmed, known, clock>>
  BY DEF CollabRestart
<1>2. GInv /\ Shapes /\ Shapes' /\ clock <= clock'
  BY <1>1 DEF IInv, RInv, Shapes
<1>3. TasksKeep /\ RowsKeep
  BY <1>1, <1>2, ForgetKeeps, TasksSame DEF RowsKeep
<1>4. updates' \in Seq(Update) /\ Len(updates') = 0
  BY <1>1
<1>5. SettingsHold' /\ PolicyHolds'
  BY <1>1, <1>2, <1>3, <1>4, SettingsKept, PolicyKept
<1>6. UpdatesHold'
  BY <1>4 DEF UpdatesHold
<1>7. GuestsFit'
  BY <1>1 DEF GuestsFit, Unconnected, Inside
<1>8. PolicyShapes'
  BY <1>1, <1>2, <1>4, NoPolicyIsPolicy DEF GInv, PolicyShapes
<1> QED BY <1>5, <1>6, <1>7, <1>8 DEF GInv

-----------------------------------------------------------------------------
(* The update of the policy, from the look at the session to the answer.   *)

\* What an update's next step leaves of who waits for it.
LEMMA WaitersKept ==
  ASSUME GInv, Shapes, UNCHANGED task, Len(updates) > 0, updates' \in Seq(Update), Len(updates') = Len(updates),
         updates'[1].task = updates[1].task, updates'[1].rules.on = updates[1].rules.on,
         \A i \in 2 .. Len(updates) : updates'[i] = updates[i],
         \/ updates[1].at # "read" /\ updates'[1].rules.before = updates[1].rules.before
         \/ updates[1].rules.on \/ clock <= updates'[1].rules.before,
         updates'[1].at = "persist" =>
            /\ updates'[1].rules.revision = trail'.revision + 1
            /\ trail'.before <= updates'[1].rules.before /\ updates'[1].rules.before <= clock'
            /\ updates'[1].rules.on => updates'[1].rules.before = trail'.before,
         updates'[1].at \in {"apply", "sweep"} => updates'[1].rules = trail' /\ trail'.revision > 0
  PROVE  UpdatesHold'
<1>1. UpdatesHold /\ updates \in Seq(Update) /\ Len(updates) \in Nat
  BY DEF GInv, PolicyShapes
<1>2. ASSUME NEW i \in 1 .. Len(updates'), updates'[i].task \in AccessTasks
      PROVE  LET q == task'[updates'[i].task]
             IN  /\ i = Len(updates') /\ q.op = "settings" /\ q.at = "wait" /\ q.on = updates'[i].rules.on
                 /\ updates'[i].at # "read" /\ ~q.on => q.since <= updates'[i].rules.before
  <2> DEFINE t == updates'[i].task
  <2>1. i \in 1 .. Len(updates) /\ updates[i].task = t
    BY <1>1, <1>2
  <2>2. /\ i = Len(updates) /\ task[t].op = "settings" /\ task[t].at = "wait" /\ task[t].on = updates[i].rules.on
        /\ updates[i].at # "read" /\ ~task[t].on => task[t].since <= updates[i].rules.before
    BY <1>1, <1>2, <2>1 DEF UpdatesHold
  <2>3. Live(task[t])
    BY <2>2 DEF Live
  <2>4. task[t].since <= clock /\ task[t].since \in Nat /\ clock \in Nat
    BY <1>2, <2>1, <2>3 DEF GInv, SettingsHold, Shapes, Task
  <2>5. updates'[i] \in Update
    BY <1>2
  <2>6. updates'[i].rules.before \in Nat
    BY <2>5 DEF Update, Policy
  <2>7. CASE i = 1
    BY <2>1, <2>2, <2>4, <2>6, <2>7
  <2>8. CASE i # 1
    <3>1. updates'[i] = updates[i]
      BY <1>1, <2>1, <2>8
    <3> QED BY <2>2, <3>1
  <2> QED BY <2>7, <2>8
<1>3. \A i \in 2 .. Len(updates') : updates'[i].at = "read"
  BY <1>1 DEF UpdatesHold
<1> QED BY <1>2, <1>3 DEF UpdatesHold

LEMMA PolicyReadG ==
  ASSUME IInv, RInv', PolicyRead
  PROVE  GInv'
<1> DEFINE on == Head(updates).rules.on
           rules == [on |-> on, before |-> IF on THEN trail.before ELSE clock, revision |-> trail.revision + 1]
<1>1. GInv /\ Shapes /\ Shapes' /\ Restored = trail /\ clock \in Nat
  BY RestoredIsTrail DEF IInv, RInv, Shapes
<1>2. /\ Working("read") /\ policy' = trail /\ Proceed("persist", rules)
      /\ UNCHANGED <<known, task, socket, trail, off, allowGuests, confirmed, clock>>
  BY <1>1 DEF PolicyRead, webSide, told
<1>3. /\ Len(updates) \in Nat \ {0} /\ Head(updates) = updates[1] /\ updates[1] \in Update
      /\ updates[1].at = "read"
  BY <1>1, <1>2, WorkingOn
<1>4. trail.before \in Nat /\ trail.revision \in Nat /\ trail.before <= clock /\ on \in BOOLEAN
  BY <1>1, <1>3 DEF GInv, PolicyShapes, PolicyHolds, Policy, Update
<1>5. /\ rules \in Policy /\ rules.on = updates[1].rules.on /\ rules.revision = trail.revision + 1
      /\ trail.before <= rules.before /\ rules.before <= clock
      /\ rules.on => rules.before = trail.before
      /\ ~rules.on => rules.before = clock
  BY <1>1, <1>3, <1>4 DEF Policy
<1> HIDE DEF rules, on
<1>6. /\ updates' \in Seq(Update) /\ Len(updates') = Len(updates)
      /\ updates'[1].at = "persist" /\ updates'[1].rules = rules /\ updates'[1].task = updates[1].task
      /\ \A i \in 2 .. Len(updates) : updates'[i] = updates[i]
  BY <1>1, <1>2, <1>5, Proceeds
<1>7. UpdatesHold'
  <2>1. updates[1].rules.on \/ clock <= updates'[1].rules.before
    BY <1>1, <1>5, <1>6
  <2> QED BY <1>1, <1>2, <1>3, <1>5, <1>6, <2>1, WaitersKept
<1>8. ~AboutToSweep /\ SocketsFit /\ clock <= clock' /\ TasksKeep /\ RowsKeep
  BY <1>1, <1>2, <1>3, SocketsSame, TasksSame DEF AboutToSweep, RowsKeep
<1>9. ~confirmed
  BY <1>1, <1>3 DEF GInv, SettingsHold
<1>10. GuestsFit' /\ SettingsHold' /\ PolicyHolds'
  BY <1>1, <1>2, <1>8, <1>9, GuestsKept, SettingsKept, PolicyKept
<1>11. PolicyShapes'
  BY <1>1, <1>2, <1>6 DEF GInv, PolicyShapes
<1> QED BY <1>7, <1>10, <1>11 DEF GInv

\* In the trail first, and from here on for every join.
LEMMA PolicyPersistG ==
  ASSUME IInv, RInv', PolicyPersist
  PROVE  GInv'
<1> DEFINE rules == Head(updates).rules
<1>1. GInv /\ Shapes /\ Shapes' /\ clock \in Nat
  BY DEF IInv, RInv, Shapes
<1>2. /\ Working("persist") /\ trail' = rules /\ Proceed("apply", rules)
      /\ UNCHANGED <<known, task, socket, policy, off, allowGuests, confirmed, clock>>
  BY DEF PolicyPersist, webSide, told
<1>3. /\ Len(updates) \in Nat \ {0} /\ rules = updates[1].rules /\ updates[1] \in Update
      /\ updates[1].at = "persist"
  BY <1>1, <1>2, WorkingOn
<1>4. rules \in Policy
  BY <1>3 DEF Update
<1>5. /\ rules.revision = trail.revision + 1 /\ trail.before <= rules.before /\ rules.before <= clock
      /\ rules.on => rules.before = trail.before
  BY <1>1, <1>3 DEF GInv, UpdatesHold
<1> HIDE DEF rules
<1>6. /\ updates' \in Seq(Update) /\ Len(updates') = Len(updates)
      /\ updates'[1].at = "apply" /\ updates'[1].rules = rules /\ updates'[1].task = updates[1].task
      /\ \A i \in 2 .. Len(updates) : updates'[i] = updates[i]
  BY <1>1, <1>2, <1>4, Proceeds
<1>7. /\ trail.revision \in Nat /\ policy.revision \in Nat /\ policy.revision <= trail.revision
      /\ trail.before \in Nat /\ off \in Nat /\ off <= trail.before /\ rules.before \in Nat
  BY <1>1, <1>4 DEF GInv, PolicyShapes, PolicyHolds, Policy
<1>8. PolicyHolds' /\ trail'.revision > 0
  BY <1>2, <1>5, <1>7 DEF PolicyHolds
<1>9. UpdatesHold'
  BY <1>1, <1>2, <1>3, <1>6, <1>8, WaitersKept
<1>10. SettingsHold'
  BY <1>1, <1>2, <1>3 DEF GInv, SettingsHold
<1>11. GuestsFit'
  <2>1. ASSUME NEW s \in Sockets, Holder[s] \in Guests, socket[s].at \in Inside
        PROVE  socket[s].issued > off /\ ((trail'.on /\ socket[s].issued > trail'.before) \/ AboutToSweep')
    <3>1. socket[s].issued > off /\ ((trail.on /\ socket[s].issued > trail.before) \/ AboutToSweep)
      BY <1>1, <2>1 DEF GInv, GuestsFit
    <3>2. ~AboutToSweep
      BY <1>3 DEF AboutToSweep
    <3>3. CASE trail'.on
      BY <1>2, <1>5, <3>1, <3>2, <3>3
    <3>4. CASE ~trail'.on
      BY <1>3, <1>6, <3>1, <3>4 DEF AboutToSweep
    <3> QED BY <3>3, <3>4
  <2> QED BY <1>1, <1>2, <2>1 DEF GInv, GuestsFit
<1>12. PolicyShapes'
  BY <1>1, <1>2, <1>4, <1>6 DEF GInv, PolicyShapes
<1> QED BY <1>8, <1>9, <1>10, <1>11, <1>12 DEF GInv

\* Guests who are in are about to be swept out.
LEMMA PolicyApplyG ==
  ASSUME IInv, RInv', PolicyApply
  PROVE  GInv'
<1> DEFINE rules == Head(updates).rules
<1>1. GInv /\ Shapes /\ Shapes' /\ clock \in Nat
  BY DEF IInv, RInv, Shapes
<1>2. /\ Working("apply") /\ policy' = rules /\ Proceed("sweep", rules)
      /\ UNCHANGED <<known, task, trail, off, allowGuests, confirmed, clock>>
      /\ socket' = [s \in Sockets |-> IF ~rules.on /\ Holder[s] \in Guests /\ socket[s].at \in Inside
                                         THEN [socket[s] EXCEPT !.at = "sweeping"] ELSE socket[s]]
  BY DEF PolicyApply, webSide, told
<1>3. /\ Len(updates) \in Nat \ {0} /\ rules = updates[1].rules /\ updates[1] \in Update
      /\ updates[1].at = "apply"
  BY <1>1, <1>2, WorkingOn
<1>4. rules = trail /\ trail \in Policy /\ trail.revision > 0
  BY <1>1, <1>3 DEF GInv, UpdatesHold, PolicyShapes
<1>5. \A s \in Sockets :
        /\ [socket[s] EXCEPT !.at = "sweeping"].at = "sweeping"
        /\ [socket[s] EXCEPT !.at = "sweeping"].issued = socket[s].issued
  BY <1>1 DEF Shapes, Socket
<1> HIDE DEF rules
<1>6. /\ updates' \in Seq(Update) /\ Len(updates') = Len(updates)
      /\ updates'[1].at = "sweep" /\ updates'[1].rules = rules /\ updates'[1].task = updates[1].task
      /\ \A i \in 2 .. Len(updates) : updates'[i] = updates[i]
  BY <1>1, <1>2, <1>4, Proceeds
<1>7. UpdatesHold'
  BY <1>1, <1>2, <1>3, <1>4, <1>6, WaitersKept
<1>8. PolicyHolds'
  BY <1>1, <1>2, <1>4, PolicyKept
<1>9. TasksKeep /\ RowsKeep /\ ~confirmed
  BY <1>1, <1>2, <1>3, TasksSame DEF RowsKeep, GInv, SettingsHold
<1>10. SettingsHold'
  BY <1>1, <1>2, <1>9, SettingsKept
<1>11. GuestsFit'
  <2>1. GuestsFit
    BY <1>1 DEF GInv
  <2>2. \A s \in Sockets : socket'[s].at # "off" => socket'[s].issued > 0
    BY <1>2, <1>5, <2>1 DEF GuestsFit, Inside
  <2>3. ASSUME NEW s \in Sockets, Holder[s] \in Guests, socket'[s].at \in Inside
        PROVE  socket'[s].issued > off /\ trail.on /\ socket'[s].issued > trail.before
    <3>1. socket'[s] = socket[s] /\ trail.on
      BY <1>2, <1>4, <1>5, <2>3 DEF Inside
    <3>2. ~AboutToSweep
      BY <3>1 DEF AboutToSweep
    <3> QED BY <2>1, <2>3, <3>1, <3>2 DEF GuestsFit
  <2> QED BY <1>2, <2>2, <2>3 DEF GuestsFit
<1>12. PolicyShapes'
  BY <1>1, <1>2, <1>4, <1>6 DEF GInv, PolicyShapes
<1> QED BY <1>7, <1>8, <1>10, <1>11, <1>12 DEF GInv

\* The answer: the policy in force is newer than the tickets of the time of the change.
LEMMA PolicyDoneG ==
  ASSUME IInv, RInv', PolicyDone
  PROVE  GInv'
<1> DEFINE u == Head(updates)
<1>1. GInv /\ Shapes /\ Shapes' /\ clock \in Nat /\ UpdatesHold /\ GuestsFit /\ SettingsHold
  BY DEF IInv, RInv, Shapes, GInv
<1>2. /\ Working("sweep") /\ updates' = Tail(updates)
      /\ UNCHANGED <<known, socket, policy, trail, allowGuests, clock>>
      /\ IF u.task \in AccessTasks
           THEN /\ task' = [task EXCEPT ![u.task] = Idle] /\ confirmed' = TRUE
                /\ off' = IF u.rules.on THEN off ELSE task[u.task].since
           ELSE UNCHANGED <<task, confirmed, off>>
  BY DEF PolicyDone, Finish
<1>3. /\ Len(updates) \in Nat \ {0} /\ u = updates[1] /\ updates[1] \in Update
      /\ updates[1].at = "sweep" /\ updates \in Seq(Update) /\ updates # <<>>
  BY <1>1, <1>2, WorkingOn DEF GInv, PolicyShapes
<1>4. u.rules = trail /\ trail \in Policy
  BY <1>1, <1>3 DEF UpdatesHold, GInv, PolicyShapes
<1> HIDE DEF u
<1>5. /\ updates' \in Seq(Update) /\ Len(updates') = Len(updates) - 1
      /\ \A i \in 1 .. (Len(updates) - 1) : updates'[i] = updates[i + 1]
  BY <1>2, <1>3
<1>6. \A i \in 1 .. Len(updates') : updates'[i].at = "read"
  <2> SUFFICES ASSUME NEW i \in 1 .. Len(updates') PROVE updates'[i].at = "read"
    OBVIOUS
  <2>1. i + 1 \in 2 .. Len(updates) /\ updates'[i] = updates[i + 1]
    BY <1>3, <1>5
  <2> QED BY <1>1, <2>1 DEF UpdatesHold
<1>7. ~AboutToSweep
  BY <1>3 DEF AboutToSweep
<1>8. PolicyShapes'
  BY <1>1, <1>2, <1>3, <1>5 DEF GInv, PolicyShapes, Shapes, Task
<1>9. Len(updates') > 0 => updates'[1].at = "read"
  BY <1>5, <1>6
<1>10. CASE u.task \in AccessTasks
  <2> DEFINE t == u.task
  <2>1. /\ 1 = Len(updates) /\ task[t].op = "settings" /\ task[t].at = "wait" /\ task[t].on = trail.on
        /\ ~task[t].on => task[t].since <= trail.before
    <3>1. 1 \in 1 .. Len(updates) /\ updates[1].task = t /\ updates[1].rules = trail /\ updates[1].at # "read"
      BY <1>3, <1>4
    <3> HIDE DEF t
    <3> QED BY <1>1, <1>10, <3>1 DEF UpdatesHold, t
  <2>2. Len(updates') = 0
    <3>1. Len(updates) = 1
      BY <2>1
    <3> QED BY <1>5, <3>1
  <2>3. Live(task[t]) /\ task[t].on = allowGuests /\ task[t].since \in Nat
    BY <1>1, <1>10, <2>1 DEF Live, SettingsHold, Shapes, Task
  <2>4. \A x \in AccessTasks : task'[x] = IF x = t THEN Idle ELSE task[x]
    BY <1>1, <1>2, <1>10 DEF Shapes
  <2>5. \A x \in AccessTasks : ~Live(task'[x])
    BY <1>1, <1>10, <2>3, <2>4, IdleIsTask DEF Live, SettingsHold
  <2>6. SettingsHold'
    BY <1>2, <2>1, <2>2, <2>3, <2>5 DEF SettingsHold
  <2>7. UpdatesHold'
    BY <2>2 DEF UpdatesHold
  <2>8. off' \in Nat /\ off' <= trail.before
    BY <1>1, <1>2, <1>4, <1>10, <2>1, <2>3 DEF GInv, PolicyShapes, PolicyHolds
  <2>9. PolicyHolds'
    BY <1>1, <1>2, <2>8 DEF GInv, PolicyHolds
  <2>10. GuestsFit'
    <3>1. ASSUME NEW s \in Sockets, Holder[s] \in Guests, socket[s].at \in Inside
          PROVE  socket[s].issued > off' /\ trail.on /\ socket[s].issued > trail.before
      <4>1. trail.on /\ socket[s].issued > trail.before
        BY <1>1, <1>7, <3>1 DEF GuestsFit
      <4>2. socket[s].issued \in Nat /\ trail.before \in Nat
        BY <1>1, <1>4 DEF Shapes, Socket, Policy
      <4> QED BY <2>8, <4>1, <4>2
    <3> QED BY <1>1, <1>2, <3>1 DEF GuestsFit
  <2> QED BY <1>8, <2>6, <2>7, <2>9, <2>10 DEF GInv
<1>11. CASE u.task \notin AccessTasks
  <2>1. UNCHANGED <<task, confirmed, off>>
    BY <1>2, <1>11
  <2>2. SettingsHold'
    BY <1>1, <1>2, <1>3, <2>1 DEF SettingsHold
  <2>3. PolicyHolds'
    BY <1>1, <1>2, <2>1 DEF GInv, PolicyHolds
  <2>4. GuestsFit'
    BY <1>1, <1>2, <1>7, <2>1 DEF GuestsFit
  <2>5. UpdatesHold'
    <3>1. ASSUME NEW i \in 1 .. Len(updates'), updates'[i].task \in AccessTasks
          PROVE  LET q == task[updates'[i].task]
                 IN  /\ i = Len(updates') /\ q.op = "settings" /\ q.at = "wait" /\ q.on = updates'[i].rules.on
                     /\ updates'[i].at = "read"
      <4>1. i + 1 \in 1 .. Len(updates) /\ updates'[i] = updates[i + 1]
        BY <1>3, <1>5
      <4>2. i + 1 = Len(updates)
        BY <1>1, <3>1, <4>1 DEF UpdatesHold
      <4>3. i = Len(updates')
        BY <1>3, <1>5, <4>2
      <4> QED BY <1>1, <1>6, <3>1, <4>1, <4>3 DEF UpdatesHold
    <3>2. \A i \in 2 .. Len(updates') : updates'[i].at = "read"
      BY <1>3, <1>5, <1>6
    <3> QED BY <1>9, <2>1, <3>1, <3>2 DEF UpdatesHold
  <2> QED BY <1>8, <2>2, <2>3, <2>4, <2>5 DEF GInv
<1> QED BY <1>10, <1>11

-----------------------------------------------------------------------------
(* The theorem.                                                            *)

LEMMA GInvInit == AccessInit => GInv
<1> SUFFICES ASSUME AccessInit PROVE GInv
  OBVIOUS
<1>1. Idle.op = "none" /\ \A t \in AccessTasks : task[t] = Idle
  BY IdleIsTask DEF AccessInit
<1>2. updates \in Seq(Update) /\ Len(updates) = 0
  BY DEF AccessInit
<1>3. PolicyShapes /\ PolicyHolds
  BY <1>2, NoPolicyIsPolicy DEF AccessInit, PolicyShapes, PolicyHolds
<1>4. UpdatesHold
  BY <1>2 DEF UpdatesHold
<1>5. GuestsFit
  BY DEF AccessInit, GuestsFit, Unconnected, Inside
<1>6. SettingsHold
  BY <1>1, <1>2 DEF AccessInit, SettingsHold, Live, NoGuests
<1> QED BY <1>3, <1>4, <1>5, <1>6 DEF GInv

LEMMA GInvNext == IInv /\ RInv' /\ [AccessNext]_accessVars => GInv'
<1> SUFFICES ASSUME IInv, RInv', [AccessNext]_accessVars PROVE GInv'
  OBVIOUS
<1>1. CASE UNCHANGED accessVars
  BY <1>1, OthersG
<1>2. ASSUME NEW r \in Roles, EnsureInvite(r) \/ RotateInvite(r) \/ InviteExpires(r) PROVE GInv'
  BY <1>2, OthersG
<1>3. ASSUME NEW t \in AccessTasks,
             \/ \E p \in Users \cup Guests, r \in Roles : ClaimRead(t, p, r)
             \/ \E p \in Users \cup Guests : TokenRead(t, p)
             \/ ClaimRecord(t) \/ TokenAllowed(t) \/ TokenRemoved(t) \/ TokenIssue(t)
             \/ \E s \in Sockets : RemoveInspect(t, s)
             \/ RemoveMark(t) \/ RemoveKick(t)
             \/ \E on \in BOOLEAN : SettingsStart(t, on)
             \/ SettingsRow(t) \/ SettingsCall(t) \/ GiveUp(t)
      PROVE  GInv'
  BY <1>3, RequestG, KickG, SettingsRowG, SettingsCallG, GiveUpG
<1>4. ASSUME OwnerTicket \/ \E p \in People : TicketExpires(p) \/ RestoreForRequest(p) PROVE GInv'
  BY <1>4, OthersG
<1>5. ASSUME NEW s \in Sockets,
             Connect(s) \/ JoinStart(s) \/ JoinRegistered(s) \/ JoinEnter(s) \/ Disconnect(s) \/ Sweep(s)
      PROVE  GInv'
  BY <1>5, SocketG
<1>6. ASSUME PolicyRead \/ PolicyPersist \/ PolicyApply \/ PolicyDone \/ CollabRestart \/ Tick PROVE GInv'
  BY <1>6, PolicyReadG, PolicyPersistG, PolicyApplyG, PolicyDoneG, RestartG, OthersG
<1> QED BY <1>1, <1>2, <1>3, <1>4, <1>5, <1>6 DEF AccessNext

\* Removal and the guest policy together, whatever requests, joins and restarts cross.
THEOREM AccessHolds == AccessSpec => []IInv
<1>1. AccessInit => IInv
  BY RInvInit, GInvInit DEF IInv
<1>2. IInv /\ [AccessNext]_accessVars => IInv'
  BY RInvNext, GInvNext DEF IInv
<1> QED BY <1>1, <1>2, PTL DEF AccessSpec

\* For any number of guests, sockets, changes and restarts: once guests were switched off
\* with success none is in the room, and no ticket from before opens it again.
THEOREM RevokedGuestsStayOut == AccessSpec => []RevokedGuestsAreOut
<1>1. ASSUME IInv, NEW s \in Sockets, socket[s].at = "in", Holder[s] \in Guests
      PROVE  (confirmed => allowGuests) /\ socket[s].issued > off
  <2>1. socket[s].issued > off /\ (trail.on \/ AboutToSweep)
    BY <1>1 DEF IInv, GInv, GuestsFit, Inside
  <2>2. Holder[s] \in known
    BY <1>1, AccessAssumption DEF IInv, RInv, HaveRows
  <2>3. confirmed => allowGuests
    BY <1>1, <2>1, <2>2 DEF IInv, GInv, SettingsHold, AboutToSweep, NoGuests
  <2> QED BY <2>1, <2>3
<1>2. IInv => RevokedGuestsAreOut
  BY <1>1 DEF RevokedGuestsAreOut
<1> QED BY <1>2, AccessHolds, PTL

-----------------------------------------------------------------------------
(* Types: the dates of tickets and policies, and who has a row.            *)

LinksFit == \A r \in Roles : link[r].n \in 1 .. MaxLinks
RowsFit ==
  /\ known \subseteq Users \cup Guests /\ removed \subseteq known /\ excluded \subseteq Users \cup Guests
  /\ \A t \in AccessTasks : task[t].op \in {"claim", "token"} => task[t].who \in Users \cup Guests
DatesFit ==
  /\ \A s \in Sockets : socket[s].issued <= clock
  /\ \A p \in People : ticket[p] <= clock
  /\ policy.before <= clock

LEMMA LinksFitStep ==
  ASSUME Shapes, LinksFit, [AccessNext]_accessVars
  PROVE  LinksFit'
<1>1. link \in [Roles -> Link] /\ MaxLinks \in Nat
  BY AccessAssumption DEF Shapes
<1>2. ASSUME NEW r \in Roles, EnsureInvite(r) \/ RotateInvite(r) PROVE LinksFit'
  <2>1. link' = [link EXCEPT ![r] = [n |-> link[r].n + 1, valid |-> TRUE]] /\ link[r].n < MaxLinks
    BY <1>2 DEF EnsureInvite, RotateInvite, NewLink
  <2>2. link[r].n \in 1 .. MaxLinks
    BY DEF LinksFit
  <2> QED BY <1>1, <2>1, <2>2 DEF LinksFit, Link
<1>3. ASSUME NEW r \in Roles, InviteExpires(r) PROVE LinksFit'
  BY <1>1, <1>3 DEF InviteExpires, LinksFit, Link
<1>4. ASSUME UNCHANGED link PROVE LinksFit'
  BY <1>4 DEF LinksFit
<1>5. ASSUME NEW t \in AccessTasks,
             \/ \E p \in Users \cup Guests, r \in Roles : ClaimRead(t, p, r)
             \/ \E p \in Users \cup Guests : TokenRead(t, p)
             \/ ClaimRecord(t) \/ TokenAllowed(t) \/ TokenRemoved(t) \/ TokenIssue(t)
             \/ \E s \in Sockets : RemoveInspect(t, s)
             \/ RemoveMark(t) \/ RemoveKick(t)
             \/ \E on \in BOOLEAN : SettingsStart(t, on)
             \/ SettingsRow(t) \/ SettingsCall(t) \/ GiveUp(t)
      PROVE  UNCHANGED link
  BY <1>5 DEF ClaimRead, TokenRead, ClaimRecord, TokenAllowed, TokenRemoved, TokenIssue, RemoveInspect,
              RemoveMark, RemoveKick, SettingsStart, SettingsRow, SettingsCall, GiveUp
<1>6. ASSUME \/ OwnerTicket \/ \E p \in People : TicketExpires(p) \/ RestoreForRequest(p)
             \/ \E s \in Sockets :
                  Connect(s) \/ JoinStart(s) \/ JoinRegistered(s) \/ JoinEnter(s) \/ Disconnect(s) \/ Sweep(s)
             \/ PolicyRead \/ PolicyPersist \/ PolicyApply \/ PolicyDone \/ CollabRestart \/ Tick
             \/ UNCHANGED accessVars
      PROVE  UNCHANGED link
  BY <1>6 DEF OwnerTicket, TicketExpires, RestoreForRequest, Connect, JoinStart, JoinRegistered, JoinEnter,
              Disconnect, Sweep, PolicyRead, PolicyPersist, PolicyApply, PolicyDone, CollabRestart, Tick,
              accessVars, webSide
<1> QED BY <1>2, <1>3, <1>4, <1>5, <1>6 DEF AccessNext

\* What a step does to the rows and to one request.
LEMMA RowsFitTask ==
  ASSUME Shapes, RowsFit, NEW t \in AccessTasks, NEW q, task' = [task EXCEPT ![t] = q],
         q.op \in {"claim", "token"} => q.who \in Users \cup Guests,
         known' \subseteq known \cup (Users \cup Guests), known \subseteq known',
         removed' \subseteq removed \cup known, excluded' \subseteq Users \cup Guests
  PROVE  RowsFit'
<1>1. DOMAIN task = AccessTasks
  BY DEF Shapes
<1>2. \A x \in AccessTasks : task'[x] = IF x = t THEN q ELSE task[x]
  BY <1>1
<1>3. \A x \in AccessTasks : task'[x].op \in {"claim", "token"} => task'[x].who \in Users \cup Guests
  BY <1>2 DEF RowsFit
<1> QED BY <1>3 DEF RowsFit

LEMMA RowsFitSame ==
  ASSUME RowsFit, UNCHANGED <<known, removed>>, excluded' \subseteq Users \cup Guests,
         \A t \in AccessTasks : task'[t].op = "none" \/ (task'[t].op = task[t].op /\ task'[t].who = task[t].who)
  PROVE  RowsFit'
  BY DEF RowsFit

LEMMA RowsFitStep ==
  ASSUME Shapes, HaveRows, RowsFit, [AccessNext]_accessVars
  PROVE  RowsFit'
<1>1. task \in [AccessTasks -> Task]
  BY DEF Shapes
<1>2. Idle.op = "none"
  BY IdleIsTask
<1>3. \A gone, t : t \in AccessTasks => Forget(gone)[t].op = task[t].op /\ Forget(gone)[t].who = task[t].who
  BY ForgetKeeps
<1>4. ASSUME NEW t \in AccessTasks,
             \/ \E p \in Users \cup Guests, r \in Roles : ClaimRead(t, p, r)
             \/ \E p \in Users \cup Guests : TokenRead(t, p)
             \/ \E s \in Sockets : RemoveInspect(t, s)
             \/ \E on \in BOOLEAN : SettingsStart(t, on)
      PROVE  RowsFit'
  <2>1. UNCHANGED <<known, removed, excluded>>
    BY <1>4 DEF ClaimRead, TokenRead, RemoveInspect, SettingsStart, collabSide
  <2>2. \E q : /\ task' = [task EXCEPT ![t] = q]
               /\ q.op \in {"claim", "token"} => q.who \in Users \cup Guests
    <3> DEFINE Fits(q) == task' = [task EXCEPT ![t] = q] /\ (q.op \in {"claim", "token"} => q.who \in Users \cup Guests)
    <3>1. ASSUME NEW p \in Users \cup Guests, NEW r \in Roles, ClaimRead(t, p, r) PROVE \E q : Fits(q)
      <4>1. Fits([Idle EXCEPT !.op = "claim", !.at = "record", !.who = p, !.role = r, !.n = link[r].n])
        BY <3>1 DEF ClaimRead, Start, Idle
      <4> QED BY <4>1
    <3>2. ASSUME NEW p \in Users \cup Guests, TokenRead(t, p) PROVE \E q : Fits(q)
      <4>1. Fits([Idle EXCEPT !.op = "token", !.at = IF p \in Guests THEN "allowed" ELSE "removed", !.who = p])
        BY <3>2 DEF TokenRead, Start, Idle
      <4> QED BY <4>1
    <3>3. ASSUME NEW s \in Sockets, RemoveInspect(t, s) PROVE \E q : Fits(q)
      <4>1. PICK who : Start(t, [Idle EXCEPT !.op = "remove", !.at = IF who = Nobody THEN "kick" ELSE "mark",
                                             !.who = who, !.socket = s])
        BY <3>3 DEF RemoveInspect
      <4>2. Fits([Idle EXCEPT !.op = "remove", !.at = IF who = Nobody THEN "kick" ELSE "mark",
                              !.who = who, !.socket = s])
        BY <4>1 DEF Start, Idle
      <4> QED BY <4>2
    <3>4. ASSUME NEW on \in BOOLEAN, SettingsStart(t, on) PROVE \E q : Fits(q)
      <4>1. Fits([Idle EXCEPT !.op = "settings", !.at = "row", !.on = on])
        BY <3>4 DEF SettingsStart, Start, Idle
      <4> QED BY <4>1
    <3> HIDE DEF Fits
    <3>5. \E q : Fits(q)
      BY <1>4, <3>1, <3>2, <3>3, <3>4
    <3> QED BY <3>5 DEF Fits
  <2> QED BY <2>1, <2>2, RowsFitTask DEF RowsFit
<1>5. ASSUME NEW t \in AccessTasks,
             \/ ClaimRecord(t) \/ TokenAllowed(t) \/ TokenRemoved(t) \/ TokenIssue(t) \/ RemoveMark(t)
             \/ SettingsRow(t) \/ SettingsCall(t) \/ GiveUp(t)
      PROVE  RowsFit'
  <2>1. task[t] \in Task
    BY <1>1
  <2>2. \E q : task' = [task EXCEPT ![t] = q] /\ (q.op = "none" \/ (q.op = task[t].op /\ q.who = task[t].who))
    <3>1. CASE SettingsRow(t)
      <4>1. task' = [task EXCEPT ![t] = [task[t] EXCEPT !.at = "call", !.since = clock]]
        BY <3>1, <1>1 DEF SettingsRow
      <4>2. /\ [task[t] EXCEPT !.at = "call", !.since = clock].op = task[t].op
            /\ [task[t] EXCEPT !.at = "call", !.since = clock].who = task[t].who
        BY <2>1 DEF Task
      <4> QED BY <4>1, <4>2
    <3>2. CASE Finish(t)
      BY <3>2, <1>2 DEF Finish
    <3>3. CASE \E at : GoOn(t, at)
      <4>1. PICK at : task' = [task EXCEPT ![t] = [task[t] EXCEPT !.at = at]]
        BY <3>3 DEF GoOn
      <4>2. [task[t] EXCEPT !.at = at].op = task[t].op /\ [task[t] EXCEPT !.at = at].who = task[t].who
        BY <2>1 DEF Task
      <4> QED BY <4>1, <4>2
    <3> QED BY <1>5, <3>1, <3>2, <3>3
            DEF ClaimRecord, TokenAllowed, TokenRemoved, TokenIssue, RemoveMark, SettingsCall, GiveUp
  <2>3. /\ known' = known \/ (known' = known \cup {task[t].who} /\ task[t].op \in {"claim", "token"})
        /\ removed' \subseteq removed \cup known /\ UNCHANGED excluded
    BY <1>5 DEF ClaimRecord, TokenAllowed, TokenRemoved, TokenIssue, RemoveMark, SettingsRow, SettingsCall,
                GiveUp, Record, MarkRemoved, StandsAt, collabSide
  <2>4. task[t].op \in {"claim", "token"} => task[t].who \in Users \cup Guests
    BY DEF RowsFit
  <2>5. known' \subseteq known \cup (Users \cup Guests) /\ known \subseteq known' /\ excluded' \subseteq Users \cup Guests
    BY <2>3, <2>4 DEF RowsFit
  <2> QED BY <2>2, <2>3, <2>4, <2>5, RowsFitTask
<1>6. ASSUME NEW t \in AccessTasks, RemoveKick(t) PROVE RowsFit'
  <2>1. task[t].who # Nobody => task[t].who \in Users \cup Guests
    BY <1>6 DEF RemoveKick, StandsAt, HaveRows, Removes, People
  <2>2. UNCHANGED <<known, removed>> /\ excluded' \subseteq excluded \cup ({task[t].who} \ {Nobody})
    BY <1>6 DEF RemoveKick
  <2>3. \E gone : \A x \in AccessTasks : task'[x] = Idle \/ task'[x] = task[x] \/ task'[x] = Forget(gone)[x]
    <3>1. (\E gone : task' = [Forget(gone) EXCEPT ![t] = Idle]) \/ Finish(t)
      BY <1>6 DEF RemoveKick
    <3>2. ASSUME NEW gone, task' = [Forget(gone) EXCEPT ![t] = Idle]
          PROVE  \A x \in AccessTasks : task'[x] = Idle \/ task'[x] = Forget(gone)[x]
      BY <3>2 DEF Forget
    <3>3. ASSUME Finish(t) PROVE \A x \in AccessTasks : task'[x] = Idle \/ task'[x] = task[x]
      BY <1>1, <3>3 DEF Finish
    <3> QED BY <3>1, <3>2, <3>3
  <2>4. \A x \in AccessTasks : task'[x].op = "none" \/ (task'[x].op = task[x].op /\ task'[x].who = task[x].who)
    BY <1>2, <1>3, <2>3
  <2>5. excluded' \subseteq Users \cup Guests
    BY <2>1, <2>2 DEF RowsFit
  <2> QED BY <2>2, <2>4, <2>5, RowsFitSame
<1>7. ASSUME \/ \E s \in Sockets : Disconnect(s) \/ Sweep(s)
             \/ CollabRestart
      PROVE  RowsFit'
  <2>1. UNCHANGED <<known, removed>> /\ excluded' \in {excluded, {}} /\ \E gone : task' = Forget(gone)
    BY <1>7 DEF Disconnect, Sweep, CollabRestart
  <2> QED BY <2>1, <1>3, RowsFitSame DEF RowsFit
<1>8. ASSUME PolicyDone PROVE RowsFit'
  <2>1. UNCHANGED <<known, removed, excluded>>
    BY <1>8 DEF PolicyDone
  <2>2. task' = task \/ \E t \in AccessTasks : task' = [task EXCEPT ![t] = Idle]
    BY <1>8 DEF PolicyDone, Finish
  <2>3. \A x \in AccessTasks : task'[x].op = "none" \/ (task'[x].op = task[x].op /\ task'[x].who = task[x].who)
    BY <1>1, <1>2, <2>2
  <2> QED BY <2>1, <2>3, RowsFitSame DEF RowsFit
<1>9. ASSUME \/ \E r \in Roles : EnsureInvite(r) \/ RotateInvite(r) \/ InviteExpires(r)
             \/ OwnerTicket \/ \E p \in People : TicketExpires(p) \/ RestoreForRequest(p)
             \/ \E s \in Sockets : Connect(s) \/ JoinStart(s) \/ JoinRegistered(s) \/ JoinEnter(s)
             \/ PolicyRead \/ PolicyPersist \/ PolicyApply \/ Tick \/ UNCHANGED accessVars
      PROVE  RowsFit'
  <2>1. UNCHANGED <<known, removed, excluded, task>>
    BY <1>9 DEF EnsureInvite, RotateInvite, InviteExpires, OwnerTicket, TicketExpires, RestoreForRequest, Connect,
                JoinStart, JoinRegistered, JoinEnter, PolicyRead, PolicyPersist, PolicyApply, Tick,
                accessVars, webSide, collabSide
  <2> QED BY <2>1 DEF RowsFit
<1> QED BY <1>4, <1>5, <1>6, <1>7, <1>8, <1>9 DEF AccessNext

\* A ticket is dated when it is issued, a connection has its ticket's date, and a policy
\* is dated when it is decided; none of it is from the future.
LEMMA DatesFitStep ==
  ASSUME IInv, DatesFit, [AccessNext]_accessVars
  PROVE  DatesFit'
<1>1. /\ socket \in [Sockets -> Socket] /\ ticket \in [People -> Nat] /\ clock \in Nat
      /\ Holder \in [Sockets -> People] /\ Owner \in People /\ Users \cup Guests \subseteq People
  BY AccessAssumption DEF IInv, RInv, Shapes, People
<1>2. policy \in Policy /\ trail \in Policy /\ trail.before <= clock
  BY DEF IInv, GInv, PolicyShapes, PolicyHolds
<1>3. \A s \in Sockets : socket[s].issued \in Nat
  BY <1>1 DEF Socket
<1>4. policy.before \in Nat /\ trail.before \in Nat
  BY <1>2 DEF Policy
<1>5. NoPolicy.before = 0 /\ Unconnected.issued = 0
  BY DEF NoPolicy, Unconnected
<1>6. Restored.before <= clock
  BY <1>2 DEF Restored, DatesFit
<1>7. CASE Tick
  <2>1. clock' = clock + 1 /\ UNCHANGED <<socket, ticket, policy>>
    BY <1>7 DEF Tick, webSide, collabSide
  <2>2. \A n \in Nat : n <= clock => n <= clock'
    BY <1>1, <2>1
  <2> QED BY <1>1, <1>3, <1>4, <2>1, <2>2 DEF DatesFit
<1>8. ASSUME \/ OwnerTicket \/ \E p \in People : TicketExpires(p)
             \/ \E t \in AccessTasks : TokenIssue(t)
      PROVE  DatesFit'
  <2>1. UNCHANGED <<socket, policy, clock>>
    BY <1>8 DEF OwnerTicket, TicketExpires, TokenIssue, collabSide
  <2>2. \E p, date : date \in {0, clock} /\ ticket' = [ticket EXCEPT ![p] = date]
    BY <1>8 DEF OwnerTicket, TicketExpires, TokenIssue
  <2>3. \A p \in People : ticket'[p] <= clock
    BY <1>1, <2>2 DEF DatesFit
  <2> QED BY <2>1, <2>3 DEF DatesFit
<1>9. ASSUME UNCHANGED <<ticket, clock>>, policy'.before <= clock,
             \A s \in Sockets : socket'[s].issued \in {0, socket[s].issued, ticket[Holder[s]]}
      PROVE  DatesFit'
  BY <1>1, <1>3, <1>9 DEF DatesFit
<1>10. ASSUME NEW s \in Sockets,
              Connect(s) \/ JoinStart(s) \/ JoinRegistered(s) \/ JoinEnter(s) \/ Disconnect(s) \/ Sweep(s)
       PROVE  DatesFit'
  <2>1. UNCHANGED <<ticket, clock>> /\ policy' \in {policy, Restored}
    BY <1>10 DEF Connect, JoinStart, JoinRegistered, JoinEnter, Disconnect, Sweep, webSide
  <2>2. \E q : socket' = [socket EXCEPT ![s] = q] /\ q.issued \in {0, socket[s].issued, ticket[Holder[s]]}
    <3>1. CASE Connect(s)
      <4> DEFINE q == [at |-> "connected", issued |-> ticket[Holder[s]]]
      <4>1. socket' = [socket EXCEPT ![s] = q] /\ q.issued = ticket[Holder[s]]
        BY <3>1 DEF Connect
      <4> QED BY <4>1
    <3>2. CASE Disconnect(s) \/ Sweep(s)
      BY <3>2, <1>5 DEF Disconnect, Sweep
    <3>3. CASE JoinStart(s) \/ JoinRegistered(s) \/ JoinEnter(s)
      <4>1. \E at : socket' = [socket EXCEPT ![s] = [socket[s] EXCEPT !.at = at]]
        BY <3>3 DEF JoinStart, JoinRegistered, JoinEnter
      <4>2. \A at : [socket[s] EXCEPT !.at = at].issued = socket[s].issued
        BY <1>1 DEF Socket
      <4> QED BY <4>1, <4>2
    <3> QED BY <1>10, <3>1, <3>2, <3>3
  <2>3. \A x \in Sockets : socket'[x].issued \in {0, socket[x].issued, ticket[Holder[x]]}
    BY <1>1, <2>2
  <2>4. policy'.before <= clock
    BY <1>6, <2>1 DEF DatesFit
  <2> QED BY <1>9, <2>1, <2>3, <2>4
<1>11. ASSUME NEW t \in AccessTasks, RemoveKick(t) PROVE DatesFit'
  <2>1. UNCHANGED <<ticket, clock, policy>>
    BY <1>11 DEF RemoveKick
  <2>2. \A s \in Sockets : socket'[s] \in {Unconnected, socket[s]}
    BY <1>11, <1>1 DEF RemoveKick
  <2> QED BY <1>5, <1>9, <2>1, <2>2 DEF DatesFit
<1>12. CASE CollabRestart
  <2>1. UNCHANGED <<ticket, clock>> /\ policy' = NoPolicy /\ \A s \in Sockets : socket'[s] = Unconnected
    BY <1>12 DEF CollabRestart
  <2> QED BY <1>1, <1>5, <1>9, <2>1
<1>13. CASE PolicyApply
  <2>1. Working("apply")
    BY <1>13 DEF PolicyApply
  <2>2. Head(updates) = updates[1] /\ updates[1].at = "apply" /\ Len(updates) > 0
    BY <2>1, WorkingOn DEF IInv
  <2>3. Head(updates).rules = trail
    BY <2>2 DEF IInv, GInv, UpdatesHold
  <2>4. UNCHANGED <<ticket, clock>> /\ policy' = trail
    BY <1>13, <2>3 DEF PolicyApply, webSide
  <2>5. \A s \in Sockets : socket'[s] \in {[socket[s] EXCEPT !.at = "sweeping"], socket[s]}
    BY <1>13 DEF PolicyApply
  <2>6. \A s \in Sockets : [socket[s] EXCEPT !.at = "sweeping"].issued = socket[s].issued
    BY <1>1 DEF Socket
  <2>7. \A s \in Sockets : socket'[s].issued \in {0, socket[s].issued, ticket[Holder[s]]}
    BY <2>5, <2>6
  <2> QED BY <1>2, <1>9, <2>4, <2>7
<1>14. ASSUME \/ \E p \in People : RestoreForRequest(p)
              \/ PolicyRead \/ PolicyPersist \/ PolicyDone \/ UNCHANGED accessVars
       PROVE  DatesFit'
  <2>1. UNCHANGED <<ticket, clock, socket>> /\ policy' \in {policy, Restored}
    BY <1>14 DEF RestoreForRequest, PolicyRead, PolicyPersist, PolicyDone, accessVars, webSide, collabSide
  <2> QED BY <1>6, <1>9, <2>1 DEF DatesFit
<1>15. ASSUME \/ \E r \in Roles : EnsureInvite(r) \/ RotateInvite(r) \/ InviteExpires(r)
              \/ \E t \in AccessTasks :
                   \/ \E p \in Users \cup Guests, r \in Roles : ClaimRead(t, p, r)
                   \/ \E p \in Users \cup Guests : TokenRead(t, p)
                   \/ ClaimRecord(t) \/ TokenAllowed(t) \/ TokenRemoved(t)
                   \/ \E s \in Sockets : RemoveInspect(t, s)
                   \/ RemoveMark(t)
                   \/ \E on \in BOOLEAN : SettingsStart(t, on)
                   \/ SettingsRow(t) \/ SettingsCall(t) \/ GiveUp(t)
       PROVE  DatesFit'
  <2>1. UNCHANGED <<ticket, clock, socket, policy>>
    BY <1>15 DEF EnsureInvite, RotateInvite, InviteExpires, ClaimRead, TokenRead, ClaimRecord, TokenAllowed,
                 TokenRemoved, RemoveInspect, RemoveMark, SettingsStart, SettingsRow, SettingsCall, GiveUp, collabSide
  <2> QED BY <2>1 DEF DatesFit
<1> QED BY <1>7, <1>8, <1>10, <1>11, <1>12, <1>13, <1>14, <1>15 DEF AccessNext

\* Links, rows, tickets, connections and policies have the values they are meant to
\* have: only accounts and guests are recorded or excluded, and nothing is dated later
\* than now, so a comparison of dates compares what has happened.
THEOREM AccessTypeCorrect == AccessSpec => []AccessTypes
<1>1. AccessInit => LinksFit /\ RowsFit /\ DatesFit
  <2> SUFFICES ASSUME AccessInit PROVE LinksFit /\ RowsFit /\ DatesFit
    OBVIOUS
  <2>1. LinksFit
    BY AccessAssumption DEF AccessInit, LinksFit
  <2>2. RowsFit
    BY IdleIsTask DEF AccessInit, RowsFit
  <2>3. DatesFit
    BY DEF AccessInit, DatesFit, Unconnected, NoPolicy
  <2> QED BY <2>1, <2>2, <2>3
<1>2. IInv /\ (LinksFit /\ RowsFit /\ DatesFit) /\ [AccessNext]_accessVars => (LinksFit /\ RowsFit /\ DatesFit)'
  BY LinksFitStep, RowsFitStep, DatesFitStep DEF IInv, RInv
<1>3. ASSUME IInv, LinksFit, RowsFit, DatesFit PROVE AccessTypes
  <2>1. /\ link \in [Roles -> Link] /\ socket \in [Sockets -> Socket] /\ task \in [AccessTasks -> Task]
        /\ clock \in Nat /\ policy \in Policy /\ trail \in Policy /\ off \in Nat
    BY <1>3 DEF IInv, RInv, GInv, Shapes, PolicyShapes
  <2>2. \A r \in Roles : link[r].n \in 1 .. MaxLinks /\ link[r].valid \in BOOLEAN
    BY <1>3, <2>1 DEF LinksFit, Link
  <2>3. \A s \in Sockets : socket[s].at \in {"off", "connected", "joining", "sweeping"} \cup Inside
    BY <2>1 DEF Socket, Stages, Inside
  <2>4. policy.revision >= 0 /\ policy.before <= clock /\ trail.before <= clock /\ off <= clock
    BY <1>3, <2>1 DEF DatesFit, IInv, GInv, PolicyHolds, Policy
  <2>5. out \subseteq People
    BY <1>3 DEF IInv, RInv, OutStays
  <2>6. \A t \in AccessTasks : task[t].who \in People \cup {Nobody}
    BY <2>1 DEF Task
  <2> QED BY <1>3, <2>2, <2>3, <2>4, <2>5, <2>6 DEF AccessTypes, RowsFit, DatesFit
<1> QED BY <1>1, <1>2, <1>3, AccessHolds, PTL DEF AccessSpec
=============================================================================
