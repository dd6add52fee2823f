---------------------------- MODULE Facilitation ----------------------------
(***************************************************************************)
(* Facilitation of a live session: the moderation state and the votes the  *)
(* server keeps in memory, the broadcasts that bring them to every page,   *)
(* and "everyone follows me", which brings the host's viewport to the      *)
(* participants through a throttle, a relay and a hook that can be stopped.*)
(*                                                                         *)
(* A page and the server exchange messages over one connection, in order:  *)
(* outbox[p] is on its way to the server, mail[p] to the page.  The host   *)
(* has one page.  Left out: the wording of labels, the timer's countdown   *)
(* (a timer runs or does not), the participants' own scrolling, reactions  *)
(* (which leave no state) and the limiter of viewport updates, whose 20    *)
(* updates a second the throttle of 100 ms stays below.                    *)
(***************************************************************************)
EXTENDS Naturals, Sequences, FiniteSets

CONSTANTS Participants,      \* pages with the live canvas open
          Moderator,         \* the host's page
          ActorOf,           \* [Participants -> the identities the server counts votes by]
          Votable,           \* elements that can be voted for
          Viewports, Limits, \* places on the canvas; numbers of votes per participant
          DefaultLimit, NoViewport,
          MaxMail            \* bound: messages on their way in one direction

ASSUME FacilitationAssumption ==
  /\ Moderator \in Participants
  /\ Limits \subseteq Nat /\ DefaultLimit \in Limits
  /\ NoViewport \notin Viewports /\ Viewports # {}
  /\ MaxMail \in Nat \ {0}

VARIABLES
  moderation,   \* the server's moderation state of the session
  votes,        \* the server's votes: pairs of an actor and an element
  stage,        \* stage[p]: "out", "joining" (the server works on its join), "in" the room
  mail, outbox,
  shownState,   \* shownState[p]: the moderation and votes the page shows
  seen,         \* seen[p]: the last viewport the page received
  stopped,      \* stopped[p]: its participant opted out of following
  place,        \* place[p]: the viewport its canvas shows
  pending,      \* the host's viewport waiting for the throttle
  owed          \* history: pages that joined, or lost the host, since the last viewport was relayed

roomVars == <<moderation, votes, stage>>
shownVars == <<shownState, seen, stopped, place, pending>>
mailVars == <<mail, outbox>>
facilitationVars == <<roomVars, shownVars, mailVars, owed>>

Actors == {ActorOf[p] : p \in Participants}

Moderations == [follow: BOOLEAN, locked: BOOLEAN, timer: BOOLEAN, open: BOOLEAN, limit: Limits]
Ballots == SUBSET (Actors \X Votable)

DefaultModeration ==
  [follow |-> FALSE, locked |-> FALSE, timer |-> FALSE, open |-> FALSE, limit |-> DefaultLimit]

InRoom == {p \in Participants : stage[p] = "in"}

-----------------------------------------------------------------------------
(* Messages.                                                               *)

Changes == [field: {"follow", "locked", "timer"}, to: BOOLEAN]
             \cup [field: {"vote limit"}, to: Limits] \cup [field: {"stop voting", "reset"}]

ToServer == [kind: {"moderate"}, change: Changes] \cup [kind: {"vote"}, element: Votable]
              \cup [kind: {"viewport"}, at: Viewports]

ToPage == [kind: {"joined"}, moderation: Moderations, votes: Ballots]
            \cup [kind: {"moderation"}, moderation: Moderations]
            \cup [kind: {"votes"}, votes: Ballots] \cup [kind: {"viewport"}, at: Viewports]

\* Mutant: the host is left out of what it asks for, as it is for its viewport.
BroadcastToOthers(ms) ==
  mail' = [p \in Participants |-> IF p \in InRoom \ {Moderator} THEN mail[p] \o ms ELSE mail[p]]

\* server.to(room).emit: the messages ms reach every page in the room, in that order.
Broadcast(ms) ==
  mail' = [p \in Participants |-> IF p \in InRoom THEN mail[p] \o ms ELSE mail[p]]

Emit(p, m) == outbox' = [outbox EXCEPT ![p] = Append(@, m)]

-----------------------------------------------------------------------------
(* Joining and leaving.                                                    *)

\* The socket connects (again) and asks to join; the join waits for the database.
StartJoin(p) ==
  /\ stage[p] = "out"
  /\ stage' = [stage EXCEPT ![p] = "joining"]
  /\ UNCHANGED <<moderation, votes, shownVars, mailVars, owed>>

\* The join's awaits are over: the socket enters the room, and its answer holds
\* the state of now.  No viewport is kept for those who join.
JoinAnswered(p) ==
  /\ stage[p] = "joining"
  /\ stage' = [stage EXCEPT ![p] = "in"]
  /\ mail' = [mail EXCEPT ![p] = Append(@, [kind |-> "joined", moderation |-> moderation, votes |-> votes])]
  /\ owed' = owed \cup {p}
  /\ UNCHANGED <<moderation, votes, shownVars, outbox>>

Owing(p) == IF p = Moderator THEN Participants ELSE owed \cup {p}

\* The connection is lost: what was on its way is lost, what the page shows stays.
LoseConnection(p) ==
  /\ stage[p] # "out"
  /\ stage' = [stage EXCEPT ![p] = "out"]
  /\ mail' = [mail EXCEPT ![p] = <<>>] /\ outbox' = [outbox EXCEPT ![p] = <<>>]
  /\ owed' = Owing(p)
  /\ UNCHANGED <<moderation, votes, shownVars>>

\* The page is closed or loaded again: nothing of it stays.
LoadAgain(p) ==
  /\ stage' = [stage EXCEPT ![p] = "out"]
  /\ mail' = [mail EXCEPT ![p] = <<>>] /\ outbox' = [outbox EXCEPT ![p] = <<>>]
  /\ shownState' = [shownState EXCEPT ![p] = [moderation |-> DefaultModeration, votes |-> {}]]
  /\ seen' = [seen EXCEPT ![p] = NoViewport] /\ stopped' = [stopped EXCEPT ![p] = FALSE]
  /\ \E v \in Viewports : place' = [place EXCEPT ![p] = v]
  /\ pending' = IF p = Moderator THEN NoViewport ELSE pending
  /\ owed' = Owing(p)
  /\ UNCHANGED <<moderation, votes>>

\* The eviction of an empty session, its end or a restart of the server: the
\* state is forgotten, and no page is in the room.
ForgetSession ==
  /\ moderation' = DefaultModeration /\ votes' = {}
  /\ stage' = [p \in Participants |-> "out"]
  /\ mail' = [p \in Participants |-> <<>>] /\ outbox' = [p \in Participants |-> <<>>]
  /\ owed' = Participants
  /\ UNCHANGED shownVars

-----------------------------------------------------------------------------
(* The server serves a page's messages; one that is not in the room is     *)
(* refused.                                                                *)

ApplyUpdate(c) ==
  CASE c.field = "vote limit"  -> [moderation EXCEPT !.open = TRUE, !.limit = c.to]
    [] c.field = "stop voting" -> [moderation EXCEPT !.open = FALSE]
    [] c.field = "reset"       -> moderation
    [] OTHER                   -> [moderation EXCEPT ![c.field] = c.to]

ModerationUpdate(m) ==
  LET new == ApplyUpdate(m.change)
      said == <<[kind |-> "moderation", moderation |-> new]>>
  IN  /\ moderation' = new
      /\ IF m.change.field = "reset"
           THEN votes' = {} /\ Broadcast(said \o <<[kind |-> "votes", votes |-> {}]>>)
           ELSE votes' = votes /\ Broadcast(said)
      /\ owed' = owed

VotesOf(a) == {v \in votes : v[1] = a}

\* The votes after actor a toggles its vote for e: the same ones if that is refused.
Toggled(a, e) ==
  CASE ~moderation.open -> votes
    [] moderation.open /\ <<a, e>> \in votes -> votes \ {<<a, e>>}
    [] moderation.open /\ <<a, e>> \notin votes ->
         IF Cardinality(VotesOf(a)) >= moderation.limit THEN votes ELSE votes \cup {<<a, e>>}

VoteToggle(p, m) ==
  LET new == Toggled(ActorOf[p], m.element)
  IN  /\ votes' = new
      /\ IF new = votes THEN mail' = mail ELSE Broadcast(<<[kind |-> "votes", votes |-> new]>>)
      /\ UNCHANGED <<moderation, owed>>

\* The viewport is passed on to the others while everyone follows, and kept nowhere.
ViewportUpdate(p, m) ==
  /\ IF moderation.follow
       THEN /\ mail' = [q \in Participants |-> IF q \in InRoom \ {p} THEN Append(mail[q], m) ELSE mail[q]]
            /\ owed' = owed \ InRoom
       ELSE UNCHANGED <<mail, owed>>
  /\ UNCHANGED <<moderation, votes>>

Serve(p) ==
  /\ outbox[p] # <<>> /\ \A q \in InRoom : Len(mail[q]) < MaxMail
  /\ outbox' = [outbox EXCEPT ![p] = Tail(@)]
  /\ LET m == Head(outbox[p])
     IN  CASE stage[p] = "joining" -> UNCHANGED <<moderation, votes, mail, owed>>
           [] stage[p] = "in" /\ m.kind = "moderate" -> ModerationUpdate(m)
           [] stage[p] = "in" /\ m.kind = "vote" -> VoteToggle(p, m)
           [] stage[p] = "in" /\ m.kind = "viewport" -> ViewportUpdate(p, m)
  /\ UNCHANGED <<stage, shownVars>>

-----------------------------------------------------------------------------
(* The pages.                                                              *)

Follows(p) == p # Moderator /\ shownState[p].moderation.follow /\ ~stopped[p]

\* The page shows new moderation: an opt-out ends with the period it was for;
\* whoever follows (again) moves to the viewport received last; the host, once
\* everyone follows, sends its own.
ShowModeration(p, new) ==
  LET on == new.follow /\ ~shownState[p].moderation.follow
      out == stopped[p] /\ new.follow
  IN  /\ stopped' = [stopped EXCEPT ![p] = out]
      /\ place' = IF p # Moderator /\ on /\ ~out /\ seen[p] # NoViewport
                     THEN [place EXCEPT ![p] = seen[p]] ELSE place
      /\ IF p = Moderator /\ on THEN Emit(p, [kind |-> "viewport", at |-> place[p]]) ELSE outbox' = outbox

ShowViewport(p, v) ==
  /\ seen' = [seen EXCEPT ![p] = v]
  /\ place' = IF Follows(p) THEN [place EXCEPT ![p] = v] ELSE place
  /\ UNCHANGED <<shownState, stopped, outbox>>

Receive(p) ==
  /\ mail[p] # <<>>
  /\ mail' = [mail EXCEPT ![p] = Tail(@)]
  /\ LET m == Head(mail[p])
     IN  CASE m.kind = "joined" -> /\ ShowModeration(p, m.moderation)
                                   /\ shownState' = [shownState EXCEPT ![p] =
                                                       [moderation |-> m.moderation, votes |-> m.votes]]
                                   /\ seen' = seen
           [] m.kind = "moderation" -> /\ ShowModeration(p, m.moderation)
                                       /\ shownState' = [shownState EXCEPT ![p].moderation = m.moderation]
                                       /\ seen' = seen
           [] m.kind = "votes" -> /\ shownState' = [shownState EXCEPT ![p].votes = m.votes]
                                  /\ UNCHANGED <<stopped, place, outbox, seen>>
           [] m.kind = "viewport" -> ShowViewport(p, m.at)
  /\ UNCHANGED <<roomVars, pending, owed>>

\* The moderation bar.  Its switches send the opposite of what they show.  The
\* throttle of 100 ms has fired before "follow me" is off and on again.
Moderate(c) ==
  LET shown == shownState[Moderator].moderation
  IN  /\ stage[Moderator] # "out" /\ Len(outbox[Moderator]) < MaxMail
      /\ CASE c.field \in {"follow", "locked"} -> c.to = ~shown[c.field]
           [] c.field = "timer" -> c.to \/ shown.timer
           [] c.field = "vote limit" -> ~shown.open
           [] c.field = "stop voting" -> shown.open
           [] c.field = "reset" -> TRUE
      /\ c.field = "follow" /\ c.to => pending = NoViewport
      /\ Emit(Moderator, [kind |-> "moderate", change |-> c])
      /\ UNCHANGED <<roomVars, shownVars, mail, owed>>

\* "Vote" for the selected element while votes are left, or the badge of an
\* element that has votes, as the page shows them.
Vote(p, e) ==
  LET shown == shownState[p]
      mine == {v \in shown.votes : v[1] = ActorOf[p]}
  IN  /\ stage[p] # "out" /\ shown.moderation.open /\ Len(outbox[p]) < MaxMail
      /\ \/ Cardinality(mine) < shown.moderation.limit
         \/ \E v \in shown.votes : v[2] = e
      /\ Emit(p, [kind |-> "vote", element |-> e])
      /\ UNCHANGED <<roomVars, shownVars, mail, owed>>

Broadcasting == shownState[Moderator].moderation.follow

\* Mutant: the throttle keeps the first viewport of a burst instead of the last one.
ScrollLeading(v) ==
  /\ place' = [place EXCEPT ![Moderator] = v]
  /\ pending' = IF Broadcasting /\ pending = NoViewport THEN v ELSE pending
  /\ UNCHANGED <<roomVars, mailVars, shownState, seen, stopped, owed>>

\* The host scrolls: while everyone follows, where to waits for the throttle.
Scroll(v) ==
  /\ place' = [place EXCEPT ![Moderator] = v]
  /\ pending' = IF Broadcasting THEN v ELSE pending
  /\ UNCHANGED <<roomVars, mailVars, shownState, seen, stopped, owed>>

\* The throttle's timer: what waits is sent, if everyone still follows and the
\* page is connected; it is dropped otherwise.
Flush ==
  /\ pending # NoViewport /\ Len(outbox[Moderator]) < MaxMail
  /\ pending' = NoViewport
  /\ IF Broadcasting /\ stage[Moderator] # "out"
       THEN Emit(Moderator, [kind |-> "viewport", at |-> pending])
       ELSE outbox' = outbox
  /\ UNCHANGED <<roomVars, mail, shownState, seen, stopped, place, owed>>

\* A participant stops following, or resumes and moves to the viewport received last.
ToggleFollow(p) ==
  /\ p # Moderator /\ shownState[p].moderation.follow
  /\ stopped' = [stopped EXCEPT ![p] = ~@]
  /\ place' = IF stopped[p] /\ seen[p] # NoViewport THEN [place EXCEPT ![p] = seen[p]] ELSE place
  /\ UNCHANGED <<roomVars, mailVars, shownState, seen, pending, owed>>

-----------------------------------------------------------------------------

FacilitationInit ==
  /\ moderation = DefaultModeration /\ votes = {}
  /\ stage = [p \in Participants |-> "out"]
  /\ mail = [p \in Participants |-> <<>>] /\ outbox = [p \in Participants |-> <<>>]
  /\ shownState = [p \in Participants |-> [moderation |-> DefaultModeration, votes |-> {}]]
  /\ seen = [p \in Participants |-> NoViewport] /\ stopped = [p \in Participants |-> FALSE]
  /\ place \in {[p \in Participants |-> v] : v \in Viewports}
  /\ pending = NoViewport /\ owed = Participants

FacilitationNext ==
  \/ \E p \in Participants : \/ StartJoin(p) \/ JoinAnswered(p) \/ LoseConnection(p) \/ LoadAgain(p)
                             \/ Serve(p) \/ Receive(p) \/ ToggleFollow(p)
                             \/ \E e \in Votable : Vote(p, e)
  \/ \E c \in Changes : Moderate(c)
  \/ \E v \in Viewports : Scroll(v)
  \/ Flush \/ ForgetSession

FacilitationSpec == FacilitationInit /\ [][FacilitationNext]_facilitationVars

-----------------------------------------------------------------------------
\* Every variable has a value it is meant to have.
FacilitationTypes ==
  /\ moderation \in Moderations /\ votes \in Ballots
  /\ stage \in [Participants -> {"out", "joining", "in"}]
  /\ mail \in [Participants -> Seq(ToPage)] /\ outbox \in [Participants -> Seq(ToServer)]
  /\ shownState \in [Participants -> [moderation: Moderations, votes: Ballots]]
  /\ seen \in [Participants -> Viewports \cup {NoViewport}]
  /\ stopped \in [Participants -> BOOLEAN]
  /\ place \in [Participants -> Viewports]
  /\ pending \in Viewports \cup {NoViewport} /\ owed \subseteq Participants

\* Page p shows value as its field f once it has received what is on its way.
WillShow(p, f, value) ==
  LET Tells(i) == mail[p][i].kind \in {"joined", f}
  IN  \/ /\ shownState[p][f] = value
         /\ \A i \in DOMAIN mail[p] : ~Tells(i)
      \/ \E i \in DOMAIN mail[p] :
           /\ Tells(i) /\ mail[p][i][f] = value
           /\ \A j \in DOMAIN mail[p] : j > i => ~Tells(j)

\* Every page in the room, the one that asked for a change and the one that
\* joined while it was made included, shows the server's moderation and votes
\* once it has received what is on its way.
RoomShowsFacilitation ==
  \A p \in InRoom : WillShow(p, "moderation", moderation) /\ WillShow(p, "votes", votes)

\* While everyone follows the host and nothing is on its way or waits for the
\* throttle, whoever follows sees the place that the host sees.  Whoever
\* joined, and everyone after the host lost its connection, is told only the
\* next time the host scrolls or starts "follow me".
FollowersSeeModerator ==
  (/\ moderation.follow /\ Moderator \in InRoom /\ pending = NoViewport
   /\ \A p \in InRoom : mail[p] = <<>> /\ outbox[p] = <<>>)
    => \A p \in InRoom \ (owed \cup {Moderator}) : Follows(p) => place[p] = place[Moderator]
=============================================================================
