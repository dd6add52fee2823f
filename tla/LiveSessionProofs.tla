-------------------------- MODULE LiveSessionProofs --------------------------
(***************************************************************************)
(* What the pages of a live session show, for any number of pages,         *)
(* elements, changes, viewports and messages.  Facilitation: every page in *)
(* the room will show the moderation and the votes the server holds, and   *)
(* whoever follows the host sees what the host sees once nothing is on its *)
(* way.  First what a queue of messages will make its page show, then one  *)
(* step per action.  The canvas: no element of the board is dropped, and   *)
(* pages with nothing on its way show the server's document.  First the    *)
(* order in which Yjs resolves writes, then one step per action, the types *)
(* of the canvas, and last the only step that loses what was drawn.        *)
(***************************************************************************)
EXTENDS Facilitation, LiveCanvas, SequenceTheorems, FiniteSetTheorems, WellFoundedInduction, TLAPS

Tells(m, f) == m.kind \in {"joined", f}

\* A page that shows value as its field f, or will once it has received queue.
Shows(queue, shown, f, value) ==
  \/ shown = value /\ \A i \in DOMAIN queue : ~Tells(queue[i], f)
  \/ \E i \in DOMAIN queue :
       /\ Tells(queue[i], f) /\ queue[i][f] = value
       /\ \A j \in DOMAIN queue : j > i => ~Tells(queue[j], f)

LEMMA WillShowIsShows ==
  ASSUME NEW p, NEW f, NEW value
  PROVE  WillShow(p, f, value) <=> Shows(mail[p], shownState[p][f], f, value)
  BY DEF WillShow, Shows, Tells

\* A page that is not connected has nothing on its way, and one that is not in the
\* room yet nothing to receive.
OutIsSilent ==
  \A p \in Participants : /\ stage[p] = "out" => outbox[p] = <<>>
                          /\ stage[p] # "in" => mail[p] = <<>>

-----------------------------------------------------------------------------
(* Sequences of messages.                                                  *)

LEMMA Appended ==
  ASSUME NEW S, NEW s \in Seq(S), NEW m \in S
  PROVE  /\ Append(s, m) \in Seq(S) /\ DOMAIN Append(s, m) = 1..(Len(s) + 1)
         /\ DOMAIN s = 1..Len(s) /\ Len(s) \in Nat
         /\ \A i \in 1..Len(s) : Append(s, m)[i] = s[i]
         /\ Append(s, m)[Len(s) + 1] = m
  OBVIOUS

LEMMA Shortened ==
  ASSUME NEW S, NEW s \in Seq(S), s # << >>
  PROVE  /\ Tail(s) \in Seq(S) /\ Len(s) \in Nat \ {0} /\ DOMAIN s = 1..Len(s)
         /\ DOMAIN Tail(s) = 1..(Len(s) - 1)
         /\ \A i \in 1..(Len(s) - 1) : Tail(s)[i] = s[i + 1]
         /\ Head(s) = s[1] /\ Head(s) \in S
  OBVIOUS

\* A broadcast of one or two messages appends them one after the other.
LEMMA Joined ==
  ASSUME NEW S, NEW s \in Seq(S), NEW m \in S, NEW n \in S
  PROVE  s \o <<m>> = Append(s, m) /\ s \o (<<m>> \o <<n>>) = Append(Append(s, m), n)
  OBVIOUS

\* A message that tells the value makes the page show it, whatever came before.
LEMMA TellingShows ==
  ASSUME NEW S, NEW s \in Seq(S), NEW m \in S, NEW f, NEW shown, Tells(m, f)
  PROVE  Shows(Append(s, m), shown, f, m[f])
<1>1. \A j \in DOMAIN Append(s, m) : ~(j > Len(s) + 1)
  BY Appended
<1>2. Len(s) + 1 \in DOMAIN Append(s, m) /\ Append(s, m)[Len(s) + 1] = m
  BY Appended
<1> QED BY <1>1, <1>2 DEF Shows

\* A message about something else changes nothing.
LEMMA OtherKeeps ==
  ASSUME NEW S, NEW s \in Seq(S), NEW m \in S, NEW f, NEW shown, NEW value,
         ~Tells(m, f), Shows(s, shown, f, value)
  PROVE  Shows(Append(s, m), shown, f, value)
<1> DEFINE t == Append(s, m)
<1>1. /\ DOMAIN t = 1..(Len(s) + 1) /\ DOMAIN s = 1..Len(s) /\ Len(s) \in Nat
      /\ \A i \in 1..Len(s) : t[i] = s[i]
      /\ t[Len(s) + 1] = m
  BY Appended
<1> HIDE DEF t
<1>2. \A i \in DOMAIN t : i \in DOMAIN s \/ ~Tells(t[i], f)
  BY <1>1
<1>3. CASE shown = value /\ \A i \in DOMAIN s : ~Tells(s[i], f)
  BY <1>1, <1>2, <1>3 DEF Shows, t
<1>4. CASE \E i \in DOMAIN s : /\ Tells(s[i], f) /\ s[i][f] = value
                               /\ \A j \in DOMAIN s : j > i => ~Tells(s[j], f)
  <2>1. PICK i \in DOMAIN s : /\ Tells(s[i], f) /\ s[i][f] = value
                              /\ \A j \in DOMAIN s : j > i => ~Tells(s[j], f)
    BY <1>4
  <2>2. i \in DOMAIN t /\ Tells(t[i], f) /\ t[i][f] = value
    BY <1>1, <2>1
  <2>3. \A j \in DOMAIN t : j > i => ~Tells(t[j], f)
    BY <1>1, <1>2, <2>1
  <2> QED BY <2>2, <2>3 DEF Shows, t
<1> QED BY <1>3, <1>4 DEF Shows

\* The page receives the first message: it shows what that tells, and goes on
\* with the rest of the queue.
LEMMA ReceivingKeeps ==
  ASSUME NEW S, NEW s \in Seq(S), s # << >>, NEW f, NEW shown, NEW new, NEW value,
         Shows(s, shown, f, value),
         IF Tells(Head(s), f) THEN new = Head(s)[f] ELSE new = shown
  PROVE  Shows(Tail(s), new, f, value)
<1> DEFINE t == Tail(s)
<1>1. /\ Len(s) \in Nat \ {0} /\ DOMAIN s = 1..Len(s) /\ DOMAIN t = 1..(Len(s) - 1)
      /\ \A i \in 1..(Len(s) - 1) : t[i] = s[i + 1]
      /\ Head(s) = s[1]
  BY Shortened
<1> HIDE DEF t
<1>2. \A i \in DOMAIN t : i + 1 \in DOMAIN s /\ t[i] = s[i + 1] /\ i \in Nat
  BY <1>1
<1>3. CASE shown = value /\ \A i \in DOMAIN s : ~Tells(s[i], f)
  <2>1. new = value
    BY <1>1, <1>3
  <2>2. \A i \in DOMAIN t : ~Tells(t[i], f)
    BY <1>2, <1>3
  <2> QED BY <2>1, <2>2 DEF Shows, t
<1>4. CASE \E i \in DOMAIN s : /\ Tells(s[i], f) /\ s[i][f] = value
                               /\ \A j \in DOMAIN s : j > i => ~Tells(s[j], f)
  <2>1. PICK i \in DOMAIN s : /\ Tells(s[i], f) /\ s[i][f] = value
                              /\ \A j \in DOMAIN s : j > i => ~Tells(s[j], f)
    BY <1>4
  <2>2. CASE i = 1
    <3>1. new = value
      BY <1>1, <2>1, <2>2
    <3>2. \A j \in DOMAIN t : ~Tells(t[j], f)
      BY <1>1, <1>2, <2>1, <2>2
    <3> QED BY <3>1, <3>2 DEF Shows, t
  <2>3. CASE i # 1
    <3>1. i - 1 \in DOMAIN t /\ t[i - 1] = s[i]
      BY <1>1, <2>3
    <3>2. \A j \in DOMAIN t : j > i - 1 => ~Tells(t[j], f)
      BY <1>1, <1>2, <2>1, <2>3
    <3> QED BY <2>1, <3>1, <3>2 DEF Shows, t
  <2> QED BY <2>2, <2>3
<1> QED BY <1>3, <1>4 DEF Shows

-----------------------------------------------------------------------------
(* Types.                                                                  *)

LEMMA PageMessages ==
  /\ \A m \in Moderations, v \in Ballots : [kind |-> "joined", moderation |-> m, votes |-> v] \in ToPage
  /\ \A m \in Moderations : [kind |-> "moderation", moderation |-> m] \in ToPage
  /\ \A v \in Ballots : [kind |-> "votes", votes |-> v] \in ToPage
  /\ \A v \in Viewports : [kind |-> "viewport", at |-> v] \in ToPage
  BY DEF ToPage

LEMMA ServerMessages ==
  /\ \A c \in Changes : [kind |-> "moderate", change |-> c] \in ToServer
  /\ \A e \in Votable : [kind |-> "vote", element |-> e] \in ToServer
  /\ \A v \in Viewports : [kind |-> "viewport", at |-> v] \in ToServer
  BY DEF ToServer

LEMMA PageMessageFields ==
  ASSUME NEW m \in ToPage
  PROVE  /\ m.kind \in {"joined", "moderation", "votes", "viewport"}
         /\ m.kind \in {"joined", "moderation"} => m.moderation \in Moderations
         /\ m.kind \in {"joined", "votes"} => m.votes \in Ballots
         /\ m.kind = "viewport" => m.at \in Viewports
  BY DEF ToPage

LEMMA ServerMessageFields ==
  ASSUME NEW m \in ToServer
  PROVE  /\ m.kind \in {"moderate", "vote", "viewport"}
         /\ m.kind = "moderate" => m.change \in Changes
         /\ m.kind = "vote" => m.element \in Votable
         /\ m.kind = "viewport" => m.at \in Viewports /\ m \in ToPage
  BY DEF ToServer, ToPage

LEMMA UpdateTypes ==
  ASSUME moderation \in Moderations, NEW c \in Changes
  PROVE  ApplyUpdate(c) \in Moderations
<1>1. CASE c.field = "vote limit"
  <2>1. c.to \in Limits
    BY <1>1 DEF Changes
  <2> QED BY <1>1, <2>1 DEF ApplyUpdate, Moderations
<1>2. CASE c.field \in {"stop voting", "reset"}
  BY <1>2 DEF ApplyUpdate, Moderations
<1>3. CASE c.field \in {"follow", "locked", "timer"}
  <2>1. c.to \in BOOLEAN
    BY <1>3 DEF Changes
  <2> QED BY <1>3, <2>1 DEF ApplyUpdate, Moderations
<1> QED BY <1>1, <1>2, <1>3 DEF Changes

LEMMA BroadcastTypes ==
  ASSUME FacilitationTypes, NEW ms \in Seq(ToPage), Broadcast(ms)
  PROVE  mail' \in [Participants -> Seq(ToPage)]
<1>1. \A p \in Participants : mail[p] \in Seq(ToPage) /\ mail[p] \o ms \in Seq(ToPage)
  BY DEF FacilitationTypes
<1> QED BY <1>1 DEF Broadcast

LEMMA EmitTypes ==
  ASSUME FacilitationTypes, NEW p \in Participants, NEW m \in ToServer, Emit(p, m)
  PROVE  outbox' \in [Participants -> Seq(ToServer)]
<1>1. Append(outbox[p], m) \in Seq(ToServer)
  BY DEF FacilitationTypes
<1> QED BY <1>1 DEF FacilitationTypes, Emit

LEMMA TypesInit == FacilitationInit => FacilitationTypes
<1> SUFFICES ASSUME FacilitationInit PROVE FacilitationTypes
  OBVIOUS
<1>1. DefaultModeration \in Moderations /\ {} \in Ballots
  BY FacilitationAssumption DEF DefaultModeration, Moderations, Ballots
<1>2. place \in [Participants -> Viewports]
  BY DEF FacilitationInit
<1>3. mail \in [Participants -> Seq(ToPage)] /\ outbox \in [Participants -> Seq(ToServer)]
  BY DEF FacilitationInit
<1> QED BY <1>1, <1>2, <1>3 DEF FacilitationInit, FacilitationTypes

\* The connections of the pages.
LEMMA TypesConnections ==
  ASSUME FacilitationTypes, NEW p \in Participants,
         StartJoin(p) \/ JoinAnswered(p) \/ LoseConnection(p) \/ LoadAgain(p) \/ ForgetSession
  PROVE  FacilitationTypes'
<1> DefaultModeration \in Moderations /\ {} \in Ballots
  BY FacilitationAssumption DEF DefaultModeration, Moderations, Ballots
<1>1. CASE StartJoin(p)
  BY <1>1 DEF FacilitationTypes, StartJoin, shownVars, mailVars
<1>2. CASE JoinAnswered(p)
  <2> DEFINE m == [kind |-> "joined", moderation |-> moderation, votes |-> votes]
  <2>1. m \in ToPage
    BY PageMessages DEF FacilitationTypes
  <2>2. mail[p] \in Seq(ToPage)
    BY DEF FacilitationTypes
  <2>3. Append(mail[p], m) \in Seq(ToPage)
    BY <2>1, <2>2
  <2>4. mail' = [mail EXCEPT ![p] = Append(mail[p], m)]
    BY <1>2 DEF JoinAnswered
  <2>5. mail' \in [Participants -> Seq(ToPage)]
    BY <2>3, <2>4 DEF FacilitationTypes
  <2> HIDE DEF m
  <2> QED BY <1>2, <2>5 DEF FacilitationTypes, JoinAnswered, shownVars
<1>3. CASE LoseConnection(p)
  BY <1>3 DEF FacilitationTypes, LoseConnection, Owing, shownVars
<1>4. CASE LoadAgain(p)
  <2>1. place' \in [Participants -> Viewports]
    BY <1>4 DEF FacilitationTypes, LoadAgain
  <2>2. shownState' \in [Participants -> [moderation: Moderations, votes: Ballots]]
    BY <1>4 DEF FacilitationTypes, LoadAgain
  <2> QED BY <1>4, <2>1, <2>2 DEF FacilitationTypes, LoadAgain, Owing
<1>5. CASE ForgetSession
  BY <1>5 DEF FacilitationTypes, ForgetSession, shownVars
<1> QED BY <1>1, <1>2, <1>3, <1>4, <1>5

\* What the server does with a message.
LEMMA TypesModeration ==
  ASSUME FacilitationTypes, NEW c \in Changes, NEW m, m.change = c, ModerationUpdate(m)
  PROVE  /\ moderation' \in Moderations /\ votes' \in Ballots /\ owed' \subseteq Participants
         /\ mail' \in [Participants -> Seq(ToPage)]
<1> DEFINE new == ApplyUpdate(c)
           said == <<[kind |-> "moderation", moderation |-> new]>>
           none == <<[kind |-> "votes", votes |-> {}]>>
<1>1. new \in Moderations /\ {} \in Ballots
  BY UpdateTypes DEF FacilitationTypes, Ballots
<1>2. said \in Seq(ToPage) /\ none \in Seq(ToPage)
  <2>1. said[1] \in ToPage /\ none[1] \in ToPage
    BY <1>1, PageMessages
  <2> QED BY <2>1
<1>3. said \o none \in Seq(ToPage)
  BY <1>2
<1> HIDE DEF new
<1>4. /\ moderation' = new /\ owed' = owed /\ votes' \in {votes, {}}
      /\ Broadcast(said) \/ Broadcast(said \o none)
  BY DEF ModerationUpdate, new
<1> HIDE DEF said, none
<1> QED BY <1>1, <1>2, <1>3, <1>4, BroadcastTypes DEF FacilitationTypes

LEMMA ToggledTypes ==
  ASSUME FacilitationTypes, NEW p \in Participants, NEW e \in Votable
  PROVE  Toggled(ActorOf[p], e) \in Ballots
<1>1. ActorOf[p] \in Actors
  BY DEF Actors
<1> QED BY <1>1 DEF Toggled, FacilitationTypes, Ballots

LEMMA TypesVote ==
  ASSUME FacilitationTypes, NEW p \in Participants, NEW m \in ToServer, m.kind = "vote", VoteToggle(p, m)
  PROVE  /\ moderation' \in Moderations /\ votes' \in Ballots /\ owed' \subseteq Participants
         /\ mail' \in [Participants -> Seq(ToPage)]
<1> DEFINE new == Toggled(ActorOf[p], m.element)
           said == <<[kind |-> "votes", votes |-> new]>>
<1>1. new \in Ballots
  BY ServerMessageFields, ToggledTypes
<1>2. said \in Seq(ToPage)
  <2>1. said[1] \in ToPage
    BY <1>1, PageMessages
  <2> QED BY <2>1
<1> HIDE DEF new
<1>3. votes' = new /\ moderation' = moderation /\ owed' = owed /\ (mail' = mail \/ Broadcast(said))
  BY DEF VoteToggle, new
<1> HIDE DEF said
<1> QED BY <1>1, <1>2, <1>3, BroadcastTypes DEF FacilitationTypes

LEMMA TypesViewport ==
  ASSUME FacilitationTypes, NEW p \in Participants, NEW m \in ToServer, m.kind = "viewport",
         ViewportUpdate(p, m)
  PROVE  /\ moderation' \in Moderations /\ votes' \in Ballots /\ owed' \subseteq Participants
         /\ mail' \in [Participants -> Seq(ToPage)]
<1>1. \A q \in Participants : mail[q] \in Seq(ToPage) /\ Append(mail[q], m) \in Seq(ToPage)
  BY ServerMessageFields DEF FacilitationTypes
<1> QED BY <1>1 DEF ViewportUpdate, FacilitationTypes

LEMMA TypesServe ==
  ASSUME FacilitationTypes, OutIsSilent, NEW p \in Participants, Serve(p)
  PROVE  FacilitationTypes'
<1> DEFINE m == Head(outbox[p])
<1>1. m \in ToServer /\ Tail(outbox[p]) \in Seq(ToServer)
  BY Shortened DEF FacilitationTypes, Serve
<1>2. outbox' \in [Participants -> Seq(ToServer)]
  BY <1>1 DEF FacilitationTypes, Serve
<1>3. /\ moderation' \in Moderations /\ votes' \in Ballots /\ owed' \subseteq Participants
      /\ mail' \in [Participants -> Seq(ToPage)]
  <2>1. CASE UNCHANGED <<moderation, votes, mail, owed>>
    BY <2>1 DEF FacilitationTypes
  <2>2. CASE m.kind = "moderate" /\ ModerationUpdate(m)
    BY <1>1, <2>2, ServerMessageFields, TypesModeration
  <2>3. CASE m.kind = "vote" /\ VoteToggle(p, m)
    BY <1>1, <2>3, TypesVote
  <2>4. CASE m.kind = "viewport" /\ ViewportUpdate(p, m)
    BY <1>1, <2>4, TypesViewport
  <2>5. stage[p] \in {"joining", "in"}
    BY DEF FacilitationTypes, OutIsSilent, Serve
  <2> QED BY <1>1, <2>1, <2>2, <2>3, <2>4, <2>5, ServerMessageFields DEF Serve
<1> QED BY <1>2, <1>3 DEF FacilitationTypes, Serve, shownVars

\* What a page does.
LEMMA TypesPage ==
  ASSUME FacilitationTypes, NEW p \in Participants,
         \/ ToggleFollow(p) \/ Flush
         \/ \E e \in Votable : Vote(p, e)
         \/ \E c \in Changes : Moderate(c)
         \/ \E v \in Viewports : Scroll(v)
  PROVE  FacilitationTypes'
<1> Moderator \in Participants
  BY FacilitationAssumption
<1>1. CASE ToggleFollow(p)
  BY <1>1 DEF FacilitationTypes, ToggleFollow, roomVars, mailVars
<1>2. CASE \E e \in Votable : Vote(p, e)
  <2>1. outbox' \in [Participants -> Seq(ToServer)]
    BY <1>2, ServerMessages, EmitTypes DEF Vote
  <2> QED BY <1>2, <2>1 DEF FacilitationTypes, Vote, roomVars, shownVars
<1>3. CASE \E c \in Changes : Moderate(c)
  <2>1. outbox' \in [Participants -> Seq(ToServer)]
    BY <1>3, ServerMessages, EmitTypes DEF Moderate
  <2> QED BY <1>3, <2>1 DEF FacilitationTypes, Moderate, roomVars, shownVars
<1>4. CASE \E v \in Viewports : Scroll(v)
  BY <1>4 DEF FacilitationTypes, Scroll, roomVars, mailVars
<1>5. CASE Flush
  <2>1. outbox' \in [Participants -> Seq(ToServer)]
    BY <1>5, ServerMessages, EmitTypes DEF Flush, FacilitationTypes
  <2> QED BY <1>5, <2>1 DEF FacilitationTypes, Flush, roomVars
<1> QED BY <1>1, <1>2, <1>3, <1>4, <1>5

LEMMA TypesShow ==
  ASSUME FacilitationTypes, NEW p \in Participants, NEW new \in Moderations, ShowModeration(p, new)
  PROVE  /\ stopped' \in [Participants -> BOOLEAN] /\ place' \in [Participants -> Viewports]
         /\ outbox' \in [Participants -> Seq(ToServer)]
<1>1. new.follow \in BOOLEAN
  BY DEF Moderations
<1>2. stopped' \in [Participants -> BOOLEAN]
  BY <1>1 DEF ShowModeration, FacilitationTypes
<1>3. place' \in [Participants -> Viewports]
  BY DEF ShowModeration, FacilitationTypes
<1>4. outbox' = outbox \/ Emit(p, [kind |-> "viewport", at |-> place[p]])
  BY DEF ShowModeration
<1>5. outbox' \in [Participants -> Seq(ToServer)]
  BY <1>4, ServerMessages, EmitTypes DEF FacilitationTypes
<1> QED BY <1>2, <1>3, <1>5

\* What a page shows after the message it receives.
LEMMA ReceiveShows ==
  ASSUME FacilitationTypes, NEW p \in Participants, Receive(p)
  PROVE  LET m == Head(mail[p])
         IN  /\ m \in ToPage
             /\ shownState' = [shownState EXCEPT ![p] = shownState'[p]]
             /\ shownState'[p] \in [moderation: Moderations, votes: Ballots]
             /\ shownState'[p].moderation = IF Tells(m, "moderation") THEN m.moderation
                                             ELSE shownState[p].moderation
             /\ shownState'[p].votes = IF Tells(m, "votes") THEN m.votes ELSE shownState[p].votes
<1> DEFINE m == Head(mail[p])
<1>1. m \in ToPage
  BY Shortened DEF FacilitationTypes, Receive
<1>2. shownState[p] \in [moderation: Moderations, votes: Ballots]
  BY DEF FacilitationTypes
<1> HIDE DEF m
<1>3. CASE m.kind = "joined"
  <2>1. m.moderation \in Moderations /\ m.votes \in Ballots
    BY <1>1, <1>3, PageMessageFields
  <2>2. shownState' = [shownState EXCEPT ![p] = [moderation |-> m.moderation, votes |-> m.votes]]
    BY <1>3 DEF Receive, m
  <2> QED BY <1>1, <1>3, <2>1, <2>2 DEF Tells, FacilitationTypes, m
<1>4. CASE m.kind = "moderation"
  <2>1. m.moderation \in Moderations
    BY <1>1, <1>4, PageMessageFields
  <2>2. shownState' = [shownState EXCEPT ![p].moderation = m.moderation]
    BY <1>4 DEF Receive, m
  <2> QED BY <1>1, <1>2, <1>4, <2>1, <2>2 DEF Tells, FacilitationTypes, m
<1>5. CASE m.kind = "votes"
  <2>1. m.votes \in Ballots
    BY <1>1, <1>5, PageMessageFields
  <2>2. shownState' = [shownState EXCEPT ![p].votes = m.votes]
    BY <1>5 DEF Receive, m
  <2> QED BY <1>1, <1>2, <1>5, <2>1, <2>2 DEF Tells, FacilitationTypes, m
<1>6. CASE m.kind = "viewport"
  <2>1. shownState' = shownState
    BY <1>6 DEF Receive, ShowViewport, m
  <2> QED BY <1>1, <1>2, <1>6, <2>1 DEF Tells, FacilitationTypes, m
<1> QED BY <1>1, <1>3, <1>4, <1>5, <1>6, PageMessageFields

LEMMA TypesReceive ==
  ASSUME FacilitationTypes, NEW p \in Participants, Receive(p)
  PROVE  FacilitationTypes'
<1> DEFINE m == Head(mail[p])
<1>1. m \in ToPage /\ Tail(mail[p]) \in Seq(ToPage)
  BY Shortened DEF FacilitationTypes, Receive
<1>2. mail' \in [Participants -> Seq(ToPage)]
  BY <1>1 DEF FacilitationTypes, Receive
<1>3. shownState' \in [Participants -> [moderation: Moderations, votes: Ballots]]
  BY ReceiveShows DEF FacilitationTypes
<1>4. /\ stopped' \in [Participants -> BOOLEAN] /\ place' \in [Participants -> Viewports]
      /\ outbox' \in [Participants -> Seq(ToServer)] /\ seen' \in [Participants -> Viewports \cup {NoViewport}]
  <2>1. CASE m.kind \in {"joined", "moderation"}
    <3>1. m.moderation \in Moderations /\ ShowModeration(p, m.moderation) /\ seen' = seen
      BY <1>1, <2>1, PageMessageFields DEF Receive
    <3> QED BY <3>1, TypesShow DEF FacilitationTypes
  <2>2. CASE m.kind = "votes"
    BY <2>2 DEF Receive, FacilitationTypes
  <2>3. CASE m.kind = "viewport"
    <3>1. m.at \in Viewports /\ ShowViewport(p, m.at)
      BY <1>1, <2>3, PageMessageFields DEF Receive
    <3> QED BY <3>1 DEF ShowViewport, FacilitationTypes
  <2> QED BY <1>1, <2>1, <2>2, <2>3, PageMessageFields
<1> QED BY <1>2, <1>3, <1>4 DEF FacilitationTypes, Receive, roomVars

\* Every step, taken as one of some page, of the host for those that are only the host's.
Connects(p) == StartJoin(p) \/ JoinAnswered(p) \/ LoseConnection(p) \/ LoadAgain(p) \/ ForgetSession
Acts(p) == \/ ToggleFollow(p) \/ Flush
           \/ \E e \in Votable : Vote(p, e)
           \/ \E c \in Changes : Moderate(c)
           \/ \E v \in Viewports : Scroll(v)

LEMMA StepOfAPage ==
  FacilitationNext => \E p \in Participants : Connects(p) \/ Serve(p) \/ Receive(p) \/ Acts(p)
<1> SUFFICES ASSUME FacilitationNext
             PROVE  \E p \in Participants : Connects(p) \/ Serve(p) \/ Receive(p) \/ Acts(p)
  OBVIOUS
<1>1. Moderator \in Participants
  BY FacilitationAssumption
<1>2. CASE Flush \/ ForgetSession
  BY <1>1, <1>2 DEF Connects, Acts
<1>3. CASE \E c \in Changes : Moderate(c)
  BY <1>1, <1>3 DEF Acts
<1>4. CASE \E v \in Viewports : Scroll(v)
  BY <1>1, <1>4 DEF Acts
<1>5. ASSUME NEW p \in Participants,
             \/ StartJoin(p) \/ JoinAnswered(p) \/ LoseConnection(p) \/ LoadAgain(p)
             \/ Serve(p) \/ Receive(p) \/ ToggleFollow(p) \/ \E e \in Votable : Vote(p, e)
      PROVE  \E q \in Participants : Connects(q) \/ Serve(q) \/ Receive(q) \/ Acts(q)
  BY <1>5 DEF Connects, Acts
<1> QED BY <1>2, <1>3, <1>4, <1>5 DEF FacilitationNext

\* Of the steps, only those of a page in the room, or on its way there, send or
\* receive anything.
LEMMA SilentStep ==
  ASSUME FacilitationTypes, OutIsSilent, FacilitationNext
  PROVE  OutIsSilent'
<1> USE FacilitationAssumption DEF FacilitationTypes, OutIsSilent
<1>1. ASSUME NEW p \in Participants, Connects(p) PROVE OutIsSilent'
  BY <1>1 DEF Connects, StartJoin, JoinAnswered, LoseConnection, LoadAgain, ForgetSession, mailVars, shownVars
<1>2. ASSUME NEW p \in Participants, Serve(p) PROVE OutIsSilent'
  <2>1. stage' = stage /\ \A q \in Participants : stage[q] = "out" => outbox'[q] = <<>>
    BY <1>2 DEF Serve
  <2>2. \A q \in Participants : stage[q] # "in" => mail'[q] = <<>>
    <3>1. stage[p] \in {"joining", "in"} /\ Head(outbox[p]) \in ToServer
      BY <1>2, Shortened DEF Serve
    <3>2. CASE mail' = mail
      BY <3>2
    <3>3. CASE \E ms : Broadcast(ms)
      BY <3>3 DEF Broadcast, InRoom
    <3>4. CASE ViewportUpdate(p, Head(outbox[p]))
      BY <3>4 DEF ViewportUpdate, InRoom
    <3> QED BY <1>2, <3>1, <3>2, <3>3, <3>4, ServerMessageFields DEF Serve, ModerationUpdate, VoteToggle
  <2> QED BY <2>1, <2>2
<1>3. ASSUME NEW p \in Participants, Receive(p) PROVE OutIsSilent'
  <2>1. stage[p] = "in" /\ stage' = stage
    BY <1>3 DEF Receive, roomVars
  <2>2. \A q \in Participants \ {p} : mail'[q] = mail[q] /\ outbox'[q] = outbox[q]
    <3>1. Head(mail[p]).kind \in {"joined", "moderation", "votes", "viewport"}
      BY <1>3, Shortened, PageMessageFields DEF Receive
    <3> QED BY <1>3, <3>1 DEF Receive, ShowModeration, ShowViewport, Emit
  <2> QED BY <2>1, <2>2
<1>4. ASSUME NEW p \in Participants, Acts(p) PROVE OutIsSilent'
  <2>1. stage' = stage /\ mail' = mail
    BY <1>4 DEF Acts, ToggleFollow, Flush, Vote, Moderate, Scroll, roomVars, mailVars
  <2>2. \/ outbox' = outbox
        \/ \E q \in Participants : \E m : stage[q] # "out" /\ Emit(q, m)
    <3>1. CASE ToggleFollow(p) \/ \E v \in Viewports : Scroll(v)
      BY <3>1 DEF ToggleFollow, Scroll, mailVars
    <3>2. CASE Flush \/ \E e \in Votable : Vote(p, e)
      BY <3>2 DEF Flush, Vote
    <3>3. CASE \E c \in Changes : Moderate(c)
      BY <3>3 DEF Moderate
    <3> QED BY <1>4, <3>1, <3>2, <3>3 DEF Acts
  <2>3. \A q \in Participants : stage[q] = "out" => outbox'[q] = outbox[q]
    BY <2>2 DEF Emit
  <2> QED BY <2>1, <2>3
<1> HIDE DEF FacilitationTypes, OutIsSilent
<1> QED BY <1>1, <1>2, <1>3, <1>4, StepOfAPage

-----------------------------------------------------------------------------
(* What the pages will show.                                               *)

Told(p) == /\ Shows(mail[p], shownState[p].moderation, "moderation", moderation)
           /\ Shows(mail[p], shownState[p].votes, "votes", votes)

LEMMA RoomShowsAsTold == RoomShowsFacilitation <=> \A p \in InRoom : Told(p)
  BY WillShowIsShows DEF RoomShowsFacilitation, Told

LEMMA RoomWillShowAsTold == (\A p \in InRoom' : Told(p)') => RoomShowsFacilitation'
<1> SUFFICES ASSUME \A p \in InRoom' : Told(p)', NEW p \in InRoom'
             PROVE  WillShow(p, "moderation", moderation)' /\ WillShow(p, "votes", votes)'
  BY DEF RoomShowsFacilitation
<1>1. Told(p)'
  OBVIOUS
<1> QED BY <1>1 DEF Told, Shows, Tells, WillShow

\* A step that keeps the state of the room, and the mail and the screen of those who stay.
LEMMA ToldAsBefore ==
  ASSUME RoomShowsFacilitation, InRoom' \subseteq InRoom, UNCHANGED <<moderation, votes>>,
         \A q \in InRoom' : mail'[q] = mail[q] /\ shownState'[q] = shownState[q]
  PROVE  RoomShowsFacilitation'
<1>1. \A q \in InRoom' : Told(q)
  BY RoomShowsAsTold
<1>2. \A q \in InRoom' : Told(q)'
  BY <1>1 DEF Told
<1> QED BY <1>2, RoomWillShowAsTold

\* Whoever enters the room is told everything by the answer.
LEMMA ToldByJoin ==
  ASSUME FacilitationTypes, RoomShowsFacilitation, NEW p \in Participants, JoinAnswered(p)
  PROVE  RoomShowsFacilitation'
<1> DEFINE m == [kind |-> "joined", moderation |-> moderation, votes |-> votes]
<1>1. m \in ToPage /\ mail[p] \in Seq(ToPage)
  BY PageMessages DEF FacilitationTypes
<1>2. m.moderation = moderation /\ m.votes = votes /\ Tells(m, "moderation") /\ Tells(m, "votes")
  BY DEF Tells
<1>3. /\ mail' = [mail EXCEPT ![p] = Append(mail[p], m)]
      /\ UNCHANGED <<moderation, votes, shownState>> /\ InRoom' = InRoom \cup {p}
  BY DEF JoinAnswered, shownVars, FacilitationTypes, InRoom
<1> HIDE DEF m
<1>4. Told(p)'
  <2>1. mail'[p] = Append(mail[p], m)
    BY <1>3 DEF FacilitationTypes
  <2>2. Shows(mail'[p], shownState[p].moderation, "moderation", m["moderation"])
    BY <1>1, <1>2, <2>1, TellingShows
  <2>3. Shows(mail'[p], shownState[p].votes, "votes", m["votes"])
    BY <1>1, <1>2, <2>1, TellingShows
  <2> QED BY <1>2, <1>3, <2>2, <2>3 DEF Told
<1>5. ASSUME NEW q \in InRoom, q # p PROVE Told(q)'
  <2>1. mail'[q] = mail[q] /\ Told(q)
    BY <1>3, <1>5, RoomShowsAsTold DEF InRoom, FacilitationTypes
  <2> QED BY <1>3, <2>1 DEF Told
<1> QED BY <1>3, <1>4, <1>5, RoomWillShowAsTold

LEMMA ToldByLeaving ==
  ASSUME FacilitationTypes, RoomShowsFacilitation, NEW p \in Participants,
         Connects(p), ~JoinAnswered(p)
  PROVE  RoomShowsFacilitation'
<1>1. CASE ForgetSession
  <2>1. InRoom' = {}
    BY <1>1 DEF ForgetSession, InRoom
  <2> QED BY <2>1, RoomWillShowAsTold
<1>2. CASE StartJoin(p) \/ LoseConnection(p) \/ LoadAgain(p)
  <2>1. UNCHANGED <<moderation, votes>>
    BY <1>2 DEF StartJoin, LoseConnection, LoadAgain
  <2>2. InRoom' \subseteq InRoom \ {p}
    BY <1>2 DEF StartJoin, LoseConnection, LoadAgain, InRoom, FacilitationTypes
  <2>3. \A q \in InRoom \ {p} : mail'[q] = mail[q] /\ shownState'[q] = shownState[q]
    BY <1>2 DEF StartJoin, LoseConnection, LoadAgain, InRoom, FacilitationTypes, mailVars, shownVars
  <2> QED BY <2>1, <2>2, <2>3, ToldAsBefore
<1> QED BY <1>1, <1>2 DEF Connects

-----------------------------------------------------------------------------
(* What the server does with a message.                                    *)

\* The moderation is broadcast to everybody in the room, after a reset the votes too.
LEMMA ToldByModeration ==
  ASSUME FacilitationTypes, RoomShowsFacilitation, NEW c \in Changes, NEW m, m.change = c,
         ModerationUpdate(m), UNCHANGED <<stage, shownState>>
  PROVE  RoomShowsFacilitation'
<1> DEFINE new == ApplyUpdate(c)
           said == [kind |-> "moderation", moderation |-> new]
           none == [kind |-> "votes", votes |-> {}]
<1>1. said \in ToPage /\ none \in ToPage
  BY UpdateTypes, PageMessages DEF FacilitationTypes, Ballots
<1>2. /\ said.moderation = new /\ Tells(said, "moderation") /\ ~Tells(said, "votes")
      /\ none.votes = {} /\ Tells(none, "votes") /\ ~Tells(none, "moderation")
  BY DEF Tells
<1>3. /\ moderation' = new
      /\ \/ votes' = {} /\ Broadcast(<<said>> \o <<none>>)
         \/ votes' = votes /\ Broadcast(<<said>>)
  BY DEF ModerationUpdate
<1> HIDE DEF new, said, none
<1> SUFFICES ASSUME NEW q \in InRoom PROVE Told(q)'
  BY RoomWillShowAsTold DEF InRoom
<1>4. q \in Participants /\ mail[q] \in Seq(ToPage) /\ Told(q) /\ shownState'[q] = shownState[q]
  BY RoomShowsAsTold DEF InRoom, FacilitationTypes
<1> DEFINE t == Append(mail[q], said)
<1>5. t \in Seq(ToPage)
  BY <1>1, <1>4, Appended
<1>6. Shows(t, shownState[q].moderation, "moderation", said["moderation"])
  BY <1>1, <1>2, <1>4, TellingShows
<1>7. CASE votes' = {} /\ Broadcast(<<said>> \o <<none>>)
  <2>1. mail'[q] = Append(t, none)
    BY <1>1, <1>4, <1>7, Joined DEF Broadcast
  <2> HIDE DEF t
  <2>2. Shows(mail'[q], shownState[q].moderation, "moderation", said["moderation"])
    BY <1>1, <1>2, <1>5, <1>6, <2>1, OtherKeeps
  <2>3. Shows(mail'[q], shownState[q].votes, "votes", none["votes"])
    BY <1>1, <1>2, <1>5, <2>1, TellingShows
  <2> QED BY <1>2, <1>3, <1>4, <1>7, <2>2, <2>3 DEF Told
<1>8. CASE votes' = votes /\ Broadcast(<<said>>)
  <2>1. mail'[q] = t
    BY <1>1, <1>4, <1>8, Joined DEF Broadcast
  <2>2. Shows(t, shownState[q].votes, "votes", votes)
    BY <1>1, <1>2, <1>4, OtherKeeps DEF Told
  <2> HIDE DEF t
  <2> QED BY <1>2, <1>3, <1>4, <1>6, <1>8, <2>1, <2>2 DEF Told
<1> QED BY <1>3, <1>7, <1>8

LEMMA ToldByVote ==
  ASSUME FacilitationTypes, RoomShowsFacilitation, NEW p \in Participants, NEW m \in ToServer,
         m.kind = "vote", VoteToggle(p, m), UNCHANGED <<stage, shownState>>
  PROVE  RoomShowsFacilitation'
<1> DEFINE new == Toggled(ActorOf[p], m.element)
           said == [kind |-> "votes", votes |-> new]
<1>1. said \in ToPage
  BY ServerMessageFields, ToggledTypes, PageMessages
<1>2. said.votes = new /\ Tells(said, "votes") /\ ~Tells(said, "moderation")
  BY DEF Tells
<1>3. moderation' = moderation /\ votes' = new /\ ((new = votes /\ mail' = mail) \/ Broadcast(<<said>>))
  BY DEF VoteToggle
<1> HIDE DEF new, said
<1> SUFFICES ASSUME NEW q \in InRoom PROVE Told(q)'
  BY RoomWillShowAsTold DEF InRoom
<1>4. q \in Participants /\ mail[q] \in Seq(ToPage) /\ Told(q) /\ shownState'[q] = shownState[q]
  BY RoomShowsAsTold DEF InRoom, FacilitationTypes
<1>5. CASE new = votes /\ mail' = mail
  BY <1>3, <1>4, <1>5 DEF Told
<1>6. CASE Broadcast(<<said>>)
  <2>1. mail'[q] = Append(mail[q], said)
    BY <1>1, <1>4, <1>6, Joined DEF Broadcast
  <2>2. Shows(mail'[q], shownState[q].votes, "votes", said["votes"])
    BY <1>1, <1>2, <1>4, <2>1, TellingShows
  <2>3. Shows(mail'[q], shownState[q].moderation, "moderation", moderation)
    BY <1>1, <1>2, <1>4, <2>1, OtherKeeps DEF Told
  <2> QED BY <1>2, <1>3, <1>4, <2>2, <2>3 DEF Told
<1> QED BY <1>3, <1>5, <1>6

LEMMA ToldByViewport ==
  ASSUME FacilitationTypes, RoomShowsFacilitation, NEW p \in Participants, NEW m \in ToServer,
         m.kind = "viewport", ViewportUpdate(p, m), UNCHANGED <<stage, shownState>>
  PROVE  RoomShowsFacilitation'
<1>1. m \in ToPage /\ ~Tells(m, "votes") /\ ~Tells(m, "moderation")
  BY ServerMessageFields DEF Tells
<1>2. UNCHANGED <<moderation, votes>>
  BY DEF ViewportUpdate
<1> SUFFICES ASSUME NEW q \in InRoom PROVE Told(q)'
  BY RoomWillShowAsTold DEF InRoom
<1>3. q \in Participants /\ mail[q] \in Seq(ToPage) /\ Told(q) /\ shownState'[q] = shownState[q]
  BY RoomShowsAsTold DEF InRoom, FacilitationTypes
<1>4. mail'[q] = mail[q] \/ mail'[q] = Append(mail[q], m)
  BY <1>3 DEF ViewportUpdate
<1>5. CASE mail'[q] = mail[q]
  BY <1>2, <1>3, <1>5 DEF Told
<1>6. CASE mail'[q] = Append(mail[q], m)
  <2>1. Shows(mail'[q], shownState[q].votes, "votes", votes)
    BY <1>1, <1>3, <1>6, OtherKeeps DEF Told
  <2>2. Shows(mail'[q], shownState[q].moderation, "moderation", moderation)
    BY <1>1, <1>3, <1>6, OtherKeeps DEF Told
  <2> QED BY <1>2, <1>3, <2>1, <2>2 DEF Told
<1> QED BY <1>4, <1>5, <1>6

LEMMA ToldByServe ==
  ASSUME FacilitationTypes, OutIsSilent, RoomShowsFacilitation, NEW p \in Participants, Serve(p)
  PROVE  RoomShowsFacilitation'
<1> DEFINE m == Head(outbox[p])
<1>1. m \in ToServer
  BY Shortened DEF FacilitationTypes, Serve
<1>2. UNCHANGED <<stage, shownState>>
  BY DEF Serve, shownVars
<1>3. stage[p] \in {"joining", "in"}
  BY DEF FacilitationTypes, OutIsSilent, Serve
<1>4. CASE UNCHANGED <<moderation, votes, mail>>
  BY <1>2, <1>4, ToldAsBefore DEF InRoom
<1>5. CASE m.kind = "moderate" /\ ModerationUpdate(m)
  BY <1>1, <1>2, <1>5, ServerMessageFields, ToldByModeration
<1>6. CASE m.kind = "vote" /\ VoteToggle(p, m)
  BY <1>1, <1>2, <1>6, ToldByVote
<1>7. CASE m.kind = "viewport" /\ ViewportUpdate(p, m)
  BY <1>1, <1>2, <1>7, ToldByViewport
<1> QED BY <1>1, <1>3, <1>4, <1>5, <1>6, <1>7, ServerMessageFields DEF Serve

-----------------------------------------------------------------------------
(* The pages.                                                              *)

\* What a page has received it shows; the rest of its mail is still to come.
LEMMA ToldByReceive ==
  ASSUME FacilitationTypes, RoomShowsFacilitation, NEW p \in Participants, Receive(p)
  PROVE  RoomShowsFacilitation'
<1> DEFINE m == Head(mail[p])
<1>1. /\ mail[p] \in Seq(ToPage) /\ mail[p] # << >> /\ m \in ToPage
      /\ mail' = [mail EXCEPT ![p] = Tail(mail[p])]
  BY Shortened DEF FacilitationTypes, Receive
<1>2. UNCHANGED <<moderation, votes, stage>>
  BY DEF Receive, roomVars
<1>3. /\ shownState' = [shownState EXCEPT ![p] = shownState'[p]]
      /\ shownState'[p].moderation = IF Tells(m, "moderation") THEN m.moderation
                                      ELSE shownState[p].moderation
      /\ shownState'[p].votes = IF Tells(m, "votes") THEN m.votes ELSE shownState[p].votes
  BY ReceiveShows
<1> SUFFICES ASSUME NEW q \in InRoom PROVE Told(q)'
  BY <1>2, RoomWillShowAsTold DEF InRoom
<1>4. q \in Participants /\ Told(q)
  BY RoomShowsAsTold DEF InRoom
<1>5. CASE q # p
  <2>1. mail'[q] = mail[q] /\ shownState'[q] = shownState[q]
    BY <1>1, <1>3, <1>4, <1>5 DEF FacilitationTypes
  <2> QED BY <1>2, <1>4, <2>1 DEF Told
<1>6. CASE q = p
  <2>1. mail'[p] = Tail(mail[p])
    BY <1>1 DEF FacilitationTypes
  <2>2. Shows(Tail(mail[p]), shownState'[p].moderation, "moderation", moderation)
    BY <1>1, <1>3, <1>4, <1>6, ReceivingKeeps DEF Told
  <2>3. Shows(Tail(mail[p]), shownState'[p].votes, "votes", votes)
    BY <1>1, <1>3, <1>4, <1>6, ReceivingKeeps DEF Told
  <2> QED BY <1>2, <1>6, <2>1, <2>2, <2>3 DEF Told
<1> QED BY <1>5, <1>6

LEMMA ToldByPage ==
  ASSUME RoomShowsFacilitation, NEW p \in Participants, Acts(p)
  PROVE  RoomShowsFacilitation'
<1>1. UNCHANGED <<moderation, votes, stage, mail, shownState>>
  BY DEF Acts, ToggleFollow, Flush, Vote, Moderate, Scroll, roomVars, mailVars, shownVars
<1> QED BY <1>1, ToldAsBefore DEF InRoom

-----------------------------------------------------------------------------
(* The theorems.                                                           *)

IInv == FacilitationTypes /\ OutIsSilent /\ RoomShowsFacilitation

LEMMA IInvInit == FacilitationInit => IInv
<1> SUFFICES ASSUME FacilitationInit PROVE IInv
  OBVIOUS
<1>1. FacilitationTypes
  BY TypesInit
<1>2. OutIsSilent
  BY DEF FacilitationInit, OutIsSilent
<1>3. InRoom = {}
  BY DEF FacilitationInit, InRoom
<1> QED BY <1>1, <1>2, <1>3 DEF IInv, RoomShowsFacilitation

LEMMA IInvStep == IInv /\ [FacilitationNext]_facilitationVars => IInv'
<1> SUFFICES ASSUME IInv, [FacilitationNext]_facilitationVars PROVE IInv'
  OBVIOUS
<1> USE DEF IInv
<1>1. CASE UNCHANGED facilitationVars
  <2>1. FacilitationTypes' /\ OutIsSilent'
    BY <1>1 DEF facilitationVars, roomVars, shownVars, mailVars, FacilitationTypes, OutIsSilent
  <2>2. UNCHANGED <<moderation, votes, stage, mail, shownState>>
    BY <1>1 DEF facilitationVars, roomVars, shownVars, mailVars
  <2> QED BY <2>1, <2>2, ToldAsBefore DEF InRoom
<1>2. CASE FacilitationNext
  <2>1. OutIsSilent'
    BY <1>2, SilentStep
  <2>2. ASSUME NEW p \in Participants, Connects(p) PROVE IInv'
    <3>1. FacilitationTypes'
      BY <2>2, TypesConnections DEF Connects
    <3> QED BY <2>1, <2>2, <3>1, ToldByJoin, ToldByLeaving
  <2>3. ASSUME NEW p \in Participants, Serve(p) PROVE IInv'
    BY <2>1, <2>3, TypesServe, ToldByServe
  <2>4. ASSUME NEW p \in Participants, Receive(p) PROVE IInv'
    BY <2>1, <2>4, TypesReceive, ToldByReceive
  <2>5. ASSUME NEW p \in Participants, Acts(p) PROVE IInv'
    <3>1. FacilitationTypes'
      BY <2>5, TypesPage DEF Acts
    <3> QED BY <2>1, <2>5, <3>1, ToldByPage
  <2> HIDE DEF IInv
  <2> QED BY <1>2, <2>2, <2>3, <2>4, <2>5, StepOfAPage
<1> QED BY <1>1, <1>2

LEMMA IInvHolds == FacilitationSpec => []IInv
  BY IInvInit, IInvStep, PTL DEF FacilitationSpec

\* Every variable of the room's facilitation has a value it is meant to have, for any
\* number of pages, elements and viewports.
THEOREM FacilitationTypeCorrect == FacilitationSpec => []FacilitationTypes
<1>1. IInv => FacilitationTypes
  BY DEF IInv
<1> QED BY <1>1, IInvHolds, PTL

\* Every page in the room comes to show the moderation and the votes the server
\* holds, whatever joins, broadcasts and lost connections cross.
THEOREM RoomShowsWhatItHolds == FacilitationSpec => []RoomShowsFacilitation
<1>1. IInv => RoomShowsFacilitation
  BY DEF IInv
<1> QED BY <1>1, IInvHolds, PTL

-----------------------------------------------------------------------------
(* Following the host: the inductive invariant.  What the host's page shows*)
(* of "everyone follows me", what is on its way to it and what it has asked *)
(* for turn over at most once; while it is on, the last viewport on its way *)
(* from the host is the host's own.                                         *)

\* A message that says b of "everyone follows me".
Says(m, b) ==
  \/ m.kind \in {"joined", "moderation"} /\ m.moderation.follow = b
  \/ m.kind = "moderate" /\ m.change.field = "follow" /\ m.change.to = b

\* No message of the queue says b; after one that says the opposite none does.
Silent(queue, b) == \A i \in DOMAIN queue : ~Says(queue[i], b)
Turned(queue, b) ==
  \A i, j \in DOMAIN queue : i < j /\ Says(queue[i], ~b) => ~Says(queue[j], b)

NoViewportIn(queue) == \A i \in DOMAIN queue : queue[i].kind # "viewport"

\* v is the last viewport of the queue, or the first one when there is none in it.
Last(queue, first, v) ==
  \/ first = v /\ NoViewportIn(queue)
  \/ \E i \in DOMAIN queue : /\ queue[i].kind = "viewport" /\ queue[i].at = v
                             /\ \A j \in DOMAIN queue : j > i => queue[j].kind # "viewport"

HostTurnsOnce ==
  LET b == Broadcasting
  IN  /\ Turned(mail[Moderator], b) /\ Turned(outbox[Moderator], b)
      /\ Silent(mail[Moderator], ~b) \/ Silent(outbox[Moderator], b)
      /\ stage[Moderator] # "in" => Silent(outbox[Moderator], b)

\* What still waits for the throttle when following ended is dropped before it begins again.
NothingWaitsWhileOff ==
  ~Broadcasting /\ pending # NoViewport =>
    ~moderation.follow /\ Silent(mail[Moderator], TRUE) /\ Silent(outbox[Moderator], TRUE)

HostSentItsPlace ==
  Broadcasting => IF pending # NoViewport THEN pending = place[Moderator]
                  ELSE Last(outbox[Moderator], place[Moderator], place[Moderator])

\* The host is followed and has nothing more to tell.
HostIsDone ==
  /\ stage[Moderator] = "in" /\ Broadcasting /\ pending = NoViewport
  /\ Silent(mail[Moderator], FALSE) /\ Silent(outbox[Moderator], FALSE)
  /\ NoViewportIn(outbox[Moderator])

MustSee(p) == p \in InRoom /\ p \notin owed /\ p # Moderator

OthersWillSeeIt ==
  HostIsDone => \A p \in Participants : MustSee(p) => Last(mail[p], seen[p], place[Moderator])

FollowersAreAtTheLast ==
  \A p \in Participants \ {Moderator} : Follows(p) /\ seen[p] # NoViewport => place[p] = seen[p]

OthersOnlyVote ==
  \A p \in Participants \ {Moderator} : \A i \in DOMAIN outbox[p] : outbox[p][i].kind = "vote"

OwedWhileHostIsAway == stage[Moderator] # "in" => owed = Participants

FollowInv ==
  /\ HostTurnsOnce /\ NothingWaitsWhileOff /\ HostSentItsPlace /\ OthersWillSeeIt
  /\ FollowersAreAtTheLast /\ OthersOnlyVote /\ OwedWhileHostIsAway

-----------------------------------------------------------------------------
(* Queues.                                                                 *)

LEMMA SilentAppend ==
  ASSUME NEW S, NEW s \in Seq(S), NEW m \in S, NEW b
  PROVE  /\ Silent(s, b) /\ ~Says(m, b) => Silent(Append(s, m), b)
         /\ Silent(Append(s, m), b) => Silent(s, b) /\ ~Says(m, b)
<1> DEFINE t == Append(s, m)
<1>1. /\ DOMAIN t = 1..(Len(s) + 1) /\ DOMAIN s = 1..Len(s) /\ Len(s) \in Nat
      /\ \A i \in 1..Len(s) : t[i] = s[i]
      /\ t[Len(s) + 1] = m
  BY Appended
<1> HIDE DEF t
<1>2. (\A i \in DOMAIN t : ~Says(t[i], b)) <=> (\A i \in DOMAIN s : ~Says(s[i], b)) /\ ~Says(m, b)
  BY <1>1
<1> QED BY <1>2 DEF Silent, t

LEMMA SilentTail ==
  ASSUME NEW S, NEW s \in Seq(S), s # << >>, NEW b
  PROVE  Silent(s, b) <=> Silent(Tail(s), b) /\ ~Says(Head(s), b)
<1> DEFINE t == Tail(s)
<1>1. /\ Len(s) \in Nat \ {0} /\ DOMAIN s = 1..Len(s) /\ DOMAIN t = 1..(Len(s) - 1)
      /\ \A i \in 1..(Len(s) - 1) : t[i] = s[i + 1]
      /\ Head(s) = s[1]
  BY Shortened
<1> HIDE DEF t
<1>2. ASSUME \A i \in DOMAIN s : ~Says(s[i], b)
      PROVE  (\A i \in DOMAIN t : ~Says(t[i], b)) /\ ~Says(Head(s), b)
  BY <1>1, <1>2
<1>3. ASSUME \A i \in DOMAIN t : ~Says(t[i], b), ~Says(Head(s), b), NEW i \in DOMAIN s
      PROVE  ~Says(s[i], b)
  <2>1. CASE i = 1
    BY <1>1, <1>3, <2>1
  <2>2. CASE i # 1
    <3>1. i - 1 \in DOMAIN t /\ t[i - 1] = s[i]
      BY <1>1, <2>2
    <3> QED BY <1>3, <3>1
  <2> QED BY <2>1, <2>2
<1> QED BY <1>2, <1>3 DEF Silent, t

LEMMA TurnedAppend ==
  ASSUME NEW S, NEW s \in Seq(S), NEW m \in S, NEW b \in BOOLEAN,
         Turned(s, b), ~Says(m, b) \/ Silent(s, ~b)
  PROVE  Turned(Append(s, m), b)
<1> DEFINE t == Append(s, m)
<1>1. /\ DOMAIN t = 1..(Len(s) + 1) /\ DOMAIN s = 1..Len(s) /\ Len(s) \in Nat
      /\ \A i \in 1..Len(s) : t[i] = s[i]
      /\ t[Len(s) + 1] = m
  BY Appended
<1> HIDE DEF t
<1>2. ASSUME NEW i \in DOMAIN t, NEW j \in DOMAIN t, i < j, Says(t[i], ~b)
      PROVE  ~Says(t[j], b)
  <2>1. i \in DOMAIN s /\ t[i] = s[i]
    BY <1>1, <1>2
  <2>2. CASE j \in DOMAIN s
    <3>1. t[j] = s[j]
      BY <1>1, <2>2
    <3> QED BY <1>2, <2>1, <2>2, <3>1 DEF Turned
  <2>3. CASE j \notin DOMAIN s
    <3>1. t[j] = m
      BY <1>1, <2>3
    <3>2. ~Silent(s, ~b)
      BY <1>2, <2>1 DEF Silent
    <3> QED BY <3>1, <3>2
  <2> QED BY <2>2, <2>3
<1> QED BY <1>2 DEF Turned, t

LEMMA TurnedTail ==
  ASSUME NEW S, NEW s \in Seq(S), s # << >>, NEW b \in BOOLEAN, Turned(s, b)
  PROVE  Turned(Tail(s), b) /\ (Says(Head(s), ~b) => Silent(Tail(s), b))
<1> DEFINE t == Tail(s)
<1>1. /\ Len(s) \in Nat \ {0} /\ DOMAIN s = 1..Len(s) /\ DOMAIN t = 1..(Len(s) - 1)
      /\ \A i \in 1..(Len(s) - 1) : t[i] = s[i + 1]
      /\ Head(s) = s[1]
  BY Shortened
<1> HIDE DEF t
<1>2. ASSUME NEW i \in DOMAIN t, NEW j \in DOMAIN t, i < j, Says(t[i], ~b)
      PROVE  ~Says(t[j], b)
  <2>1. /\ i + 1 \in DOMAIN s /\ j + 1 \in DOMAIN s /\ i + 1 < j + 1
        /\ t[i] = s[i + 1] /\ t[j] = s[j + 1]
    BY <1>1, <1>2
  <2> QED BY <1>2, <2>1 DEF Turned
<1>3. ASSUME Says(Head(s), ~b), NEW j \in DOMAIN t PROVE ~Says(t[j], b)
  <2>1. 1 \in DOMAIN s /\ j + 1 \in DOMAIN s /\ 1 < j + 1 /\ t[j] = s[j + 1]
    BY <1>1, <1>3
  <2> QED BY <1>1, <1>3, <2>1 DEF Turned
<1> QED BY <1>2, <1>3 DEF Turned, Silent, t

\* A queue that says nothing of one kind has not turned.
LEMMA SilentIsTurned ==
  ASSUME NEW s, NEW b \in BOOLEAN, Silent(s, b) \/ Silent(s, ~b)
  PROVE  Turned(s, b)
  BY DEF Silent, Turned

\* The last viewport of a queue that grows or shrinks.
LEMMA LastAppend ==
  ASSUME NEW S, NEW s \in Seq(S), NEW m \in S, NEW first, NEW v
  PROVE  /\ m.kind = "viewport" => Last(Append(s, m), first, m.at) /\ ~NoViewportIn(Append(s, m))
         /\ m.kind # "viewport" /\ Last(s, first, v) => Last(Append(s, m), first, v)
         /\ NoViewportIn(Append(s, m)) => NoViewportIn(s)
<1> DEFINE t == Append(s, m)
<1>1. /\ DOMAIN t = 1..(Len(s) + 1) /\ DOMAIN s = 1..Len(s) /\ Len(s) \in Nat
      /\ \A i \in 1..Len(s) : t[i] = s[i]
      /\ t[Len(s) + 1] = m
  BY Appended
<1> HIDE DEF t
<1>2. ASSUME m.kind = "viewport" PROVE Last(t, first, m.at) /\ ~NoViewportIn(t)
  <2>1. Len(s) + 1 \in DOMAIN t /\ \A j \in DOMAIN t : ~(j > Len(s) + 1)
    BY <1>1
  <2> QED BY <1>1, <1>2, <2>1 DEF Last, NoViewportIn
<1>3. ASSUME m.kind # "viewport", Last(s, first, v) PROVE Last(t, first, v)
  <2>1. \A j \in DOMAIN t : (j \in DOMAIN s /\ t[j] = s[j]) \/ t[j].kind # "viewport"
    BY <1>1, <1>3
  <2>2. CASE first = v /\ NoViewportIn(s)
    BY <2>1, <2>2 DEF Last, NoViewportIn
  <2>3. CASE \E i \in DOMAIN s : /\ s[i].kind = "viewport" /\ s[i].at = v
                                 /\ \A j \in DOMAIN s : j > i => s[j].kind # "viewport"
    <3>1. PICK i \in DOMAIN s : /\ s[i].kind = "viewport" /\ s[i].at = v
                                /\ \A j \in DOMAIN s : j > i => s[j].kind # "viewport"
      BY <2>3
    <3>2. i \in DOMAIN t /\ t[i] = s[i]
      BY <1>1
    <3>3. \A j \in DOMAIN t : j > i => t[j].kind # "viewport"
      BY <2>1, <3>1
    <3> QED BY <3>1, <3>2, <3>3 DEF Last
  <2> QED BY <1>3, <2>2, <2>3 DEF Last
<1>4. ASSUME NoViewportIn(t) PROVE NoViewportIn(s)
  BY <1>1, <1>4 DEF NoViewportIn
<1> QED BY <1>2, <1>3, <1>4 DEF t

LEMMA LastTail ==
  ASSUME NEW S, NEW s \in Seq(S), s # << >>, NEW first, NEW v, Last(s, first, v)
  PROVE  /\ Last(Tail(s), IF Head(s).kind = "viewport" THEN Head(s).at ELSE first, v)
         /\ first = v => Last(Tail(s), v, v)
<1> DEFINE t == Tail(s)
<1>1. /\ Len(s) \in Nat \ {0} /\ DOMAIN s = 1..Len(s) /\ DOMAIN t = 1..(Len(s) - 1)
      /\ \A i \in 1..(Len(s) - 1) : t[i] = s[i + 1]
      /\ Head(s) = s[1]
  BY Shortened
<1> HIDE DEF t
<1>2. \A i \in DOMAIN t : i + 1 \in DOMAIN s /\ t[i] = s[i + 1] /\ i \in Nat
  BY <1>1
<1>3. 1 \in DOMAIN s
  BY <1>1
<1>4. CASE first = v /\ NoViewportIn(s)
  <2>1. NoViewportIn(t) /\ Head(s).kind # "viewport"
    BY <1>1, <1>2, <1>3, <1>4 DEF NoViewportIn
  <2> QED BY <1>4, <2>1 DEF Last, t
<1>5. CASE \E i \in DOMAIN s : /\ s[i].kind = "viewport" /\ s[i].at = v
                               /\ \A j \in DOMAIN s : j > i => s[j].kind # "viewport"
  <2>1. PICK i \in DOMAIN s : /\ s[i].kind = "viewport" /\ s[i].at = v
                              /\ \A j \in DOMAIN s : j > i => s[j].kind # "viewport"
    BY <1>5
  <2>2. CASE i = 1
    <3>1. NoViewportIn(t)
      <4>1. \A j \in DOMAIN t : j + 1 > i
        BY <1>1, <2>2
      <4> QED BY <1>2, <2>1, <4>1 DEF NoViewportIn
    <3>2. Head(s).kind = "viewport" /\ Head(s).at = v
      BY <1>1, <2>1, <2>2
    <3> QED BY <3>1, <3>2 DEF Last, t
  <2>3. CASE i # 1
    <3>1. i - 1 \in DOMAIN t /\ t[i - 1] = s[i]
      BY <1>1, <2>3
    <3>2. \A j \in DOMAIN t : j > i - 1 => t[j].kind # "viewport"
      <4>1. \A j \in DOMAIN t : j > i - 1 => j + 1 > i
        BY <1>1
      <4> QED BY <1>2, <2>1, <4>1
    <3> QED BY <2>1, <3>1, <3>2 DEF Last, t
  <2> QED BY <2>2, <2>3
<1> QED BY <1>4, <1>5 DEF Last

LEMMA NoViewportTail ==
  ASSUME NEW S, NEW s \in Seq(S), s # << >>
  PROVE  NoViewportIn(s) <=> NoViewportIn(Tail(s)) /\ Head(s).kind # "viewport"
<1> DEFINE t == Tail(s)
<1>1. /\ Len(s) \in Nat \ {0} /\ DOMAIN s = 1..Len(s) /\ DOMAIN t = 1..(Len(s) - 1)
      /\ \A i \in 1..(Len(s) - 1) : t[i] = s[i + 1]
      /\ Head(s) = s[1]
  BY Shortened
<1> HIDE DEF t
<1>2. ASSUME NoViewportIn(t), Head(s).kind # "viewport", NEW i \in DOMAIN s
      PROVE  s[i].kind # "viewport"
  <2>1. CASE i = 1
    BY <1>1, <1>2, <2>1
  <2>2. CASE i # 1
    <3>1. i - 1 \in DOMAIN t /\ t[i - 1] = s[i]
      BY <1>1, <2>2
    <3> QED BY <1>2, <3>1 DEF NoViewportIn
  <2> QED BY <2>1, <2>2
<1>3. ASSUME NoViewportIn(s) PROVE NoViewportIn(t) /\ Head(s).kind # "viewport"
  <2>1. 1 \in DOMAIN s /\ \A i \in DOMAIN t : i + 1 \in DOMAIN s /\ t[i] = s[i + 1]
    BY <1>1
  <2> QED BY <1>1, <1>3, <2>1 DEF NoViewportIn
<1> QED BY <1>2, <1>3 DEF NoViewportIn, t

LEMMA EmptyQueue ==
  ASSUME NEW b, NEW v
  PROVE  Silent(<< >>, b) /\ Turned(<< >>, b) /\ NoViewportIn(<< >>) /\ Last(<< >>, v, v)
  BY DEF Silent, Turned, NoViewportIn, Last

\* A page's queue and what it shows of following tell what the server holds.
LEMMA SilentTold ==
  ASSUME FacilitationTypes, NEW p \in Participants, Told(p), NEW b \in BOOLEAN,
         shownState[p].moderation.follow = b
  PROVE  /\ Silent(mail[p], ~b) => moderation.follow = b
         /\ Turned(mail[p], b) /\ moderation.follow = b => Silent(mail[p], ~b)
<1> DEFINE s == mail[p]
<1>1. s \in Seq(ToPage) /\ DOMAIN s = 1..Len(s) /\ Len(s) \in Nat /\ \A i \in DOMAIN s : s[i] \in ToPage
  BY DEF FacilitationTypes
<1>2. /\ moderation.follow \in BOOLEAN
      /\ \A i \in DOMAIN s : Tells(s[i], "moderation") =>
           s[i].moderation.follow \in BOOLEAN /\ \A x : Says(s[i], x) <=> s[i].moderation.follow = x
  BY <1>1, PageMessageFields DEF FacilitationTypes, Moderations, Tells, Says
<1>3. \A i \in DOMAIN s : ~Tells(s[i], "moderation") => \A x : ~Says(s[i], x)
  BY <1>1, PageMessageFields DEF Tells, Says
<1> HIDE DEF s
<1>4. CASE shownState[p].moderation = moderation /\ \A i \in DOMAIN s : ~Tells(s[i], "moderation")
  BY <1>3, <1>4 DEF Silent, s
<1>5. CASE \E i \in DOMAIN s : /\ Tells(s[i], "moderation") /\ s[i].moderation = moderation
                               /\ \A j \in DOMAIN s : j > i => ~Tells(s[j], "moderation")
  <2>1. PICK i \in DOMAIN s : /\ Tells(s[i], "moderation") /\ s[i].moderation = moderation
                              /\ \A j \in DOMAIN s : j > i => ~Tells(s[j], "moderation")
    BY <1>5
  <2>2. Says(s[i], moderation.follow)
    BY <1>2, <2>1
  <2>3. ASSUME Silent(s, ~b) PROVE moderation.follow = b
    BY <1>2, <2>2, <2>3 DEF Silent
  <2>4. ASSUME Turned(s, b), moderation.follow = b, NEW j \in DOMAIN s, Says(s[j], ~b) PROVE FALSE
    <3>1. Says(s[i], b) /\ ~(j < i)
      BY <2>2, <2>4 DEF Turned
    <3>2. j # i
      BY <1>2, <2>1, <2>2, <2>4
    <3>3. j > i
      BY <1>1, <3>1, <3>2
    <3> QED BY <1>3, <2>1, <2>4, <3>3
  <2> QED BY <2>3, <2>4 DEF Silent, s
<1> QED BY <1>4, <1>5 DEF Told, Shows, s

-----------------------------------------------------------------------------
(* Steps that leave the host alone.                                        *)

\* What the host has, shows and is told.
HostVars == <<stage[Moderator], mail[Moderator], outbox[Moderator], Broadcasting,
              pending, place[Moderator], moderation.follow>>

\* The invariant's parts about the host: nothing of it changes.
LEMMA HostAside ==
  ASSUME FollowInv, UNCHANGED HostVars
  PROVE  HostTurnsOnce' /\ NothingWaitsWhileOff' /\ HostSentItsPlace' /\ (HostIsDone' => HostIsDone)
  BY DEF FollowInv, HostVars, HostTurnsOnce, NothingWaitsWhileOff, HostSentItsPlace, HostIsDone,
         Silent, Turned, Last, NoViewportIn

\* Pages that must see the host's place had to before, and will as before.
LEMMA SeeAside ==
  ASSUME FollowInv, HostIsDone' => HostIsDone, place'[Moderator] = place[Moderator],
         \A p \in Participants : MustSee(p)' =>
           MustSee(p) /\ (Last(mail[p], seen[p], place[Moderator])
                           => Last(mail'[p], seen'[p], place[Moderator]))
  PROVE  OthersWillSeeIt'
<1> SUFFICES ASSUME HostIsDone', NEW p \in Participants, MustSee(p)'
             PROVE  Last(mail'[p], seen'[p], place'[Moderator])
  BY DEF OthersWillSeeIt, Last, NoViewportIn
<1>1. Last(mail[p], seen[p], place[Moderator])
  BY DEF FollowInv, OthersWillSeeIt
<1> QED BY <1>1

\* Nobody but the host asks for anything new.
LEMMA VotesStay ==
  ASSUME FollowInv,
         \A q \in Participants \ {Moderator} : outbox'[q] = outbox[q] \/ outbox'[q] = << >>
  PROVE  OthersOnlyVote'
<1> SUFFICES ASSUME NEW q \in Participants \ {Moderator}, NEW i \in DOMAIN outbox'[q]
             PROVE  outbox'[q][i].kind = "vote"
  BY DEF OthersOnlyVote
<1>1. outbox'[q] = outbox[q]
  BY DEF Silent
<1> QED BY <1>1 DEF FollowInv, OthersOnlyVote

\* The connections of the other pages.
LEMMA FollowConnections ==
  ASSUME FacilitationTypes, OutIsSilent, FollowInv, NEW p \in Participants \ {Moderator},
         StartJoin(p) \/ JoinAnswered(p) \/ LoseConnection(p) \/ LoadAgain(p)
  PROVE  FollowInv'
<1> USE FacilitationAssumption DEF FacilitationTypes
<1>1. UNCHANGED HostVars
  BY DEF StartJoin, JoinAnswered, LoseConnection, LoadAgain, HostVars, Broadcasting,
         shownVars, mailVars
<1>2. HostTurnsOnce' /\ NothingWaitsWhileOff' /\ HostSentItsPlace' /\ (HostIsDone' => HostIsDone)
  BY <1>1, HostAside
<1>3. OthersWillSeeIt'
  <2>1. ASSUME NEW q \in Participants, MustSee(q)'
        PROVE  q # p /\ MustSee(q) /\ mail'[q] = mail[q] /\ seen'[q] = seen[q]
    BY <2>1 DEF StartJoin, JoinAnswered, LoseConnection, LoadAgain, MustSee, InRoom, Owing,
                shownVars, mailVars
  <2> QED BY <1>1, <1>2, <2>1, SeeAside DEF HostVars
<1>4. FollowersAreAtTheLast'
  <2>1. ASSUME NEW q \in Participants \ {Moderator}, Follows(q)', seen'[q] # NoViewport
        PROVE  place'[q] = seen'[q]
    <3>1. CASE UNCHANGED shownVars
      BY <2>1, <3>1 DEF FollowInv, FollowersAreAtTheLast, Follows, shownVars
    <3>2. CASE LoadAgain(p)
      BY <2>1, <3>2 DEF FollowInv, FollowersAreAtTheLast, Follows, LoadAgain
    <3> QED BY <3>1, <3>2 DEF StartJoin, JoinAnswered, LoseConnection
  <2> QED BY <2>1 DEF FollowersAreAtTheLast
<1>5. OthersOnlyVote'
  <2>1. \A q \in Participants : outbox'[q] = outbox[q] \/ outbox'[q] = << >>
    BY DEF StartJoin, JoinAnswered, LoseConnection, LoadAgain, mailVars
  <2> QED BY <2>1, VotesStay
<1>6. OwedWhileHostIsAway'
  <2>1. owed \subseteq owed' /\ owed' \subseteq Participants
    BY DEF StartJoin, JoinAnswered, LoseConnection, LoadAgain, Owing
  <2> QED BY <1>1, <2>1 DEF FollowInv, OwedWhileHostIsAway, HostVars
<1> QED BY <1>2, <1>3, <1>4, <1>5, <1>6 DEF FollowInv

\* The host's connection, and the end of the session.
LEMMA FollowHostConnects ==
  ASSUME FacilitationTypes, OutIsSilent, FollowInv,
         \/ StartJoin(Moderator) \/ LoseConnection(Moderator) \/ LoadAgain(Moderator)
         \/ ForgetSession
  PROVE  FollowInv'
<1> USE FacilitationAssumption, EmptyQueue DEF FacilitationTypes
<1>0. stage'[Moderator] # "in" /\ owed' = Participants /\ mail'[Moderator] = << >>
  BY DEF FollowInv, OwedWhileHostIsAway, StartJoin, LoseConnection, LoadAgain, ForgetSession, Owing,
         OutIsSilent, mailVars
<1>1. OthersWillSeeIt' /\ OwedWhileHostIsAway'
  BY <1>0 DEF OthersWillSeeIt, HostIsDone, OwedWhileHostIsAway
<1>2. \A q \in Participants : outbox'[q] = outbox[q] \/ outbox'[q] = << >>
  BY DEF StartJoin, LoseConnection, LoadAgain, ForgetSession, mailVars
<1>3. outbox'[Moderator] = << >>
  BY DEF StartJoin, LoseConnection, LoadAgain, ForgetSession, mailVars, OutIsSilent
<1>4. OthersOnlyVote'
  BY <1>2, VotesStay
<1>5. FollowersAreAtTheLast'
  <2>1. \A q \in Participants \ {Moderator} :
          /\ shownState'[q] = shownState[q] /\ stopped'[q] = stopped[q]
          /\ seen'[q] = seen[q] /\ place'[q] = place[q]
    BY DEF StartJoin, LoseConnection, LoadAgain, ForgetSession, shownVars
  <2> QED BY <2>1 DEF FollowInv, FollowersAreAtTheLast, Follows
<1>6. HostTurnsOnce'
  BY <1>0, <1>3 DEF HostTurnsOnce
<1>7. NothingWaitsWhileOff'
  <2>1. Silent(mail'[Moderator], TRUE) /\ Silent(outbox'[Moderator], TRUE)
    BY <1>0, <1>3
  <2>2. CASE LoadAgain(Moderator)
    BY <2>2 DEF LoadAgain, NothingWaitsWhileOff
  <2>3. CASE UNCHANGED shownVars
    <3>1. moderation'.follow = moderation.follow \/ moderation'.follow = FALSE
      BY DEF StartJoin, LoseConnection, LoadAgain, ForgetSession, DefaultModeration
    <3> QED BY <2>1, <2>3, <3>1 DEF FollowInv, NothingWaitsWhileOff, Broadcasting, shownVars
  <2> QED BY <2>2, <2>3 DEF StartJoin, LoseConnection, ForgetSession
<1>8. HostSentItsPlace'
  <2>1. CASE UNCHANGED shownVars
    BY <1>3, <2>1 DEF FollowInv, HostSentItsPlace, Broadcasting, shownVars
  <2>2. CASE LoadAgain(Moderator)
    <3>1. ~Broadcasting'
      BY <2>2 DEF LoadAgain, Broadcasting, DefaultModeration
    <3> QED BY <3>1 DEF HostSentItsPlace
  <2> QED BY <2>1, <2>2 DEF StartJoin, LoseConnection, ForgetSession
<1> QED BY <1>1, <1>4, <1>5, <1>6, <1>7, <1>8 DEF FollowInv

\* The host enters the room, and is told what the server holds.
LEMMA FollowHostJoins ==
  ASSUME FacilitationTypes, OutIsSilent, FollowInv, JoinAnswered(Moderator)
  PROVE  FollowInv'
<1> USE FacilitationAssumption DEF FacilitationTypes
<1> DEFINE m == [kind |-> "joined", moderation |-> moderation, votes |-> votes]
           b == Broadcasting
<1>1. m \in ToPage /\ b \in BOOLEAN
  BY PageMessages DEF Broadcasting, Moderations
<1>2. /\ UNCHANGED <<moderation, shownVars, outbox>> /\ owed' = Participants
      /\ mail' = [mail EXCEPT ![Moderator] = Append(mail[Moderator], m)]
      /\ stage[Moderator] # "in"
  BY DEF JoinAnswered, FollowInv, OwedWhileHostIsAway
<1>3. \A x : Says(m, x) => moderation.follow = x
  BY DEF Says
<1> HIDE DEF m
<1>4. mail[Moderator] = << >> /\ mail'[Moderator] = Append(mail[Moderator], m)
      /\ mail[Moderator] \in Seq(ToPage)
  BY <1>2 DEF OutIsSilent
<1>11. Silent(mail[Moderator], ~b) /\ Silent(mail[Moderator], TRUE)
  BY <1>4 DEF Silent
<1> HIDE DEF b
<1>12. Turned(mail[Moderator], b)
  BY <1>1, <1>11, SilentIsTurned
<1>5. Turned(mail'[Moderator], b)
  <2> HIDE DEF FacilitationTypes
  <2>1. Turned(Append(mail[Moderator], m), b)
    BY <1>1, <1>4, <1>11, <1>12, TurnedAppend
  <2> QED BY <1>4, <2>1
<1>6. HostTurnsOnce'
  BY <1>2, <1>5 DEF HostTurnsOnce, FollowInv, Broadcasting, shownVars, b
<1>7. NothingWaitsWhileOff'
  <2>1. ASSUME ~moderation.follow PROVE Silent(mail'[Moderator], TRUE)
    <3> HIDE DEF FacilitationTypes
    <3>1. ~Says(m, TRUE)
      BY <1>3, <2>1
    <3>2. Silent(Append(mail[Moderator], m), TRUE)
      BY <1>1, <1>4, <1>11, <3>1, SilentAppend
    <3> QED BY <1>4, <3>2
  <2> QED BY <1>2, <2>1 DEF NothingWaitsWhileOff, FollowInv, Broadcasting, shownVars
<1>8. HostSentItsPlace'
  BY <1>2 DEF HostSentItsPlace, FollowInv, Broadcasting, shownVars
<1>9. OthersWillSeeIt' /\ OwedWhileHostIsAway'
  BY <1>2 DEF OthersWillSeeIt, MustSee, OwedWhileHostIsAway
<1>10. FollowersAreAtTheLast' /\ OthersOnlyVote'
  BY <1>2 DEF FollowInv, FollowersAreAtTheLast, OthersOnlyVote, Follows, shownVars
<1> QED BY <1>6, <1>7, <1>8, <1>9, <1>10 DEF FollowInv

-----------------------------------------------------------------------------
(* Messages about something else.                                          *)

\* Two queues that say the same of following.
SameWord(s, t) ==
  \A b \in BOOLEAN : (Silent(s, b) <=> Silent(t, b)) /\ (Turned(s, b) => Turned(t, b))

LEMMA SameWordAppend ==
  ASSUME NEW S, NEW s \in Seq(S), NEW m \in S, ~Says(m, TRUE), ~Says(m, FALSE)
  PROVE  SameWord(s, Append(s, m))
<1> SUFFICES ASSUME NEW b \in BOOLEAN
             PROVE  /\ Silent(s, b) <=> Silent(Append(s, m), b)
                    /\ Turned(s, b) => Turned(Append(s, m), b)
  BY DEF SameWord
<1>1. ~Says(m, b)
  OBVIOUS
<1> QED BY <1>1, SilentAppend, TurnedAppend

LEMMA SameWordTail ==
  ASSUME NEW S, NEW s \in Seq(S), s # << >>, ~Says(Head(s), TRUE), ~Says(Head(s), FALSE)
  PROVE  SameWord(s, Tail(s))
<1> SUFFICES ASSUME NEW b \in BOOLEAN
             PROVE  /\ Silent(s, b) <=> Silent(Tail(s), b)
                    /\ Turned(s, b) => Turned(Tail(s), b)
  BY DEF SameWord
<1>1. ~Says(Head(s), b)
  OBVIOUS
<1> QED BY <1>1, SilentTail, TurnedTail

LEMMA HostQueuesStay ==
  ASSUME FollowInv,
         UNCHANGED <<stage[Moderator], Broadcasting, pending, place[Moderator], moderation.follow>>,
         SameWord(mail[Moderator], mail'[Moderator]),
         SameWord(outbox[Moderator], outbox'[Moderator]),
         NoViewportIn(outbox'[Moderator]) => NoViewportIn(outbox[Moderator]),
         Last(outbox[Moderator], place[Moderator], place[Moderator])
           => Last(outbox'[Moderator], place[Moderator], place[Moderator]),
         Broadcasting \in BOOLEAN
  PROVE  HostTurnsOnce' /\ NothingWaitsWhileOff' /\ HostSentItsPlace' /\ (HostIsDone' => HostIsDone)
<1> USE DEF FollowInv
<1>1. /\ Silent(mail[Moderator], TRUE) <=> Silent(mail'[Moderator], TRUE)
      /\ Silent(mail[Moderator], FALSE) <=> Silent(mail'[Moderator], FALSE)
      /\ Silent(outbox[Moderator], TRUE) <=> Silent(outbox'[Moderator], TRUE)
      /\ Silent(outbox[Moderator], FALSE) <=> Silent(outbox'[Moderator], FALSE)
  BY DEF SameWord
<1>2. HostTurnsOnce'
  <2> DEFINE b == Broadcasting
  <2>1. /\ Turned(mail[Moderator], b) /\ Turned(outbox[Moderator], b)
        /\ Silent(mail[Moderator], ~b) \/ Silent(outbox[Moderator], b)
        /\ stage[Moderator] # "in" => Silent(outbox[Moderator], b)
    BY DEF HostTurnsOnce
  <2>2. b' = b
    OBVIOUS
  <2>5. b \in BOOLEAN
    OBVIOUS
  <2> HIDE DEF b
  <2>3. /\ Turned(mail'[Moderator], b) /\ Turned(outbox'[Moderator], b)
        /\ Silent(mail'[Moderator], ~b) <=> Silent(mail[Moderator], ~b)
        /\ Silent(outbox'[Moderator], b) <=> Silent(outbox[Moderator], b)
    <3>1. (~b) \in BOOLEAN
      OBVIOUS
    <3> QED BY <2>1, <2>5, <3>1, Zenon DEF SameWord
  <2>4. /\ Turned(mail'[Moderator], b) /\ Turned(outbox'[Moderator], b)
        /\ Silent(mail'[Moderator], ~b) \/ Silent(outbox'[Moderator], b)
        /\ stage'[Moderator] # "in" => Silent(outbox'[Moderator], b)
    BY <2>1, <2>3
  <2> QED BY <2>2, <2>4 DEF HostTurnsOnce, b
<1>3. NothingWaitsWhileOff'
  BY <1>1 DEF NothingWaitsWhileOff
<1>4. HostSentItsPlace'
  BY DEF HostSentItsPlace
<1>5. HostIsDone' => HostIsDone
  BY <1>1 DEF HostIsDone
<1> QED BY <1>2, <1>3, <1>4, <1>5

\* The step takes the first message of p, and tells pages nothing of following, nor viewports.
LEMMA FollowServeVote ==
  ASSUME FacilitationTypes, OutIsSilent, FollowInv, NEW p \in Participants, Serve(p),
         Head(outbox[p]).kind = "vote" \/ (stage[p] = "joining" /\ p # Moderator)
  PROVE  FollowInv'
<1> DEFINE m == Head(outbox[p])
           new == Toggled(ActorOf[p], m.element)
           said == [kind |-> "votes", votes |-> new]
<1>0. Moderator \in Participants
  BY FacilitationAssumption
<1>1. outbox[p] \in Seq(ToServer) /\ outbox[p] # << >> /\ m \in ToServer
      /\ outbox' = [outbox EXCEPT ![p] = Tail(outbox[p])] /\ UNCHANGED <<stage, shownVars>>
  BY Shortened DEF FacilitationTypes, Serve
<1>2. /\ UNCHANGED <<moderation, owed>>
      /\ \/ mail' = mail
         \/ m.kind = "vote" /\ Broadcast(<<said>>)
  <2>1. stage[p] \in {"joining", "in"}
    BY DEF FacilitationTypes, OutIsSilent, Serve
  <2>2. CASE stage[p] = "joining"
    BY <2>2 DEF Serve
  <2>3. CASE stage[p] = "in" /\ m.kind = "vote"
    <3>1. VoteToggle(p, m)
      BY <2>3 DEF Serve
    <3> QED BY <2>3, <3>1 DEF VoteToggle
  <2> QED BY <2>1, <2>2, <2>3
<1>3. m.kind = "vote" => said \in ToPage
  BY <1>1, ServerMessageFields, ToggledTypes, PageMessages
<1>4. said.kind = "votes" /\ ~Says(said, TRUE) /\ ~Says(said, FALSE)
  BY DEF Says
<1>5. m.kind = "vote" => ~Says(m, TRUE) /\ ~Says(m, FALSE)
  BY DEF Says
<1> HIDE DEF m, new, said
<1>6. ASSUME NEW q \in Participants
      PROVE  /\ SameWord(mail[q], mail'[q])
             /\ Last(mail[q], seen[q], place[Moderator]) => Last(mail'[q], seen[q], place[Moderator])
  <2>1. mail[q] \in Seq(ToPage)
    BY DEF FacilitationTypes
  <2>2. CASE mail'[q] = mail[q]
    BY <2>2 DEF SameWord
  <2>3. CASE m.kind = "vote" /\ mail'[q] = Append(mail[q], said)
    BY <1>3, <1>4, <2>1, <2>3, SameWordAppend, LastAppend
  <2>4. mail'[q] = mail[q] \/ (m.kind = "vote" /\ mail'[q] = Append(mail[q], said))
    <3>1. CASE mail' = mail
      BY <3>1
    <3>2. CASE m.kind = "vote" /\ Broadcast(<<said>>)
      <4>1. mail[q] \o <<said>> = Append(mail[q], said)
        BY <1>3, <2>1, <3>2, Joined
      <4> QED BY <3>2, <4>1 DEF Broadcast
    <3> QED BY <1>2, <3>1, <3>2
  <2> QED BY <2>2, <2>3, <2>4
<1>7. /\ SameWord(outbox[Moderator], outbox'[Moderator])
      /\ NoViewportIn(outbox'[Moderator]) => NoViewportIn(outbox[Moderator])
      /\ Last(outbox[Moderator], place[Moderator], place[Moderator])
           => Last(outbox'[Moderator], place[Moderator], place[Moderator])
  <2>1. CASE p # Moderator
    <3>1. outbox'[Moderator] = outbox[Moderator]
      BY <1>0, <1>1, <2>1 DEF FacilitationTypes
    <3> QED BY <3>1 DEF SameWord
  <2>2. CASE p = Moderator
    <3>1. outbox'[Moderator] = Tail(outbox[Moderator]) /\ m.kind = "vote"
      BY <1>0, <1>1, <2>2 DEF FacilitationTypes, m
    <3>2. ~Says(Head(outbox[Moderator]), TRUE) /\ ~Says(Head(outbox[Moderator]), FALSE)
          /\ Head(outbox[Moderator]).kind # "viewport"
      BY <1>5, <2>2, <3>1 DEF m
    <3> QED BY <1>1, <2>2, <3>1, <3>2, SameWordTail, NoViewportTail, LastTail
  <2> QED BY <2>1, <2>2
<1>8. Broadcasting \in BOOLEAN
  BY <1>0 DEF Broadcasting, FacilitationTypes, Moderations
<1>9. HostTurnsOnce' /\ NothingWaitsWhileOff' /\ HostSentItsPlace' /\ (HostIsDone' => HostIsDone)
  BY <1>0, <1>1, <1>2, <1>6, <1>7, <1>8, HostQueuesStay DEF Broadcasting, shownVars
<1>10. OthersWillSeeIt'
  <2>1. \A q \in Participants : MustSee(q)' => MustSee(q)
    BY <1>1, <1>2 DEF MustSee, InRoom
  <2> QED BY <1>1, <1>6, <1>9, <2>1, SeeAside DEF shownVars
<1>11. FollowersAreAtTheLast' /\ OwedWhileHostIsAway'
  BY <1>1, <1>2 DEF FollowInv, FollowersAreAtTheLast, OwedWhileHostIsAway, Follows, shownVars
<1>12. OthersOnlyVote'
  <2> SUFFICES ASSUME NEW q \in Participants \ {Moderator}, NEW i \in DOMAIN outbox'[q]
               PROVE  outbox'[q][i].kind = "vote"
    BY DEF OthersOnlyVote
  <2>1. \A j \in DOMAIN outbox[q] : outbox[q][j].kind = "vote"
    BY DEF FollowInv, OthersOnlyVote
  <2>2. CASE q # p
    BY <1>1, <2>1, <2>2 DEF FacilitationTypes
  <2>3. CASE q = p
    <3>1. outbox'[p] = Tail(outbox[p])
      BY <1>1 DEF FacilitationTypes
    <3>2. /\ DOMAIN outbox[p] = 1..Len(outbox[p]) /\ Len(outbox[p]) \in Nat
          /\ DOMAIN Tail(outbox[p]) = 1..(Len(outbox[p]) - 1)
          /\ \A j \in 1..(Len(outbox[p]) - 1) : Tail(outbox[p])[j] = outbox[p][j + 1]
      BY <1>1, Shortened
    <3>3. i + 1 \in DOMAIN outbox[p] /\ outbox'[p][i] = outbox[p][i + 1]
      BY <2>3, <3>1, <3>2
    <3> QED BY <2>1, <2>3, <3>3
  <2> QED BY <2>2, <2>3
<1> QED BY <1>9, <1>10, <1>11, <1>12 DEF FollowInv

-----------------------------------------------------------------------------
(* The server serves the host.                                             *)

\* Whatever the message was: the rest of the host's queue, and what the pages show.
LEMMA HostServed ==
  ASSUME FacilitationTypes, FollowInv, Serve(Moderator)
  PROVE  /\ outbox[Moderator] \in Seq(ToServer) /\ outbox[Moderator] # << >>
         /\ Head(outbox[Moderator]) \in ToServer /\ outbox'[Moderator] = Tail(outbox[Moderator])
         /\ UNCHANGED <<stage, shownVars>>
         /\ HostSentItsPlace' /\ OthersOnlyVote' /\ FollowersAreAtTheLast'
<1>1. Moderator \in Participants
  BY FacilitationAssumption
<1>2. /\ outbox[Moderator] \in Seq(ToServer) /\ outbox[Moderator] # << >>
      /\ UNCHANGED <<stage, shownVars>>
      /\ outbox' = [outbox EXCEPT ![Moderator] = Tail(outbox[Moderator])]
  BY <1>1 DEF FacilitationTypes, Serve
<1>3. Head(outbox[Moderator]) \in ToServer
  BY <1>2, Shortened
<1>4. /\ outbox'[Moderator] = Tail(outbox[Moderator])
      /\ \A q \in Participants \ {Moderator} : outbox'[q] = outbox[q]
  BY <1>1, <1>2 DEF FacilitationTypes
<1>5. HostSentItsPlace'
  <2>1. Last(outbox[Moderator], place[Moderator], place[Moderator])
          => Last(outbox'[Moderator], place[Moderator], place[Moderator])
    BY <1>2, <1>4, LastTail
  <2> QED BY <1>2, <2>1 DEF FollowInv, HostSentItsPlace, Broadcasting, shownVars
<1>6. OthersOnlyVote'
  BY <1>4, VotesStay
<1>7. FollowersAreAtTheLast'
  BY <1>2 DEF FollowInv, FollowersAreAtTheLast, Follows, shownVars
<1> QED BY <1>2, <1>3, <1>4, <1>5, <1>6, <1>7

\* Before the host is in the room its messages are refused.
LEMMA FollowServeJoining ==
  ASSUME FacilitationTypes, FollowInv, Serve(Moderator), stage[Moderator] = "joining"
  PROVE  FollowInv'
<1>1. UNCHANGED <<moderation, mail, owed, stage, shownVars>>
  BY HostServed DEF Serve
<1>2. ASSUME NEW b \in BOOLEAN
      PROVE  /\ Silent(outbox[Moderator], b) => Silent(outbox'[Moderator], b)
             /\ Turned(outbox[Moderator], b) => Turned(outbox'[Moderator], b)
  BY HostServed, SilentTail, TurnedTail
<1>3. HostTurnsOnce'
  <2>1. PICK b \in BOOLEAN : b = Broadcasting
    BY FacilitationAssumption DEF Broadcasting, FacilitationTypes, Moderations
  <2>2. Broadcasting' = b
    BY <1>1, <2>1 DEF Broadcasting, shownVars
  <2>3. Turned(mail[Moderator], b) /\ Turned(outbox[Moderator], b) /\ Silent(outbox[Moderator], b)
    BY <2>1 DEF FollowInv, HostTurnsOnce
  <2>4. Turned(mail'[Moderator], b) /\ Turned(outbox'[Moderator], b) /\ Silent(outbox'[Moderator], b)
    BY <1>1, <1>2, <2>3
  <2> QED BY <2>2, <2>4 DEF HostTurnsOnce
<1>4. NothingWaitsWhileOff'
  BY <1>1, <1>2 DEF FollowInv, NothingWaitsWhileOff, Broadcasting, shownVars
<1>5. OthersWillSeeIt' /\ OwedWhileHostIsAway'
  BY <1>1 DEF FollowInv, OthersWillSeeIt, HostIsDone, OwedWhileHostIsAway
<1> QED BY <1>3, <1>4, <1>5, HostServed DEF FollowInv

\* The host's change of the moderation is told to everybody in the room, the host included.
LEMMA FollowServeModerate ==
  ASSUME FacilitationTypes, FollowInv, RoomShowsFacilitation, Serve(Moderator),
         stage[Moderator] = "in", Head(outbox[Moderator]).kind = "moderate"
  PROVE  FollowInv'
<1> DEFINE h == Moderator
           m == Head(outbox[h])
           new == ApplyUpdate(m.change)
           said == [kind |-> "moderation", moderation |-> new]
           none == [kind |-> "votes", votes |-> {}]
<1>1. h \in Participants /\ h \in InRoom /\ Told(h)
  BY FacilitationAssumption, RoomShowsAsTold DEF InRoom
<1>2. m \in ToServer /\ m.kind = "moderate" /\ m.change \in Changes
  BY HostServed, ServerMessageFields
<1>3. UNCHANGED <<stage, shownVars, owed>> /\ moderation' = new
  BY <1>2, HostServed DEF Serve, ModerationUpdate
<1>4. new \in Moderations /\ said \in ToPage /\ none \in ToPage
  BY <1>2, UpdateTypes, PageMessages DEF FacilitationTypes, Ballots
<1>5. new.follow = IF m.change.field = "follow" THEN m.change.to ELSE moderation.follow
  <2> DEFINE c == m.change
  <2> HIDE DEF m
  <2>1. CASE c.field = "follow"
    BY <2>1 DEF ApplyUpdate, FacilitationTypes, Moderations
  <2>2. CASE c.field \in {"vote limit", "stop voting", "reset", "locked", "timer"}
    BY <2>2 DEF ApplyUpdate, FacilitationTypes, Moderations
  <2> QED BY <1>2, <2>1, <2>2 DEF Changes
<1>6. /\ said.kind = "moderation" /\ none.kind = "votes"
      /\ ~Says(none, TRUE) /\ ~Says(none, FALSE)
      /\ \A x \in BOOLEAN : Says(said, x) <=> new.follow = x
  BY DEF Says
<1>7. \A x \in BOOLEAN : Says(m, x) <=> m.change.field = "follow" /\ m.change.to = x
  BY <1>2 DEF Says
<1>8. ASSUME NEW q \in Participants
      PROVE  /\ mail[q] \in Seq(ToPage)
             /\ \/ q \notin InRoom /\ mail'[q] = mail[q]
                \/ q \in InRoom /\ mail'[q] = Append(mail[q], said)
                \/ q \in InRoom /\ mail'[q] = Append(Append(mail[q], said), none)
  <2>1. mail[q] \in Seq(ToPage)
    BY DEF FacilitationTypes
  <2>2. ModerationUpdate(m)
    BY <1>2 DEF Serve
  <2>3. Broadcast(<<said>>) \/ Broadcast(<<said>> \o <<none>>)
    BY <2>2 DEF ModerationUpdate
  <2> HIDE DEF said, none
  <2>4. mail[q] \o <<said>> = Append(mail[q], said)
        /\ mail[q] \o (<<said>> \o <<none>>) = Append(Append(mail[q], said), none)
    BY <1>4, <2>1, Joined
  <2> QED BY <2>1, <2>3, <2>4 DEF Broadcast
<1>9. Says(m, TRUE) => new.follow = TRUE
  BY <1>5, <1>7
<1>10. Says(m, FALSE) => new.follow = FALSE
  BY <1>5, <1>7
<1>11. m.change.field # "follow" => new.follow = moderation.follow /\ ~Says(m, TRUE) /\ ~Says(m, FALSE)
  BY <1>5, <1>7
<1>12. m.change.field = "follow" => Says(m, new.follow)
  <2>1. m.change.field = "follow" => new.follow = m.change.to /\ new.follow \in BOOLEAN
    BY <1>4, <1>5 DEF Moderations
  <2> QED BY <1>7, <2>1
<1> HIDE DEF m, new, said, none
\* What the host is told says what the server now holds, once.
<1>13. ASSUME NEW x \in BOOLEAN
       PROVE  /\ new.follow = ~x /\ Silent(mail[h], x) => Silent(mail'[h], x)
              /\ Silent(mail'[h], x) => Silent(mail[h], x) /\ new.follow # x
              /\ Turned(mail[h], x) /\ (new.follow # x \/ Silent(mail[h], ~x)) => Turned(mail'[h], x)
  <2> DEFINE t == Append(mail[h], said)
  <2>1. mail[h] \in Seq(ToPage) /\ t \in Seq(ToPage) /\ (Says(said, x) <=> new.follow = x)
    BY <1>1, <1>4, <1>6, <1>8, Appended
  <2>2. /\ Silent(mail[h], x) /\ new.follow # x => Silent(t, x)
        /\ Silent(t, x) => Silent(mail[h], x) /\ new.follow # x
        /\ Turned(mail[h], x) /\ (new.follow # x \/ Silent(mail[h], ~x)) => Turned(t, x)
    BY <1>4, <2>1, SilentAppend, TurnedAppend
  <2>3. CASE mail'[h] = t
    BY <2>2, <2>3
  <2>4. CASE mail'[h] = Append(t, none)
    <3>1. SameWord(t, mail'[h])
      BY <1>4, <1>6, <2>1, <2>4, SameWordAppend
    <3>2. (Silent(t, x) <=> Silent(mail'[h], x)) /\ (Turned(t, x) => Turned(mail'[h], x))
      BY <3>1 DEF SameWord
    <3> QED BY <2>2, <3>2
  <2> QED BY <1>1, <1>8, <2>3, <2>4
<1>14. ASSUME NEW x \in BOOLEAN
       PROVE  /\ Silent(outbox[h], x) <=> Silent(outbox'[h], x) /\ ~Says(m, x)
              /\ Turned(outbox[h], x) => Turned(outbox'[h], x) /\ (Says(m, ~x) => Silent(outbox'[h], x))
  BY HostServed, SilentTail, TurnedTail DEF m
<1>15. PICK b \in BOOLEAN : b = Broadcasting
  BY <1>1 DEF Broadcasting, FacilitationTypes, Moderations
<1>16. Broadcasting' = b /\ shownState[h].moderation.follow = b /\ UNCHANGED <<pending, place>>
  BY <1>3, <1>15 DEF Broadcasting, shownVars
<1>17. /\ Turned(mail[h], b) /\ Turned(outbox[h], b)
       /\ Silent(mail[h], ~b) \/ Silent(outbox[h], b)
  BY <1>15 DEF FollowInv, HostTurnsOnce
<1>18. /\ Silent(mail[h], ~b) => moderation.follow = b
       /\ Turned(mail[h], b) /\ moderation.follow = b => Silent(mail[h], ~b)
  BY <1>1, <1>16, SilentTold
<1>19. new.follow = b => Silent(mail[h], ~b)
  <2>1. CASE m.change.field = "follow" /\ new.follow = b
    BY <1>12, <1>14, <1>17, <2>1
  <2>2. CASE m.change.field # "follow" /\ new.follow = b
    BY <1>11, <1>17, <1>18, <2>2
  <2> QED BY <2>1, <2>2
<1>20. new.follow # b => Silent(outbox'[h], b)
  <2>1. CASE m.change.field = "follow" /\ new.follow # b
    <3>1. new.follow = ~b
      BY <1>4, <2>1 DEF Moderations
    <3>2. Says(m, ~b)
      BY <1>12, <2>1, <3>1
    <3> QED BY <1>14, <1>17, <3>2
  <2>2. CASE m.change.field # "follow" /\ new.follow # b
    BY <1>11, <1>14, <1>17, <1>18, <2>2
  <2> QED BY <2>1, <2>2
<1>21. HostTurnsOnce'
  <2>1. Turned(mail'[h], b)
    BY <1>13, <1>17, <1>19
  <2>2. Turned(outbox'[h], b)
    BY <1>14, <1>17
  <2>3. Silent(mail'[h], ~b) \/ Silent(outbox'[h], b)
    <3>1. CASE new.follow = b
      <4>1. (~b) \in BOOLEAN /\ new.follow = ~(~b)
        BY <3>1
      <4> QED BY <1>13, <1>19, <3>1, <4>1
    <3> QED BY <1>20, <3>1
  <2>4. stage'[h] = "in"
    BY <1>3
  <2> QED BY <1>16, <2>1, <2>2, <2>3, <2>4 DEF HostTurnsOnce
<1>22. NothingWaitsWhileOff'
  <2> SUFFICES ASSUME ~b, pending # NoViewport
               PROVE  ~new.follow /\ Silent(mail'[h], TRUE) /\ Silent(outbox'[h], TRUE)
    BY <1>3, <1>16 DEF NothingWaitsWhileOff
  <2>1. ~moderation.follow /\ Silent(mail[h], TRUE) /\ Silent(outbox[h], TRUE)
    BY <1>15 DEF FollowInv, NothingWaitsWhileOff
  <2>2. Silent(outbox'[h], TRUE) /\ ~Says(m, TRUE)
    BY <1>14, <2>1
  <2>3. ~new.follow
    <3>1. new.follow # TRUE
      BY <1>11, <1>12, <2>1, <2>2
    <3> QED BY <3>1
  <2>4. new.follow = FALSE
    BY <1>4, <2>3 DEF Moderations
  <2> QED BY <1>13, <2>1, <2>2, <2>3, <2>4
<1>23. HostIsDone' => HostIsDone
  <2> SUFFICES ASSUME HostIsDone' PROVE HostIsDone
    OBVIOUS
  <2>1. Silent(mail'[h], FALSE) /\ Silent(outbox'[h], FALSE) /\ NoViewportIn(outbox'[h])
        /\ b /\ pending = NoViewport
    BY <1>3, <1>16 DEF HostIsDone, shownVars
  <2>2. Silent(mail[h], FALSE) /\ new.follow # FALSE
    BY <1>13, <2>1
  <2>3. Silent(outbox[h], FALSE)
    BY <1>10, <1>14, <2>1, <2>2
  <2>4. NoViewportIn(outbox[h])
    BY <1>2, <2>1, HostServed, NoViewportTail DEF m
  <2> QED BY <1>15, <2>1, <2>2, <2>3, <2>4 DEF HostIsDone
<1>24. OthersWillSeeIt'
  <2>1. ASSUME NEW q \in Participants, MustSee(q)'
        PROVE  MustSee(q) /\ (Last(mail[q], seen[q], place[h]) => Last(mail'[q], seen'[q], place[h]))
    <3>1. MustSee(q) /\ seen' = seen
      BY <1>3, <2>1 DEF MustSee, InRoom, shownVars
    <3>2. mail[q] \in Seq(ToPage) /\ Append(mail[q], said) \in Seq(ToPage)
      BY <1>4, <1>8, Appended
    <3>3. Last(mail[q], seen[q], place[h]) => Last(mail'[q], seen[q], place[h])
      BY <1>4, <1>6, <1>8, <3>2, LastAppend
    <3> QED BY <3>1, <3>3
  <2> QED BY <1>16, <1>23, <2>1, SeeAside
<1>25. OwedWhileHostIsAway'
  BY <1>3 DEF OwedWhileHostIsAway
<1> QED BY <1>21, <1>22, <1>24, <1>25, HostServed DEF FollowInv

\* The host's viewport is passed on to the others while the server holds that all follow.
LEMMA FollowServeViewport ==
  ASSUME FacilitationTypes, FollowInv, RoomShowsFacilitation, Serve(Moderator),
         stage[Moderator] = "in", Head(outbox[Moderator]).kind = "viewport"
  PROVE  FollowInv'
<1> DEFINE h == Moderator
           m == Head(outbox[h])
<1>1. h \in Participants /\ h \in InRoom /\ Told(h)
  BY FacilitationAssumption, RoomShowsAsTold DEF InRoom
<1>2. m \in ToServer /\ m \in ToPage /\ m.kind = "viewport" /\ m.at \in Viewports
  BY HostServed, ServerMessageFields
<1>3. ViewportUpdate(h, m) /\ UNCHANGED <<stage, shownVars, moderation>>
  BY HostServed DEF Serve, ViewportUpdate
<1>4. mail'[h] = mail[h]
  BY <1>1, <1>3 DEF ViewportUpdate
<1>5. ~Says(m, TRUE) /\ ~Says(m, FALSE)
  BY <1>2 DEF Says
<1> HIDE DEF m
<1>6. SameWord(outbox[h], outbox'[h])
  BY <1>5, HostServed, SameWordTail DEF m
<1>7. PICK b \in BOOLEAN : b = Broadcasting
  BY <1>1 DEF Broadcasting, FacilitationTypes, Moderations
<1>8. Broadcasting' = b /\ shownState[h].moderation.follow = b /\ UNCHANGED <<pending, place, seen>>
  BY <1>3, <1>7 DEF Broadcasting, shownVars
<1>9. HostTurnsOnce'
  <2>1. /\ Turned(mail[h], b) /\ Turned(outbox[h], b)
        /\ Silent(mail[h], ~b) \/ Silent(outbox[h], b)
    BY <1>7 DEF FollowInv, HostTurnsOnce
  <2>2. /\ Turned(outbox[h], b) => Turned(outbox'[h], b)
        /\ Silent(outbox[h], b) => Silent(outbox'[h], b)
    BY <1>6 DEF SameWord
  <2>3. stage'[h] = "in"
    BY <1>3
  <2> QED BY <1>4, <1>8, <2>1, <2>2, <2>3 DEF HostTurnsOnce
<1>10. NothingWaitsWhileOff'
  <2>1. Silent(outbox[h], TRUE) => Silent(outbox'[h], TRUE)
    BY <1>6 DEF SameWord
  <2>2. moderation'.follow = moderation.follow
    BY <1>3
  <2>3. ~b /\ pending # NoViewport =>
          ~moderation'.follow /\ Silent(mail'[h], TRUE) /\ Silent(outbox'[h], TRUE)
    BY <1>4, <1>7, <2>1, <2>2 DEF FollowInv, NothingWaitsWhileOff
  <2> QED BY <1>8, <2>3 DEF NothingWaitsWhileOff
<1>11. OthersWillSeeIt'
  <2> SUFFICES ASSUME HostIsDone', NEW q \in Participants, MustSee(q)'
               PROVE  Last(mail'[q], seen'[q], place'[h])
    BY DEF OthersWillSeeIt, Last, NoViewportIn
  <2>1. b = TRUE /\ pending = NoViewport /\ Silent(mail[h], FALSE) /\ NoViewportIn(outbox'[h])
    BY <1>4, <1>8 DEF HostIsDone
  <2>2. moderation.follow = TRUE
    <3>1. shownState[h].moderation.follow = TRUE
      BY <1>8, <2>1
    <3>2. Silent(mail[h], ~TRUE)
      BY <2>1
    <3> QED BY <1>1, <3>1, <3>2, SilentTold
  <2>3. m.at = place[h]
    <3>1. Last(outbox[h], place[h], place[h])
      BY <1>7, <2>1 DEF FollowInv, HostSentItsPlace
    <3>2. Last(outbox'[h], m.at, place[h])
      BY <1>2, <3>1, HostServed, LastTail DEF m
    <3> QED BY <2>1, <3>2 DEF Last, NoViewportIn
  <2>4. mail'[q] = Append(mail[q], m) /\ mail[q] \in Seq(ToPage)
    BY <1>3, <2>2 DEF ViewportUpdate, MustSee, InRoom, FacilitationTypes
  <2>5. Last(mail'[q], seen[q], m.at)
    BY <1>2, <2>4, LastAppend
  <2> QED BY <1>8, <2>3, <2>5
<1>12. OwedWhileHostIsAway'
  BY <1>3 DEF OwedWhileHostIsAway
<1> QED BY <1>9, <1>10, <1>11, <1>12, HostServed DEF FollowInv

-----------------------------------------------------------------------------
(* The pages receive.                                                      *)

\* The host learns that it is followed, or no longer; or it learns something else.
LEMMA FollowReceiveHost ==
  ASSUME FacilitationTypes, OutIsSilent, RoomShowsFacilitation, FollowInv, Receive(Moderator)
  PROVE  FollowInv'
<1> DEFINE h == Moderator
           m == Head(mail[h])
           place0 == [kind |-> "viewport", at |-> place[h]]
<1>1. h \in Participants /\ stage[h] = "in"
  BY FacilitationAssumption DEF OutIsSilent, FacilitationTypes, Receive
<1>2. h \in InRoom /\ Told(h)
  BY <1>1, RoomShowsAsTold DEF InRoom
<1>3. /\ mail[h] \in Seq(ToPage) /\ mail[h] # << >> /\ m \in ToPage
      /\ mail' = [mail EXCEPT ![h] = Tail(mail[h])] /\ UNCHANGED <<moderation, stage, pending, owed>>
  BY <1>1, Shortened DEF Receive, FacilitationTypes, roomVars
<1>4. outbox[h] \in Seq(ToServer) /\ place0 \in ToServer
  BY <1>1, ServerMessages DEF FacilitationTypes
<1>5. place0.kind = "viewport" /\ place0.at = place[h] /\ ~Says(place0, TRUE) /\ ~Says(place0, FALSE)
  BY DEF Says
<1>6. PICK b \in BOOLEAN, c \in BOOLEAN :
        /\ b = Broadcasting /\ c = Broadcasting'
        /\ IF m.kind \in {"joined", "moderation"} THEN c = m.moderation.follow ELSE c = b
  <2>1. Broadcasting \in BOOLEAN
    BY <1>1 DEF Broadcasting, FacilitationTypes, Moderations
  <2>2. IF Tells(m, "moderation") THEN Broadcasting' = m.moderation.follow /\ m.moderation \in Moderations
                                  ELSE Broadcasting' = Broadcasting
    BY <1>1, <1>3, ReceiveShows, PageMessageFields DEF Tells, Broadcasting
  <2>3. Tells(m, "moderation") <=> m.kind \in {"joined", "moderation"}
    BY DEF Tells
  <2> QED BY <2>1, <2>2, <2>3 DEF Moderations
<1>23. b = Broadcasting /\ c = Broadcasting'
  BY <1>6
<1>7. /\ \A q \in Participants : q # h => UNCHANGED <<mail[q], outbox[q], shownState[q], seen[q], stopped[q], place[q]>>
      /\ place'[h] = place[h] /\ mail'[h] = Tail(mail[h])
      /\ outbox'[h] = IF c /\ ~b THEN Append(outbox[h], place0) ELSE outbox[h]
  <2>1. mail'[h] = Tail(mail[h]) /\ \A q \in Participants : q # h => mail'[q] = mail[q]
    BY <1>1, <1>3 DEF FacilitationTypes
  <2>2. CASE m.kind \in {"joined", "moderation"}
    <3>1. ShowModeration(h, m.moderation) /\ seen' = seen
      BY <2>2 DEF Receive
    <3>2. /\ place' = place /\ stopped' \in [Participants -> BOOLEAN]
          /\ \A q \in Participants : q # h => stopped'[q] = stopped[q]
      BY <1>1, <3>1 DEF ShowModeration, FacilitationTypes
    <3>3. IF c /\ ~b THEN Emit(h, place0) ELSE outbox' = outbox
      BY <1>6, <2>2, <3>1 DEF ShowModeration, Broadcasting
    <3>4. /\ outbox'[h] = IF c /\ ~b THEN Append(outbox[h], place0) ELSE outbox[h]
          /\ \A q \in Participants : q # h => outbox'[q] = outbox[q]
      BY <1>1, <3>3 DEF Emit, FacilitationTypes
    <3>5. \A q \in Participants : q # h => shownState'[q] = shownState[q]
      BY <1>1, <2>2 DEF Receive, FacilitationTypes
    <3> QED BY <2>1, <3>1, <3>2, <3>4, <3>5
  <2>3. CASE m.kind = "votes"
    BY <1>1, <1>6, <2>1, <2>3 DEF Receive, FacilitationTypes
  <2>4. CASE m.kind = "viewport"
    BY <1>1, <1>6, <2>1, <2>4 DEF Receive, ShowViewport, Follows, FacilitationTypes
  <2> QED BY <1>3, <2>2, <2>3, <2>4, PageMessageFields
<1>8. (c # b => Says(m, c)) /\ ~Says(m, ~c)
  <2>1. m.kind # "moderate"
    BY <1>3, PageMessageFields
  <2> QED BY <1>6, <2>1 DEF Says
<1> HIDE DEF m, place0
<1>9. ASSUME NEW x \in BOOLEAN
      PROVE  /\ Silent(mail[h], x) <=> Silent(mail'[h], x) /\ ~Says(m, x)
             /\ Turned(mail[h], x) => Turned(mail'[h], x) /\ (Says(m, ~x) => Silent(mail'[h], x))
  BY <1>3, <1>7, SilentTail, TurnedTail DEF m
<1>10. SameWord(outbox[h], outbox'[h])
  <2>1. SameWord(outbox[h], outbox[h])
    BY DEF SameWord
  <2>2. SameWord(outbox[h], Append(outbox[h], place0))
    BY <1>4, <1>5, SameWordAppend
  <2> QED BY <1>7, <2>1, <2>2
<1>11. /\ Turned(mail[h], b) /\ Turned(outbox[h], b)
       /\ Silent(mail[h], ~b) \/ Silent(outbox[h], b)
  BY <1>6 DEF FollowInv, HostTurnsOnce
<1>12. /\ Silent(mail[h], ~b) => moderation.follow = b
       /\ Turned(mail[h], b) /\ moderation.follow = b => Silent(mail[h], ~b)
  BY <1>1, <1>2, <1>6, SilentTold DEF Broadcasting
\* When what the host shows of following turns, everything else about it is the last word.
<1>13. ASSUME c # b
       PROVE  /\ Silent(mail'[h], b) /\ Silent(outbox[h], b) /\ Silent(outbox'[h], b)
              /\ moderation.follow = c /\ ~Silent(mail[h], c)
  <2>1. c = ~b /\ b = ~c
    BY <1>13
  <2>2. ~Silent(mail[h], c)
    BY <1>8, <1>9, <1>13
  <2>3. Silent(outbox[h], b) /\ moderation.follow # b
    BY <1>11, <1>12, <2>1, <2>2
  <2>4. Silent(mail'[h], b)
    BY <1>8, <1>9, <1>11, <1>13, <2>1
  <2>5. Silent(outbox'[h], b)
    BY <1>10, <2>3 DEF SameWord
  <2>6. moderation.follow \in BOOLEAN
    BY DEF FacilitationTypes, Moderations
  <2> QED BY <2>1, <2>2, <2>3, <2>4, <2>5, <2>6
<1>14. HostTurnsOnce'
  <2>1. Turned(mail'[h], c) /\ Turned(outbox'[h], c) /\ (Silent(mail'[h], ~c) \/ Silent(outbox'[h], c))
    <3>1. CASE c = b
      <4>1. Turned(mail'[h], b) /\ (Silent(mail[h], ~b) => Silent(mail'[h], ~b))
        <5>1. (~b) \in BOOLEAN
          OBVIOUS
        <5> QED BY <1>9, <1>11, <5>1
      <4>2. Turned(outbox'[h], b) /\ (Silent(outbox[h], b) => Silent(outbox'[h], b))
        BY <1>10, <1>11 DEF SameWord
      <4> QED BY <1>11, <3>1, <4>1, <4>2
    <3>2. CASE c # b
      <4>1. b = ~c
        BY <3>2
      <4>2. Silent(mail'[h], ~c) /\ Silent(outbox'[h], ~c)
        BY <1>13, <3>2, <4>1
      <4> QED BY <4>2, SilentIsTurned
    <3> QED BY <3>1, <3>2
  <2>2. stage'[h] = "in"
    BY <1>1, <1>3
  <2> QED BY <1>6, <2>1, <2>2 DEF HostTurnsOnce
<1>15. NothingWaitsWhileOff'
  <2> SUFFICES ASSUME ~c, pending # NoViewport
               PROVE  ~moderation.follow /\ Silent(mail'[h], TRUE) /\ Silent(outbox'[h], TRUE)
    BY <1>3, <1>6 DEF NothingWaitsWhileOff
  <2>1. CASE b = TRUE
    <3>1. c # b /\ c = FALSE
      BY <2>1
    <3> QED BY <1>13, <2>1, <3>1
  <2>2. CASE b = FALSE
    <3>1. ~moderation.follow /\ Silent(mail[h], TRUE) /\ Silent(outbox[h], TRUE)
      <4>1. ~Broadcasting
        BY <1>23, <2>2
      <4> QED BY <4>1 DEF FollowInv, NothingWaitsWhileOff
    <3>2. Silent(mail'[h], TRUE) /\ Silent(outbox'[h], TRUE)
      BY <1>9, <1>10, <3>1 DEF SameWord
    <3> QED BY <3>1, <3>2
  <2> QED BY <2>1, <2>2
<1>16. ASSUME c = TRUE, b = FALSE
       PROVE  /\ pending = NoViewport /\ Last(outbox'[h], place[h], place[h])
              /\ ~NoViewportIn(outbox'[h])
  <2>1. ~Silent(mail[h], TRUE)
    BY <1>13, <1>16
  <2>2. pending = NoViewport
    <3>1. ~Broadcasting
      BY <1>16, <1>23
    <3> QED BY <2>1, <3>1 DEF FollowInv, NothingWaitsWhileOff
  <2>3. outbox'[h] = Append(outbox[h], place0)
    BY <1>7, <1>16
  <2>4. Last(Append(outbox[h], place0), place[h], place0.at) /\ ~NoViewportIn(Append(outbox[h], place0))
    BY <1>4, <1>5, LastAppend
  <2> QED BY <1>5, <2>2, <2>3, <2>4
<1>17. HostSentItsPlace'
  <2> SUFFICES ASSUME c = TRUE
               PROVE  IF pending # NoViewport THEN pending = place[h]
                      ELSE Last(outbox'[h], place[h], place[h])
    BY <1>3, <1>6, <1>7 DEF HostSentItsPlace, Last, NoViewportIn
  <2>1. CASE b = TRUE
    <3>1. outbox'[h] = outbox[h]
      BY <1>7, <2>1
    <3> QED BY <1>6, <2>1, <3>1 DEF FollowInv, HostSentItsPlace
  <2>2. CASE b = FALSE
    BY <1>16, <2>2
  <2> QED BY <2>1, <2>2
<1>18. HostIsDone' => HostIsDone
  <2> SUFFICES ASSUME HostIsDone' PROVE HostIsDone
    OBVIOUS
  <2>1. /\ c = TRUE /\ pending = NoViewport /\ Silent(mail'[h], FALSE) /\ Silent(outbox'[h], FALSE)
        /\ NoViewportIn(outbox'[h])
    BY <1>3, <1>6 DEF HostIsDone
  <2>2. b = TRUE
    BY <1>16, <2>1
  <2>3. outbox'[h] = outbox[h] /\ ~Says(m, FALSE)
    BY <1>7, <1>8, <2>1, <2>2
  <2>4. Silent(mail[h], FALSE)
    BY <1>9, <2>1, <2>3
  <2>5. Broadcasting
    BY <1>23, <2>2
  <2>6. Silent(outbox[h], FALSE) /\ NoViewportIn(outbox[h])
    BY <2>1, <2>3
  <2> QED BY <1>1, <2>1, <2>4, <2>5, <2>6 DEF HostIsDone
<1>19. OthersWillSeeIt'
  <2>1. ASSUME NEW q \in Participants, MustSee(q)'
        PROVE  MustSee(q) /\ mail'[q] = mail[q] /\ seen'[q] = seen[q]
    BY <1>3, <1>7, <2>1 DEF MustSee, InRoom
  <2> QED BY <1>7, <1>18, <2>1, SeeAside
<1>20. FollowersAreAtTheLast'
  BY <1>7 DEF FollowInv, FollowersAreAtTheLast, Follows
<1>21. OthersOnlyVote'
  BY <1>7, VotesStay
<1>22. OwedWhileHostIsAway'
  BY <1>1, <1>3 DEF OwedWhileHostIsAway
<1> QED BY <1>14, <1>15, <1>17, <1>19, <1>20, <1>21, <1>22 DEF FollowInv

\* A participant's page receives: it is where the last viewport it received was, while it follows.
LEMMA FollowReceiveOther ==
  ASSUME FacilitationTypes, FollowInv, NEW p \in Participants \ {Moderator}, Receive(p)
  PROVE  FollowInv'
<1> DEFINE m == Head(mail[p])
<1>0. Moderator \in Participants
  BY FacilitationAssumption
<1>1. /\ mail[p] \in Seq(ToPage) /\ mail[p] # << >> /\ m \in ToPage
      /\ mail' = [mail EXCEPT ![p] = Tail(mail[p])] /\ UNCHANGED <<moderation, stage, pending, owed>>
  BY Shortened DEF Receive, FacilitationTypes, roomVars
<1>2. mail'[p] = Tail(mail[p]) /\ \A q \in Participants : q # p => mail'[q] = mail[q]
  BY <1>1 DEF FacilitationTypes
<1>3. /\ outbox' = outbox
      /\ \A q \in Participants : q # p => UNCHANGED <<shownState[q], seen[q], stopped[q], place[q]>>
      /\ seen'[p] = IF m.kind = "viewport" THEN m.at ELSE seen[p]
      /\ Follows(p)' /\ seen'[p] # NoViewport => place'[p] = seen'[p]
  <2>1. CASE m.kind \in {"joined", "moderation"}
    <3> DEFINE new == m.moderation
               on == new.follow /\ ~shownState[p].moderation.follow
               out == stopped[p] /\ new.follow
    <3>1. ShowModeration(p, new) /\ seen' = seen /\ new \in Moderations
      BY <1>1, <2>1, PageMessageFields DEF Receive
    <3>2. shownState'[p].moderation = new /\ \A q \in Participants : q # p => shownState'[q] = shownState[q]
      <4>1. shownState' = [shownState EXCEPT ![p] = shownState'[p]] /\ shownState'[p].moderation = new
        BY <2>1, ReceiveShows DEF Tells
      <4> QED BY <4>1 DEF FacilitationTypes
    <3>3. /\ outbox' = outbox /\ stopped' = [stopped EXCEPT ![p] = out]
          /\ place' = IF on /\ ~out /\ seen[p] # NoViewport THEN [place EXCEPT ![p] = seen[p]] ELSE place
      BY <3>1 DEF ShowModeration
    <3>4. /\ stopped'[p] = out
          /\ place'[p] = IF on /\ ~out /\ seen[p] # NoViewport THEN seen[p] ELSE place[p]
          /\ \A q \in Participants : q # p => stopped'[q] = stopped[q] /\ place'[q] = place[q]
      <4> DEFINE moves == on /\ ~out /\ seen[p] # NoViewport
      <4>1. stopped \in [Participants -> BOOLEAN] /\ place \in [Participants -> Viewports]
        BY DEF FacilitationTypes
      <4>2. place' = IF moves THEN [place EXCEPT ![p] = seen[p]] ELSE place
        BY <3>3
      <4>3. place'[p] = IF moves THEN seen[p] ELSE place[p]
        <5> HIDE DEF moves
        <5> QED BY <4>1, <4>2
      <4>4. \A q \in Participants : q # p => place'[q] = place[q]
        <5> HIDE DEF moves
        <5> QED BY <4>1, <4>2
      <4>5. stopped'[p] = out /\ \A q \in Participants : q # p => stopped'[q] = stopped[q]
        <5>1. stopped' = [stopped EXCEPT ![p] = out]
          BY <3>3
        <5> HIDE DEF out
        <5> QED BY <4>1, <5>1
      <4> QED BY <4>3, <4>4, <4>5
    <3>5. ASSUME Follows(p)', seen'[p] # NoViewport PROVE place'[p] = seen'[p]
      <4>1. new.follow /\ ~out /\ ~stopped[p] /\ seen[p] # NoViewport
        <5>1. shownState'[p].moderation.follow /\ ~stopped'[p] /\ seen[p] # NoViewport
          BY <3>1, <3>5 DEF Follows
        <5>2. new.follow /\ ~out
          BY <3>2, <3>4, <5>1
        <5> QED BY <5>1, <5>2
      <4>2. CASE on
        BY <3>1, <3>4, <4>1, <4>2
      <4>3. CASE ~on
        <5>1. Follows(p) /\ place[p] = seen[p]
          BY <4>1, <4>3 DEF FollowInv, FollowersAreAtTheLast, Follows
        <5> QED BY <3>1, <3>4, <4>3, <5>1
      <4> QED BY <4>2, <4>3
    <3> QED BY <2>1, <3>1, <3>2, <3>3, <3>4, <3>5
  <2>2. CASE m.kind = "votes"
    <3>1. shownState'[p].moderation = shownState[p].moderation
          /\ \A q \in Participants : q # p => shownState'[q] = shownState[q]
      BY <2>2 DEF Receive, FacilitationTypes
    <3>2. UNCHANGED <<stopped, place, outbox, seen>>
      BY <2>2 DEF Receive
    <3>3. Follows(p)' => Follows(p)
      BY <3>1, <3>2 DEF Follows
    <3> QED BY <2>2, <3>1, <3>2, <3>3 DEF FollowInv, FollowersAreAtTheLast
  <2>3. CASE m.kind = "viewport"
    <3>1. ShowViewport(p, m.at)
      BY <2>3 DEF Receive
    <3>2. /\ UNCHANGED <<shownState, stopped, outbox>>
          /\ seen'[p] = m.at /\ (Follows(p) => place'[p] = m.at)
          /\ \A q \in Participants : q # p => seen'[q] = seen[q] /\ place'[q] = place[q]
      BY <3>1 DEF ShowViewport, FacilitationTypes
    <3>3. Follows(p)' => Follows(p)
      BY <3>2 DEF Follows
    <3> QED BY <2>3, <3>2, <3>3
  <2> QED BY <1>1, <2>1, <2>2, <2>3, PageMessageFields
<1>4. UNCHANGED HostVars
  BY <1>0, <1>1, <1>2, <1>3 DEF HostVars, Broadcasting
<1>5. HostTurnsOnce' /\ NothingWaitsWhileOff' /\ HostSentItsPlace' /\ (HostIsDone' => HostIsDone)
  BY <1>4, HostAside
<1>6. OthersWillSeeIt'
  <2>1. ASSUME NEW q \in Participants, MustSee(q)'
        PROVE  /\ MustSee(q)
               /\ Last(mail[q], seen[q], place[Moderator]) => Last(mail'[q], seen'[q], place[Moderator])
    <3>1. MustSee(q)
      BY <1>1, <2>1 DEF MustSee, InRoom
    <3>2. CASE q # p
      BY <1>2, <1>3, <3>1, <3>2
    <3>3. CASE q = p
      <4> HIDE DEF FacilitationTypes
      <4>1. Last(mail[p], seen[p], place[Moderator])
              => Last(Tail(mail[p]), IF m.kind = "viewport" THEN m.at ELSE seen[p], place[Moderator])
        BY <1>1, LastTail
      <4> QED BY <1>2, <1>3, <3>1, <3>3, <4>1
    <3> QED BY <3>2, <3>3
  <2> QED BY <1>4, <1>5, <2>1, SeeAside DEF HostVars
<1>7. FollowersAreAtTheLast'
  <2>1. \A q \in Participants \ {Moderator} : q # p /\ Follows(q)' => Follows(q)
    BY <1>3 DEF Follows
  <2>2. \A q \in Participants \ {Moderator} : Follows(q)' /\ seen'[q] # NoViewport => place'[q] = seen'[q]
    BY <1>3, <2>1 DEF FollowInv, FollowersAreAtTheLast
  <2> QED BY <2>2 DEF FollowersAreAtTheLast
<1>8. OthersOnlyVote' /\ OwedWhileHostIsAway'
  BY <1>1, <1>3 DEF FollowInv, OthersOnlyVote, OwedWhileHostIsAway
<1> QED BY <1>5, <1>6, <1>7, <1>8 DEF FollowInv

-----------------------------------------------------------------------------
(* The pages act.                                                          *)

LEMMA FollowToggle ==
  ASSUME FacilitationTypes, FollowInv, NEW p \in Participants, ToggleFollow(p)
  PROVE  FollowInv'
<1>0. Moderator \in Participants
  BY FacilitationAssumption
<1>1. /\ p # Moderator /\ UNCHANGED <<moderation, stage, mail, outbox, shownState, seen, pending, owed>>
      /\ stopped' = [stopped EXCEPT ![p] = ~stopped[p]]
      /\ place' = IF stopped[p] /\ seen[p] # NoViewport THEN [place EXCEPT ![p] = seen[p]] ELSE place
  BY DEF ToggleFollow, roomVars, mailVars
<1>2. /\ stopped'[p] = ~stopped[p]
      /\ stopped[p] /\ seen[p] # NoViewport => place'[p] = seen[p]
      /\ \A q \in Participants : q # p => stopped'[q] = stopped[q] /\ place'[q] = place[q]
  BY <1>1 DEF FacilitationTypes
<1>3. UNCHANGED HostVars
  BY <1>0, <1>1, <1>2 DEF HostVars, Broadcasting
<1>4. HostTurnsOnce' /\ NothingWaitsWhileOff' /\ HostSentItsPlace' /\ (HostIsDone' => HostIsDone)
  BY <1>3, HostAside
<1>5. OthersWillSeeIt'
  <2>1. ASSUME NEW q \in Participants, MustSee(q)'
        PROVE  MustSee(q) /\ mail'[q] = mail[q] /\ seen'[q] = seen[q]
    BY <1>1, <2>1 DEF MustSee, InRoom
  <2> QED BY <1>3, <1>4, <2>1, SeeAside DEF HostVars
<1>6. FollowersAreAtTheLast'
  <2> SUFFICES ASSUME NEW q \in Participants \ {Moderator}, Follows(q)', seen'[q] # NoViewport
               PROVE  place'[q] = seen'[q]
    BY DEF FollowersAreAtTheLast
  <2>1. shownState[q].moderation.follow /\ ~stopped'[q] /\ seen[q] # NoViewport /\ seen' = seen
    BY <1>1 DEF Follows
  <2>2. CASE q = p
    BY <1>2, <2>1, <2>2
  <2>3. CASE q # p
    <3>1. Follows(q)
      BY <1>2, <2>1, <2>3 DEF Follows
    <3> QED BY <1>2, <2>1, <2>3, <3>1 DEF FollowInv, FollowersAreAtTheLast
  <2> QED BY <2>2, <2>3
<1>7. OthersOnlyVote' /\ OwedWhileHostIsAway'
  BY <1>1 DEF FollowInv, OthersOnlyVote, OwedWhileHostIsAway
<1> QED BY <1>4, <1>5, <1>6, <1>7 DEF FollowInv

LEMMA FollowVote ==
  ASSUME FacilitationTypes, FollowInv, NEW p \in Participants, NEW e \in Votable, Vote(p, e)
  PROVE  FollowInv'
<1> DEFINE m == [kind |-> "vote", element |-> e]
<1>0. Moderator \in Participants
  BY FacilitationAssumption
<1>1. m \in ToServer /\ m.kind = "vote" /\ ~Says(m, TRUE) /\ ~Says(m, FALSE)
  BY ServerMessages DEF Says
<1>2. UNCHANGED <<moderation, stage, mail, shownVars, owed>>
      /\ outbox' = [outbox EXCEPT ![p] = Append(outbox[p], m)]
  BY DEF Vote, Emit, roomVars
<1> HIDE DEF m
<1>3. /\ outbox[p] \in Seq(ToServer) /\ outbox'[p] = Append(outbox[p], m)
      /\ \A q \in Participants : q # p => outbox'[q] = outbox[q]
  BY <1>2 DEF FacilitationTypes
<1>4. /\ SameWord(outbox[Moderator], outbox'[Moderator])
      /\ NoViewportIn(outbox'[Moderator]) => NoViewportIn(outbox[Moderator])
      /\ Last(outbox[Moderator], place[Moderator], place[Moderator])
           => Last(outbox'[Moderator], place[Moderator], place[Moderator])
  <2>1. CASE p # Moderator
    BY <1>0, <1>3, <2>1 DEF SameWord
  <2>2. CASE p = Moderator
    BY <1>1, <1>3, <2>2, SameWordAppend, LastAppend
  <2> QED BY <2>1, <2>2
<1>5. Broadcasting \in BOOLEAN /\ SameWord(mail[Moderator], mail'[Moderator])
  BY <1>0, <1>2 DEF Broadcasting, FacilitationTypes, Moderations, SameWord
<1>6. HostTurnsOnce' /\ NothingWaitsWhileOff' /\ HostSentItsPlace' /\ (HostIsDone' => HostIsDone)
  BY <1>2, <1>4, <1>5, HostQueuesStay DEF Broadcasting, shownVars
<1>7. OthersWillSeeIt'
  <2>1. ASSUME NEW q \in Participants, MustSee(q)'
        PROVE  MustSee(q) /\ mail'[q] = mail[q] /\ seen'[q] = seen[q]
    BY <1>2, <2>1 DEF MustSee, InRoom, shownVars
  <2> QED BY <1>2, <1>6, <2>1, SeeAside DEF shownVars
<1>8. FollowersAreAtTheLast' /\ OwedWhileHostIsAway'
  BY <1>2 DEF FollowInv, FollowersAreAtTheLast, OwedWhileHostIsAway, Follows, shownVars
<1>9. OthersOnlyVote'
  <2> SUFFICES ASSUME NEW q \in Participants \ {Moderator}, NEW i \in DOMAIN outbox'[q]
               PROVE  outbox'[q][i].kind = "vote"
    BY DEF OthersOnlyVote
  <2>1. \A j \in DOMAIN outbox[q] : outbox[q][j].kind = "vote"
    BY DEF FollowInv, OthersOnlyVote
  <2>2. CASE q # p
    BY <1>3, <2>1, <2>2
  <2>3. CASE q = p
    <3>1. /\ DOMAIN Append(outbox[p], m) = 1..(Len(outbox[p]) + 1)
          /\ DOMAIN outbox[p] = 1..Len(outbox[p]) /\ Len(outbox[p]) \in Nat
          /\ \A j \in 1..Len(outbox[p]) : Append(outbox[p], m)[j] = outbox[p][j]
          /\ Append(outbox[p], m)[Len(outbox[p]) + 1] = m
      BY <1>1, <1>3, Appended
    <3>2. (i \in DOMAIN outbox[p] /\ outbox'[p][i] = outbox[p][i]) \/ outbox'[p][i] = m
      BY <1>3, <2>3, <3>1
    <3> QED BY <1>1, <2>1, <2>3, <3>2
  <2> QED BY <2>2, <2>3
<1> QED BY <1>6, <1>7, <1>8, <1>9 DEF FollowInv

\* The host asks for a change: for the opposite of what it shows of following.
LEMMA FollowModerate ==
  ASSUME FacilitationTypes, FollowInv, NEW c \in Changes, Moderate(c)
  PROVE  FollowInv'
<1> DEFINE h == Moderator
           m == [kind |-> "moderate", change |-> c]
<1>0. h \in Participants
  BY FacilitationAssumption
<1>1. m \in ToServer /\ m.kind = "moderate"
      /\ \A x \in BOOLEAN : Says(m, x) <=> c.field = "follow" /\ c.to = x
  BY ServerMessages DEF Says
<1>2. UNCHANGED <<moderation, stage, mail, shownVars, owed>>
      /\ outbox' = [outbox EXCEPT ![h] = Append(outbox[h], m)]
  BY DEF Moderate, Emit, roomVars
<1>3. PICK b \in BOOLEAN : b = Broadcasting
  BY <1>0 DEF Broadcasting, FacilitationTypes, Moderations
<1>4. Broadcasting' = b
  BY <1>2, <1>3 DEF Broadcasting, shownVars
<1>5. c.field = "follow" => c.to = ~b /\ (c.to => pending = NoViewport)
  BY <1>3 DEF Moderate, Broadcasting
<1> HIDE DEF m
<1>6. /\ outbox[h] \in Seq(ToServer) /\ outbox'[h] = Append(outbox[h], m)
      /\ \A q \in Participants : q # h => outbox'[q] = outbox[q]
  BY <1>0, <1>2 DEF FacilitationTypes
<1>7. ~Says(m, b)
  BY <1>1, <1>5
<1>8. HostTurnsOnce'
  <2>1. /\ Turned(mail[h], b) /\ Turned(outbox[h], b)
        /\ Silent(mail[h], ~b) \/ Silent(outbox[h], b)
        /\ stage[h] # "in" => Silent(outbox[h], b)
    BY <1>3 DEF FollowInv, HostTurnsOnce
  <2>2. Turned(outbox'[h], b) /\ (Silent(outbox[h], b) => Silent(outbox'[h], b))
    BY <1>1, <1>6, <1>7, <2>1, TurnedAppend, SilentAppend
  <2> QED BY <1>2, <1>4, <2>1, <2>2 DEF HostTurnsOnce
<1>9. NothingWaitsWhileOff'
  <2> SUFFICES ASSUME ~b, pending # NoViewport
               PROVE  ~moderation.follow /\ Silent(mail[h], TRUE) /\ Silent(outbox'[h], TRUE)
    BY <1>2, <1>4 DEF NothingWaitsWhileOff, shownVars
  <2>1. ~moderation.follow /\ Silent(mail[h], TRUE) /\ Silent(outbox[h], TRUE)
    BY <1>3 DEF FollowInv, NothingWaitsWhileOff
  <2>2. ~Says(m, TRUE)
    BY <1>1, <1>5
  <2>3. Silent(outbox'[h], TRUE)
    BY <1>1, <1>6, <2>1, <2>2, SilentAppend
  <2> QED BY <2>1, <2>3
<1>10. /\ Last(outbox[h], place[h], place[h]) => Last(outbox'[h], place[h], place[h])
       /\ NoViewportIn(outbox'[h]) => NoViewportIn(outbox[h])
  BY <1>1, <1>6, LastAppend
<1>11. HostSentItsPlace'
  BY <1>2, <1>10 DEF FollowInv, HostSentItsPlace, Broadcasting, shownVars
<1>12. HostIsDone' => HostIsDone
  <2>1. ASSUME NEW x \in BOOLEAN PROVE Silent(outbox'[h], x) => Silent(outbox[h], x)
    BY <1>1, <1>6, SilentAppend
  <2> QED BY <1>2, <1>10, <2>1 DEF HostIsDone, Broadcasting, shownVars
<1>13. OthersWillSeeIt'
  <2>1. ASSUME NEW q \in Participants, MustSee(q)'
        PROVE  MustSee(q) /\ mail'[q] = mail[q] /\ seen'[q] = seen[q]
    BY <1>2, <2>1 DEF MustSee, InRoom, shownVars
  <2> QED BY <1>2, <1>12, <2>1, SeeAside DEF shownVars
<1>14. FollowersAreAtTheLast' /\ OwedWhileHostIsAway'
  BY <1>2 DEF FollowInv, FollowersAreAtTheLast, OwedWhileHostIsAway, Follows, shownVars
<1>15. OthersOnlyVote'
  BY <1>6, VotesStay
<1> QED BY <1>8, <1>9, <1>11, <1>13, <1>14, <1>15 DEF FollowInv

\* The host scrolls: while it is followed, where to waits for the throttle.
LEMMA FollowScroll ==
  ASSUME FacilitationTypes, FollowInv, NEW v \in Viewports, Scroll(v)
  PROVE  FollowInv'
<1>0. Moderator \in Participants /\ v # NoViewport
  BY FacilitationAssumption
<1>1. /\ UNCHANGED <<moderation, stage, mail, outbox, shownState, seen, stopped, owed>>
      /\ place'[Moderator] = v /\ \A q \in Participants : q # Moderator => place'[q] = place[q]
      /\ pending' = IF Broadcasting THEN v ELSE pending
  BY <1>0 DEF Scroll, roomVars, mailVars, FacilitationTypes
<1>2. Broadcasting' = Broadcasting
  BY <1>1 DEF Broadcasting
<1>3. HostTurnsOnce'
  BY <1>1, <1>2 DEF FollowInv, HostTurnsOnce
<1>4. NothingWaitsWhileOff' /\ HostSentItsPlace'
  BY <1>0, <1>1, <1>2 DEF FollowInv, NothingWaitsWhileOff, HostSentItsPlace
<1>5. ~HostIsDone'
  BY <1>0, <1>1, <1>2 DEF HostIsDone
<1>6. OthersWillSeeIt'
  BY <1>5 DEF OthersWillSeeIt
<1>7. FollowersAreAtTheLast' /\ OthersOnlyVote' /\ OwedWhileHostIsAway'
  BY <1>1 DEF FollowInv, FollowersAreAtTheLast, OthersOnlyVote, OwedWhileHostIsAway, Follows
<1> QED BY <1>3, <1>4, <1>6, <1>7 DEF FollowInv

\* The throttle sends what waited for it, or drops it.
LEMMA FollowFlush ==
  ASSUME FacilitationTypes, OutIsSilent, FollowInv, Flush
  PROVE  FollowInv'
<1> DEFINE h == Moderator
           m == [kind |-> "viewport", at |-> pending]
<1>0. h \in Participants
  BY FacilitationAssumption
<1>1. /\ UNCHANGED <<moderation, stage, mail, shownState, seen, stopped, place, owed>>
      /\ pending # NoViewport /\ pending' = NoViewport
      /\ IF Broadcasting /\ stage[h] # "out" THEN Emit(h, m) ELSE outbox' = outbox
  BY DEF Flush, roomVars
<1>2. m \in ToServer /\ m.kind = "viewport" /\ m.at = pending /\ ~Says(m, TRUE) /\ ~Says(m, FALSE)
  BY <1>1, ServerMessages DEF Says, FacilitationTypes
<1> HIDE DEF m
<1>3. outbox[h] \in Seq(ToServer) /\ \A q \in Participants : q # h => outbox'[q] = outbox[q]
  BY <1>0, <1>1 DEF Emit, FacilitationTypes
<1>4. outbox'[h] = IF Broadcasting /\ stage[h] # "out" THEN Append(outbox[h], m) ELSE outbox[h]
  BY <1>0, <1>1 DEF Emit, FacilitationTypes
<1>5. SameWord(outbox[h], outbox'[h])
  <2>1. SameWord(outbox[h], outbox[h]) /\ SameWord(outbox[h], Append(outbox[h], m))
    BY <1>2, <1>3, SameWordAppend DEF SameWord
  <2> QED BY <1>4, <2>1
<1>6. Broadcasting' = Broadcasting
  BY <1>1 DEF Broadcasting
<1>7. HostTurnsOnce'
  <2>1. PICK b \in BOOLEAN : b = Broadcasting
    BY <1>0 DEF Broadcasting, FacilitationTypes, Moderations
  <2>2. /\ Turned(mail[h], b) /\ Turned(outbox[h], b)
        /\ Silent(mail[h], ~b) \/ Silent(outbox[h], b)
        /\ stage[h] # "in" => Silent(outbox[h], b)
    BY <2>1 DEF FollowInv, HostTurnsOnce
  <2>3. Turned(outbox'[h], b) /\ (Silent(outbox[h], b) => Silent(outbox'[h], b))
    BY <1>5, <2>2 DEF SameWord
  <2> QED BY <1>1, <1>6, <2>1, <2>2, <2>3 DEF HostTurnsOnce
<1>8. NothingWaitsWhileOff'
  BY <1>1 DEF NothingWaitsWhileOff
<1>9. ASSUME Broadcasting /\ stage[h] # "out" PROVE HostSentItsPlace' /\ ~HostIsDone'
  <2>1. Last(outbox'[h], place[h], pending) /\ ~NoViewportIn(outbox'[h])
    BY <1>2, <1>3, <1>4, <1>9, LastAppend
  <2>2. pending = place[h]
    BY <1>1, <1>9 DEF FollowInv, HostSentItsPlace
  <2> QED BY <1>1, <1>6, <2>1, <2>2 DEF HostSentItsPlace, HostIsDone, Last, NoViewportIn
<1>10. ASSUME Broadcasting /\ stage[h] = "out" PROVE HostSentItsPlace' /\ ~HostIsDone'
  <2>1. outbox'[h] = << >>
    BY <1>0, <1>4, <1>10 DEF OutIsSilent
  <2>2. Last(outbox'[h], place[h], place[h])
    BY <2>1, EmptyQueue
  <2> HIDE DEF Last
  <2> QED BY <1>1, <1>10, <2>2 DEF HostSentItsPlace, HostIsDone, Last, NoViewportIn
<1>11. ASSUME ~Broadcasting PROVE HostSentItsPlace' /\ ~HostIsDone'
  BY <1>6, <1>11 DEF HostSentItsPlace, HostIsDone
<1>12. HostSentItsPlace' /\ ~HostIsDone'
  <2>1. stage[h] = "out" \/ stage[h] # "out"
    OBVIOUS
  <2> QED BY <1>9, <1>10, <1>11, <2>1
<1>13. OthersWillSeeIt'
  BY <1>12 DEF OthersWillSeeIt
<1>14. FollowersAreAtTheLast' /\ OwedWhileHostIsAway'
  BY <1>1 DEF FollowInv, FollowersAreAtTheLast, OwedWhileHostIsAway, Follows
<1>15. OthersOnlyVote'
  BY <1>3, VotesStay
<1> QED BY <1>7, <1>8, <1>12, <1>13, <1>14, <1>15 DEF FollowInv

-----------------------------------------------------------------------------
(* Who follows sees what the host sees.                                    *)

LEMMA FollowInit == FacilitationInit => FollowInv
<1> SUFFICES ASSUME FacilitationInit PROVE FollowInv
  OBVIOUS
<1>1. Moderator \in Participants
  BY FacilitationAssumption
<1>2. \A p \in Participants : mail[p] = << >> /\ outbox[p] = << >> /\ seen[p] = NoViewport
  BY DEF FacilitationInit
<1>3. ~Broadcasting /\ pending = NoViewport /\ stage[Moderator] = "out" /\ owed = Participants
  BY <1>1 DEF FacilitationInit, Broadcasting, DefaultModeration
<1>4. HostTurnsOnce
  BY <1>1, <1>2, EmptyQueue DEF HostTurnsOnce
<1>5. NothingWaitsWhileOff /\ HostSentItsPlace /\ OthersWillSeeIt /\ OwedWhileHostIsAway
  BY <1>3 DEF NothingWaitsWhileOff, HostSentItsPlace, OthersWillSeeIt, HostIsDone, OwedWhileHostIsAway
<1>6. FollowersAreAtTheLast /\ OthersOnlyVote
  BY <1>2 DEF FollowersAreAtTheLast, OthersOnlyVote
<1> QED BY <1>4, <1>5, <1>6 DEF FollowInv

LEMMA FollowServe ==
  ASSUME IInv, FollowInv, NEW p \in Participants, Serve(p)
  PROVE  FollowInv'
<1>1. FacilitationTypes /\ OutIsSilent /\ RoomShowsFacilitation
  BY DEF IInv
<1>2. Head(outbox[p]) \in ToServer /\ outbox[p] # << >> /\ outbox[p] \in Seq(ToServer)
  BY <1>1, Shortened DEF FacilitationTypes, Serve
<1>3. stage[p] \in {"joining", "in"}
  BY <1>1 DEF FacilitationTypes, OutIsSilent, Serve
<1>4. CASE p # Moderator
  <2>1. 1 \in DOMAIN outbox[p] /\ Head(outbox[p]) = outbox[p][1]
    BY <1>2, Shortened
  <2>2. Head(outbox[p]).kind = "vote"
    BY <1>4, <2>1 DEF FollowInv, OthersOnlyVote
  <2> QED BY <1>1, <2>2, FollowServeVote
<1>5. CASE p = Moderator
  <2>1. CASE stage[p] = "joining"
    BY <1>1, <1>5, <2>1, FollowServeJoining
  <2>2. CASE stage[p] = "in"
    BY <1>1, <1>2, <1>5, <2>2, ServerMessageFields, FollowServeVote, FollowServeModerate, FollowServeViewport
  <2> QED BY <1>3, <2>1, <2>2
<1> QED BY <1>4, <1>5

LEMMA FollowStep == IInv /\ FollowInv /\ [FacilitationNext]_facilitationVars => FollowInv'
<1> SUFFICES ASSUME IInv, FollowInv, [FacilitationNext]_facilitationVars PROVE FollowInv'
  OBVIOUS
<1>1. FacilitationTypes /\ OutIsSilent /\ RoomShowsFacilitation
  BY DEF IInv
<1>2. CASE UNCHANGED facilitationVars
  <2>1. UNCHANGED <<moderation, stage, shownState, seen, stopped, place, pending, mail, outbox, owed>>
    BY <1>2 DEF facilitationVars, roomVars, shownVars, mailVars
  <2>2. UNCHANGED HostVars
    BY <2>1 DEF HostVars, Broadcasting
  <2>3. HostTurnsOnce' /\ NothingWaitsWhileOff' /\ HostSentItsPlace' /\ (HostIsDone' => HostIsDone)
    BY <2>2, HostAside
  <2>4. OthersWillSeeIt'
    BY <2>1, <2>3, SeeAside DEF MustSee, InRoom
  <2>5. FollowersAreAtTheLast' /\ OthersOnlyVote' /\ OwedWhileHostIsAway'
    BY <2>1 DEF FollowInv, FollowersAreAtTheLast, Follows, OthersOnlyVote, OwedWhileHostIsAway
  <2> QED BY <2>3, <2>4, <2>5 DEF FollowInv
<1>3. CASE FacilitationNext
  <2>1. PICK p \in Participants : Connects(p) \/ Serve(p) \/ Receive(p) \/ Acts(p)
    BY <1>3, StepOfAPage
  <2>2. CASE Connects(p)
    BY <1>1, <2>2, FollowConnections, FollowHostConnects, FollowHostJoins DEF Connects
  <2>3. CASE Serve(p)
    BY <2>3, FollowServe
  <2>4. CASE Receive(p)
    BY <1>1, <2>4, FollowReceiveHost, FollowReceiveOther
  <2>5. CASE Acts(p)
    BY <1>1, <2>5, FollowToggle, FollowVote, FollowModerate, FollowScroll, FollowFlush DEF Acts
  <2> QED BY <2>1, <2>2, <2>3, <2>4, <2>5
<1> QED BY <1>2, <1>3

LEMMA FollowersSee == IInv /\ FollowInv => FollowersSeeModerator
<1> SUFFICES ASSUME IInv, FollowInv, moderation.follow, Moderator \in InRoom, pending = NoViewport,
                    \A q \in InRoom : mail[q] = << >> /\ outbox[q] = << >>,
                    NEW p \in InRoom \ (owed \cup {Moderator}), Follows(p)
             PROVE  place[p] = place[Moderator]
  BY DEF FollowersSeeModerator
<1>1. FacilitationTypes /\ Told(Moderator) /\ Moderator \in Participants /\ p \in Participants
  BY RoomShowsAsTold DEF IInv, InRoom
<1>2. Broadcasting
  <2>1. Shows(<< >>, shownState[Moderator].moderation, "moderation", moderation)
    BY <1>1 DEF Told
  <2>2. shownState[Moderator].moderation = moderation
    BY <2>1 DEF Shows
  <2> QED BY <2>2 DEF Broadcasting
<1>3. HostIsDone
  BY <1>2, EmptyQueue DEF HostIsDone, InRoom
<1>4. Last(<< >>, seen[p], place[Moderator])
  BY <1>1, <1>3 DEF FollowInv, OthersWillSeeIt, MustSee
<1>5. seen[p] = place[Moderator]
  BY <1>4 DEF Last
<1>6. seen[p] # NoViewport
  BY <1>1, <1>5, FacilitationAssumption DEF FacilitationTypes
<1> QED BY <1>1, <1>5, <1>6 DEF FollowInv, FollowersAreAtTheLast

\* While everyone follows the host and nothing is on its way or waits for the
\* throttle, every participant that follows and has been told a viewport since
\* it joined, and since the host joined, is where the host is: after any
\* interleaving of switching "follow me" off and on again, of scrolling, of
\* opting out and resuming, and of connections that are lost.
THEOREM FollowersSeeTheModerator == FacilitationSpec => []FollowersSeeModerator
<1>1. FacilitationInit => FollowInv
  BY FollowInit
<1>2. IInv /\ FollowInv /\ [FacilitationNext]_facilitationVars => FollowInv'
  BY FollowStep
<1>3. IInv /\ FollowInv => FollowersSeeModerator
  BY FollowersSee
<1>4. FacilitationSpec => []IInv
  BY IInvHolds
<1> QED BY <1>1, <1>2, <1>3, <1>4, PTL DEF FacilitationSpec

-----------------------------------------------------------------------------
(* The order of the writes to one element: their paths, the longer one of  *)
(* two that agree first, else by the first client id they differ in.       *)

Paths == Seq(Nat)
Agree(p, q, n) == \A i \in 1 .. n : p[i] = q[i]
Ahead(p, q) ==
  \/ Len(p) > Len(q) /\ Agree(p, q, Len(q))
  \/ \E i \in 1 .. Len(p) : i <= Len(q) /\ p[i] > q[i] /\ Agree(p, q, i - 1)

LEMMA SamePrefix ==
  ASSUME NEW p \in Paths, NEW q \in Paths, NEW n \in Nat, n <= Len(p), n <= Len(q)
  PROVE  SubSeq(p, 1, n) = SubSeq(q, 1, n) <=> Agree(p, q, n)
<1>1. /\ SubSeq(p, 1, n) \in Seq(Nat) /\ Len(SubSeq(p, 1, n)) = n
      /\ \A i \in 1 .. n : SubSeq(p, 1, n)[i] = p[i]
  BY DEF Paths
<1>2. /\ SubSeq(q, 1, n) \in Seq(Nat) /\ Len(SubSeq(q, 1, n)) = n
      /\ \A i \in 1 .. n : SubSeq(q, 1, n)[i] = q[i]
  BY DEF Paths
<1>3. ASSUME SubSeq(p, 1, n) = SubSeq(q, 1, n) PROVE Agree(p, q, n)
  BY <1>1, <1>2, <1>3 DEF Agree
<1>4. ASSUME Agree(p, q, n) PROVE SubSeq(p, 1, n) = SubSeq(q, 1, n)
  BY <1>1, <1>2, <1>4, SeqEqual DEF Agree
<1> QED BY <1>3, <1>4

LEMMA BehindIsAhead ==
  ASSUME NEW p \in Paths, NEW q \in Paths
  PROVE  Behind(p, q) <=> Ahead(p, q)
<1>1. Len(p) \in Nat /\ Len(q) \in Nat
  BY DEF Paths
<1>2. Len(p) > Len(q) => (SubSeq(p, 1, Len(q)) = q <=> Agree(p, q, Len(q)))
  <2>1. SubSeq(q, 1, Len(q)) = q
    BY SubSeqFull DEF Paths
  <2>2. Len(p) > Len(q) => (SubSeq(p, 1, Len(q)) = SubSeq(q, 1, Len(q)) <=> Agree(p, q, Len(q)))
    BY <1>1, SamePrefix
  <2> QED BY <2>1, <2>2
<1>3. ASSUME NEW i \in 1 .. Len(p), i <= Len(q)
      PROVE  SubSeq(p, 1, i - 1) = SubSeq(q, 1, i - 1) <=> Agree(p, q, i - 1)
  BY <1>1, <1>3, SamePrefix
<1> QED BY <1>2, <1>3 DEF Behind, Ahead

\* It is an order, and a write that goes behind another one is ahead of it.
LEMMA AheadIrreflexive ==
  ASSUME NEW p \in Paths
  PROVE  ~Ahead(p, p)
  BY DEF Ahead, Paths

LEMMA AheadTransitive ==
  ASSUME NEW p \in Paths, NEW q \in Paths, NEW r \in Paths, Ahead(p, q), Ahead(q, r)
  PROVE  Ahead(p, r)
<1>1. /\ Len(p) \in Nat /\ Len(q) \in Nat /\ Len(r) \in Nat
      /\ \A i \in 1 .. Len(p) : p[i] \in Nat
      /\ \A i \in 1 .. Len(q) : q[i] \in Nat
      /\ \A i \in 1 .. Len(r) : r[i] \in Nat
  BY DEF Paths
<1>2. CASE /\ Len(p) > Len(q) /\ Agree(p, q, Len(q))
           /\ Len(q) > Len(r) /\ Agree(q, r, Len(r))
  <2>1. Agree(p, r, Len(r))
    BY <1>1, <1>2 DEF Agree
  <2> QED BY <1>1, <1>2, <2>1 DEF Ahead
<1>3. ASSUME Len(p) > Len(q), Agree(p, q, Len(q)),
             NEW j \in 1 .. Len(q), j <= Len(r), q[j] > r[j], Agree(q, r, j - 1)
      PROVE  Ahead(p, r)
  <2>1. j \in 1 .. Len(p) /\ p[j] > r[j] /\ Agree(p, r, j - 1)
    BY <1>1, <1>3 DEF Agree
  <2> QED BY <1>3, <2>1 DEF Ahead
<1>4. ASSUME NEW i \in 1 .. Len(p), i <= Len(q), p[i] > q[i], Agree(p, q, i - 1),
             Len(q) > Len(r), Agree(q, r, Len(r))
      PROVE  Ahead(p, r)
  <2>1. CASE i <= Len(r)
    <3>1. p[i] > r[i] /\ Agree(p, r, i - 1)
      BY <1>1, <1>4, <2>1 DEF Agree
    <3> QED BY <2>1, <3>1 DEF Ahead
  <2>2. CASE i > Len(r)
    <3>1. Len(p) > Len(r) /\ Agree(p, r, Len(r))
      BY <1>1, <1>4, <2>2 DEF Agree
    <3> QED BY <3>1 DEF Ahead
  <2> QED BY <1>1, <2>1, <2>2
<1>5. ASSUME NEW i \in 1 .. Len(p), i <= Len(q), p[i] > q[i], Agree(p, q, i - 1),
             NEW j \in 1 .. Len(q), j <= Len(r), q[j] > r[j], Agree(q, r, j - 1)
      PROVE  Ahead(p, r)
  <2>1. CASE i <= j
    <3>1. i <= Len(r) /\ p[i] > r[i] /\ Agree(p, r, i - 1)
      BY <1>1, <1>5, <2>1 DEF Agree
    <3> QED BY <3>1 DEF Ahead
  <2>2. CASE j < i
    <3>1. j \in 1 .. Len(p) /\ p[j] > r[j] /\ Agree(p, r, j - 1)
      BY <1>1, <1>5, <2>2 DEF Agree
    <3> QED BY <1>5, <3>1 DEF Ahead
  <2> QED BY <2>1, <2>2
<1> QED BY <1>2, <1>3, <1>4, <1>5 DEF Ahead

\* Every nonempty set of numbers has a smallest one.
LEMMA SmallestNumber ==
  ASSUME NEW S \in SUBSET Nat, S # {}
  PROVE  \E n \in S : \A m \in S : n <= m
<1>1. \A x, y \in Nat : y < x => <<y, x>> \in OpToRel(<, Nat)
  BY DEF OpToRel
<1>2. PICK R : IsWellFoundedOn(R, Nat) /\ \A x, y \in Nat : y < x => <<y, x>> \in R
  BY <1>1, NatLessThanWellFounded, Zenon
<1>3. PICK x \in S : \A y \in S : ~(<<y, x>> \in R)
  BY <1>2, WFMin
<1>4. ASSUME NEW y \in S PROVE x <= y
  <2>1. x \in Nat /\ y \in Nat /\ ~(y < x)
    BY <1>2, <1>3
  <2> QED BY <2>1
<1> QED BY <1>4

LEMMA AheadTotal ==
  ASSUME NEW p \in Paths, NEW q \in Paths, p # q
  PROVE  Ahead(p, q) \/ Ahead(q, p)
<1>1. /\ Len(p) \in Nat /\ Len(q) \in Nat
      /\ \A i \in 1 .. Len(p) : p[i] \in Nat
      /\ \A i \in 1 .. Len(q) : q[i] \in Nat
  BY DEF Paths
<1> DEFINE D == {i \in 1 .. Len(p) : i <= Len(q) /\ p[i] # q[i]}
<1>2. CASE D = {}
  <2>1. \A i \in 1 .. Len(p) : i <= Len(q) => p[i] = q[i]
    BY <1>2
  <2>2. CASE Len(p) > Len(q)
    BY <1>1, <2>1, <2>2 DEF Ahead, Agree
  <2>3. CASE Len(q) > Len(p)
    BY <1>1, <2>1, <2>3 DEF Ahead, Agree
  <2>4. CASE Len(p) = Len(q)
    BY <1>1, <2>1, <2>4, SeqEqual DEF Paths
  <2> QED BY <1>1, <2>2, <2>3, <2>4
<1>3. CASE D # {}
  <2>1. PICK n \in D : \A m \in D : n <= m
    <3>1. D \in SUBSET Nat
      BY <1>1
    <3> HIDE DEF D
    <3> QED BY <1>3, <3>1, SmallestNumber
  <2>2. n \in 1 .. Len(p) /\ n <= Len(q) /\ n \in 1 .. Len(q) /\ p[n] # q[n]
    BY <1>1, <2>1
  <2>3. \A i \in 1 .. n - 1 : p[i] = q[i]
    BY <1>1, <2>1, <2>2
  <2>4. p[n] > q[n] \/ q[n] > p[n]
    BY <1>1, <2>2
  <2> HIDE DEF D
  <2>5. Agree(p, q, n - 1) /\ Agree(q, p, n - 1)
    BY <2>3 DEF Agree
  <2> QED BY <1>1, <2>2, <2>4, <2>5 DEF Ahead
<1> QED BY <1>2, <1>3

LEMMA AppendedAhead ==
  ASSUME NEW p \in Paths, NEW n \in Nat
  PROVE  Append(p, n) \in Paths /\ Append(p, n) # <<>> /\ Ahead(Append(p, n), p)
         /\ Append(p, n)[Len(Append(p, n))] = n
<1>1. /\ Append(p, n) \in Paths /\ Append(p, n) # <<>> /\ Len(Append(p, n)) = Len(p) + 1
      /\ \A i \in 1 .. Len(p) : Append(p, n)[i] = p[i]
      /\ Append(p, n)[Len(p) + 1] = n /\ Len(p) \in Nat
  BY AppendProperties DEF Paths
<1>2. Agree(Append(p, n), p, Len(p))
  BY <1>1 DEF Agree
<1> QED BY <1>1, <1>2 DEF Ahead

-----------------------------------------------------------------------------
(* The document.                                                           *)

Write == [el: Elements, at: Nat \X Nat, path: Paths]
ElementsOf(doc) == {w.el : w \in doc}
DistinctPaths(doc) == \A v, w \in doc : v.el = w.el /\ v.path = w.path => v = w
Document(doc) == doc \subseteq Write /\ IsFiniteSet(doc) /\ DistinctPaths(doc)
Covers(doc) == doc # {} => Board \subseteq ElementsOf(doc)
Dominates(doc, e, w) ==
  w \in WritesTo(doc, e) /\ \A o \in WritesTo(doc, e) \ {w} : Behind(w.path, o.path)

IsCanvas(s) ==
  /\ IsFiniteSet(DOMAIN s) /\ Board \subseteq DOMAIN s /\ DOMAIN s \subseteq Elements
  /\ \A e \in DOMAIN s : s[e] \in Nat \X Nat

LEMMA DominatorIsWinner ==
  ASSUME NEW doc \in SUBSET Write, NEW e, NEW w, Dominates(doc, e, w)
  PROVE  Winner(doc, e) = w
<1> DEFINE v == Winner(doc, e)
<1>1. Dominates(doc, e, v)
  BY DEF Dominates, Winner
<1> HIDE DEF v
<1>2. v \in doc /\ w \in doc /\ v.path \in Paths /\ w.path \in Paths
  BY <1>1 DEF Dominates, WritesTo, Write
<1>3. ASSUME v # w PROVE FALSE
  <2>1. Behind(v.path, w.path) /\ Behind(w.path, v.path)
    BY <1>1, <1>3 DEF Dominates
  <2>2. Ahead(v.path, w.path) /\ Ahead(w.path, v.path)
    BY <1>2, <2>1, BehindIsAhead
  <2> QED BY <1>2, <2>2, AheadTransitive, AheadIrreflexive
<1> QED BY <1>3 DEF v

\* The write that the fewest are ahead of has none ahead of it.
LEMMA DominatorExists ==
  ASSUME NEW doc, Document(doc), NEW e, WritesTo(doc, e) # {}
  PROVE  \E w : Dominates(doc, e, w)
<1> DEFINE W == WritesTo(doc, e)
           Over(w) == {o \in W : Ahead(o.path, w.path)}
           Ranks == {Cardinality(Over(w)) : w \in W}
<1>1. W \subseteq doc /\ IsFiniteSet(W) /\ \A w \in W : w.path \in Paths /\ w.el = e
  <2>1. W \subseteq doc /\ IsFiniteSet(doc) /\ doc \subseteq Write
    BY DEF Document, WritesTo
  <2>2. IsFiniteSet(W)
    BY <2>1, FS_Subset
  <2> QED BY <2>1, <2>2 DEF WritesTo, Write
<1>2. \A v, w \in W : v # w => v.path # w.path
  BY <1>1 DEF Document, DistinctPaths
<1>3. \A w \in W : IsFiniteSet(Over(w)) /\ Cardinality(Over(w)) \in Nat
  <2> SUFFICES ASSUME NEW w \in W PROVE IsFiniteSet(Over(w)) /\ Cardinality(Over(w)) \in Nat
    OBVIOUS
  <2>1. Over(w) \in SUBSET W
    OBVIOUS
  <2> HIDE DEF Over, W
  <2> QED BY <1>1, <2>1, FS_Subset, FS_CardinalityType
<1>4. W # {}
  OBVIOUS
<1>5. PICK n \in Ranks : \A m \in Ranks : n <= m
  <2>1. Ranks \in SUBSET Nat /\ Ranks # {}
    BY <1>3, <1>4
  <2> HIDE DEF Ranks
  <2> QED BY <2>1, SmallestNumber
<1>6. PICK w \in W : Cardinality(Over(w)) = n
  OBVIOUS
<1>7. \A v \in W : Cardinality(Over(w)) <= Cardinality(Over(v))
  BY <1>5, <1>6
<1>8. ASSUME NEW o \in W \ {w} PROVE Ahead(w.path, o.path)
  <2>1. Ahead(w.path, o.path) \/ Ahead(o.path, w.path)
    BY <1>1, <1>2, <1>8, AheadTotal
  <2>2. ASSUME Ahead(o.path, w.path) PROVE FALSE
    <3>1. \A x \in Over(o) : x \in Over(w)
      BY <1>1, <2>2, AheadTransitive
    <3>2. o \in Over(w) /\ o \notin Over(o)
      BY <1>1, <2>2, AheadIrreflexive
    <3>3. IsFiniteSet(Over(w)) /\ IsFiniteSet(Over(o)) /\ Cardinality(Over(o)) \in Nat
          /\ Cardinality(Over(w)) \in Nat /\ Cardinality(Over(w)) <= Cardinality(Over(o))
      BY <1>3, <1>7
    <3> HIDE DEF Over
    <3>4. Over(o) \in SUBSET Over(w)
      BY <3>1
    <3>5. Cardinality(Over(o)) <= Cardinality(Over(w))
      BY <3>3, <3>4, FS_Subset
    <3>6. Cardinality(Over(w)) = Cardinality(Over(o))
      BY <3>3, <3>5
    <3>7. Over(w) = Over(o)
      BY <3>3, <3>4, <3>6, FS_Subset
    <3> QED BY <3>2, <3>7
  <2> QED BY <2>1, <2>2
<1>9. Dominates(doc, e, w)
  BY <1>1, <1>8, BehindIsAhead DEF Dominates
<1> QED BY <1>9

LEMMA WinnerDominates ==
  ASSUME NEW doc, Document(doc), NEW e, WritesTo(doc, e) # {}
  PROVE  /\ Dominates(doc, e, Winner(doc, e)) /\ Winner(doc, e) \in doc /\ Winner(doc, e).el = e
         /\ Winner(doc, e).at \in Nat \X Nat /\ Winner(doc, e).path \in Paths
<1>1. PICK w : Dominates(doc, e, w)
  BY DominatorExists
<1>2. Winner(doc, e) = w
  BY <1>1, DominatorIsWinner DEF Document
<1> QED BY <1>1, <1>2 DEF Dominates, WritesTo, Document, Write

LEMMA ElementsAreWritten ==
  ASSUME NEW doc, NEW e
  PROVE  e \in ElementsOf(doc) <=> WritesTo(doc, e) # {}
  BY DEF ElementsOf, WritesTo

\* The canvas a document gives.
LEMMA MapOfDocument ==
  ASSUME NEW doc, Document(doc)
  PROVE  /\ DOMAIN MapOf(doc) = ElementsOf(doc)
         /\ \A e \in ElementsOf(doc) : MapOf(doc)[e] = Winner(doc, e).at
         /\ doc # {} /\ Covers(doc) => IsCanvas(MapOf(doc))
<1>1. /\ DOMAIN MapOf(doc) = ElementsOf(doc)
      /\ \A e \in ElementsOf(doc) : MapOf(doc)[e] = Winner(doc, e).at
  BY DEF MapOf, ElementsOf
<1>2. \A e \in ElementsOf(doc) : MapOf(doc)[e] \in Nat \X Nat
  BY <1>1, WinnerDominates, ElementsAreWritten
<1>3. ElementsOf(doc) \subseteq Elements
  BY DEF ElementsOf, Document, Write
<1>4. IsFiniteSet(ElementsOf(doc))
  <2> DEFINE f == [w \in doc |-> w.el]
  <2>1. f \in Surjection(doc, ElementsOf(doc))
    BY DEF Surjection, ElementsOf
  <2> HIDE DEF f
  <2> QED BY <2>1, FS_Surjection DEF Document
<1> QED BY <1>1, <1>2, <1>3, <1>4 DEF IsCanvas, Covers

\* What a change writes: what is newer on the canvas, each in front of all writes
\* to its element.
LEMMA WriteInFront ==
  ASSUME NEW doc, Document(doc), NEW e \in Elements, NEW stamp \in Nat \X Nat, NEW id \in Nat
  PROVE  LET w == WriteOf(doc, e, stamp, id)
         IN  /\ w \in Write /\ w.el = e /\ w.at = stamp /\ w.path # <<>> /\ w.path[Len(w.path)] = id
             /\ \A o \in WritesTo(doc, e) : Ahead(w.path, o.path)
<1> DEFINE before == IF WritesTo(doc, e) = {} THEN <<>> ELSE Winner(doc, e).path
           w == WriteOf(doc, e, stamp, id)
<1>1. before \in Paths
  BY WinnerDominates DEF Paths
<1>2. /\ Append(before, id) \in Paths /\ Append(before, id) # <<>> /\ Ahead(Append(before, id), before)
      /\ Append(before, id)[Len(Append(before, id))] = id
  <2> HIDE DEF before
  <2> QED BY <1>1, AppendedAhead
<1>3. w = [el |-> e, at |-> stamp, path |-> Append(before, id)]
  BY DEF WriteOf
<1>4. ASSUME NEW o \in WritesTo(doc, e) PROVE Ahead(Append(before, id), o.path)
  <2>1. before = Winner(doc, e).path /\ Dominates(doc, e, Winner(doc, e)) /\ o.path \in Paths
    BY WinnerDominates DEF WritesTo, Document, Write
  <2>2. o = Winner(doc, e) \/ Behind(before, o.path)
    BY <2>1 DEF Dominates
  <2> HIDE DEF before
  <2>3. o.path = before \/ Ahead(before, o.path)
    BY <1>1, <2>1, <2>2, BehindIsAhead
  <2> QED BY <1>1, <1>2, <2>1, <2>3, AheadTransitive
<1> HIDE DEF before
<1> QED BY <1>2, <1>3, <1>4 DEF Write

AreWritten(doc, scene, id, new) ==
  /\ new \subseteq Write /\ IsFiniteSet(new) /\ DistinctPaths(new)
  /\ \A w \in new : /\ w.el \in DOMAIN scene /\ Newer(doc, w.el, scene[w.el])
                    /\ w = WriteOf(doc, w.el, scene[w.el], id)
                    /\ w.path # <<>> /\ w.path[Len(w.path)] = id
                    /\ \A o \in WritesTo(doc, w.el) : Ahead(w.path, o.path)
  /\ \A f \in DOMAIN scene : Newer(doc, f, scene[f]) => WriteOf(doc, f, scene[f], id) \in new

LEMMA WrittenAre ==
  ASSUME NEW doc, Document(doc), NEW scene, IsCanvas(scene), NEW id \in Nat, NEW e
  PROVE  AreWritten(doc, scene, id, Written(doc, scene, id, e))
<1> DEFINE new == Written(doc, scene, id, e)
           N == {g \in DOMAIN scene : Newer(doc, g, scene[g])}
<1>1. new = {WriteOf(doc, f, scene[f], id) : f \in N}
  BY DEF Written
<1> HIDE DEF new
<1>2. \A f \in N : LET w == WriteOf(doc, f, scene[f], id)
                   IN  /\ w \in Write /\ w.el = f /\ w.path # <<>> /\ w.path[Len(w.path)] = id
                       /\ \A o \in WritesTo(doc, f) : Ahead(w.path, o.path)
  <2> SUFFICES ASSUME NEW f \in N
               PROVE  LET w == WriteOf(doc, f, scene[f], id)
                      IN  /\ w \in Write /\ w.el = f /\ w.path # <<>> /\ w.path[Len(w.path)] = id
                          /\ \A o \in WritesTo(doc, f) : Ahead(w.path, o.path)
    OBVIOUS
  <2>1. f \in Elements /\ scene[f] \in Nat \X Nat
    BY DEF IsCanvas
  <2> QED BY <2>1, WriteInFront
<1>3. IsFiniteSet(new)
  <2> DEFINE F == [f \in N |-> WriteOf(doc, f, scene[f], id)]
  <2>1. N \in SUBSET DOMAIN scene /\ IsFiniteSet(DOMAIN scene)
    BY DEF IsCanvas
  <2>2. IsFiniteSet(N)
    <3> HIDE DEF N
    <3> QED BY <2>1, FS_Subset
  <2>3. F \in Surjection(N, new)
    BY <1>1 DEF Surjection
  <2> HIDE DEF F, N
  <2> QED BY <2>2, <2>3, FS_Surjection
<1>4. \A w \in new : w.el \in N /\ w = WriteOf(doc, w.el, scene[w.el], id)
  BY <1>1, <1>2
<1> QED BY <1>1, <1>2, <1>3, <1>4 DEF AreWritten, DistinctPaths, new

\* After the change every element of the canvas is in the document as drawn, and
\* the others as they were.
Takes(doc, scene, new) ==
  /\ ElementsOf(doc \cup new) = ElementsOf(doc) \cup DOMAIN scene
  /\ \A f \in DOMAIN scene : Newer(doc, f, scene[f]) => Winner(doc \cup new, f).at = scene[f]
  /\ \A f \in ElementsOf(doc) : ~(f \in DOMAIN scene /\ Newer(doc, f, scene[f]))
       => Winner(doc \cup new, f) = Winner(doc, f)

LEMMA WrittenWins ==
  ASSUME NEW doc, Document(doc), NEW scene, IsCanvas(scene), NEW id \in Nat, NEW e
  PROVE  Takes(doc, scene, Written(doc, scene, id, e))
<1> DEFINE new == Written(doc, scene, id, e)
<1>0. AreWritten(doc, scene, id, new)
  BY WrittenAre
<1>1. /\ new \subseteq Write
      /\ \A w \in new : /\ w.el \in DOMAIN scene /\ Newer(doc, w.el, scene[w.el])
                        /\ w = WriteOf(doc, w.el, scene[w.el], id)
                        /\ \A o \in WritesTo(doc, w.el) : Ahead(w.path, o.path)
      /\ \A f \in DOMAIN scene : Newer(doc, f, scene[f]) => WriteOf(doc, f, scene[f], id) \in new
  BY <1>0 DEF AreWritten
<1> HIDE DEF new
<1>2. \A f : WriteOf(doc, f, scene[f], id).el = f /\ WriteOf(doc, f, scene[f], id).at = scene[f]
  BY DEF WriteOf
<1>3. ElementsOf(doc \cup new) = ElementsOf(doc) \cup {f \in DOMAIN scene : Newer(doc, f, scene[f])}
  <2>1. ElementsOf(doc \cup new) = ElementsOf(doc) \cup ElementsOf(new)
    BY DEF ElementsOf
  <2>2. ElementsOf(new) = {f \in DOMAIN scene : Newer(doc, f, scene[f])}
    BY <1>1, <1>2 DEF ElementsOf
  <2> QED BY <2>1, <2>2
<1>4. \A f \in DOMAIN scene : f \notin ElementsOf(doc) => Newer(doc, f, scene[f])
  BY ElementsAreWritten DEF Newer
<1>5. ASSUME NEW f \in DOMAIN scene, Newer(doc, f, scene[f]) PROVE Winner(doc \cup new, f).at = scene[f]
  <2> DEFINE w == WriteOf(doc, f, scene[f], id)
  <2>1. w \in new /\ w.el = f /\ w.at = scene[f]
    BY <1>1, <1>2, <1>5
  <2>2. \A o \in WritesTo(doc \cup new, f) : o = w \/ o \in WritesTo(doc, f)
    BY <1>1 DEF WritesTo
  <2>3. \A o \in WritesTo(doc, f) : Ahead(w.path, o.path) /\ o.path \in Paths /\ w.path \in Paths
    BY <1>1, <2>1 DEF WritesTo, Document, Write
  <2>4. \A o \in WritesTo(doc, f) : Behind(w.path, o.path)
    BY <2>3, BehindIsAhead
  <2> HIDE DEF w
  <2>5. Dominates(doc \cup new, f, w)
    BY <2>1, <2>2, <2>4 DEF Dominates, WritesTo
  <2>6. doc \cup new \in SUBSET Write
    BY <1>1 DEF Document
  <2> QED BY <2>1, <2>5, <2>6, DominatorIsWinner
<1>6. ASSUME NEW f \in ElementsOf(doc), ~(f \in DOMAIN scene /\ Newer(doc, f, scene[f]))
      PROVE  Winner(doc \cup new, f) = Winner(doc, f)
  <2>1. WritesTo(doc \cup new, f) = WritesTo(doc, f)
    BY <1>1, <1>6 DEF WritesTo
  <2> QED BY <2>1 DEF Winner
<1>7. ElementsOf(doc \cup new) = ElementsOf(doc) \cup DOMAIN scene
  BY <1>3, <1>4
<1> QED BY <1>5, <1>6, <1>7 DEF Takes, new

-----------------------------------------------------------------------------
(* A change of the canvas.                                                 *)

\* A canvas s with the changes held shows the document, if it has any element.
ShowsDocument(s, doc, h) ==
  /\ h \subseteq DOMAIN s /\ \A e \in h : Newer(doc, e, s[e])
  /\ doc # {} => \A e \in (DOMAIN s \cup ElementsOf(doc)) \ h :
       e \in DOMAIN s \cap ElementsOf(doc) /\ s[e] = Winner(doc, e).at

Drawn(s, e, id) ==
  [f \in DOMAIN s \cup {e} |->
     IF f = e THEN <<IF e \in DOMAIN s THEN s[e][1] + 1 ELSE 1, id>> ELSE s[f]]

LEMMA DrawnIs ==
  ASSUME NEW s, IsCanvas(s), NEW e \in Elements, NEW id \in Nat
  PROVE  /\ IsCanvas(Drawn(s, e, id)) /\ DOMAIN Drawn(s, e, id) = DOMAIN s \cup {e}
         /\ \A f \in DOMAIN s : f # e => Drawn(s, e, id)[f] = s[f]
         /\ e \in DOMAIN s => Drawn(s, e, id)[e][1] = s[e][1] + 1
<1> DEFINE scene == Drawn(s, e, id)
<1>1. /\ DOMAIN scene = DOMAIN s \cup {e}
      /\ \A f \in DOMAIN s : f # e => scene[f] = s[f]
      /\ scene[e] = <<IF e \in DOMAIN s THEN s[e][1] + 1 ELSE 1, id>>
  BY DEF Drawn
<1> HIDE DEF scene
<1>2. e \in DOMAIN s => s[e][1] \in Nat
  BY DEF IsCanvas
<1>3. scene[e] \in Nat \X Nat /\ (e \in DOMAIN s => scene[e][1] = s[e][1] + 1)
  BY <1>1, <1>2
<1>4. IsFiniteSet(DOMAIN scene)
  BY <1>1, FS_AddElement DEF IsCanvas
<1>5. IsCanvas(scene)
  BY <1>1, <1>3, <1>4 DEF IsCanvas
<1> QED BY <1>1, <1>3, <1>5 DEF scene

\* What was drawn is newer than what the document has.
LEMMA DrawnIsNewer ==
  ASSUME NEW s, IsCanvas(s), NEW doc, Document(doc), NEW h, ShowsDocument(s, doc, h),
         NEW e \in Elements, NEW id \in Nat
  PROVE  Newer(doc, e, Drawn(s, e, id)[e])
<1> DEFINE scene == Drawn(s, e, id)
<1> HIDE DEF scene
<1>1. SUFFICES ASSUME WritesTo(doc, e) # {} PROVE Newer(doc, e, scene[e])
  BY DEF Newer, scene
<1>2. e \in ElementsOf(doc) /\ doc # {}
  BY <1>1, ElementsAreWritten DEF WritesTo
<1>3. e \in DOMAIN s
  BY <1>2 DEF ShowsDocument
<1>4. scene[e][1] = s[e][1] + 1 /\ s[e][1] \in Nat
  <2>1. scene[e][1] = s[e][1] + 1
    BY <1>3, DrawnIs DEF scene
  <2> QED BY <1>3, <2>1 DEF IsCanvas
<1> DEFINE w == Winner(doc, e).at
<1>5. w \in Nat \X Nat
  BY <1>1, WinnerDominates
<1>6. s[e][1] >= w[1]
  <2>1. CASE e \in h
    <3>1. s[e][1] > w[1] \/ s[e][1] = w[1]
      BY <1>1, <2>1 DEF ShowsDocument, Newer
    <3> QED BY <1>4, <1>5, <3>1
  <2>2. CASE e \notin h
    <3>1. s[e] = w
      BY <1>2, <2>2 DEF ShowsDocument
    <3> QED BY <1>4, <1>5, <3>1
  <2> QED BY <2>1, <2>2
<1>7. scene[e][1] > w[1]
  BY <1>4, <1>5, <1>6
<1>8. Newer(doc, e, scene[e])
  BY <1>7 DEF Newer
<1> QED BY <1>8 DEF scene

LEMMA ShownWhenHeld ==
  ASSUME NEW s, IsCanvas(s), NEW doc, Document(doc), NEW h, ShowsDocument(s, doc, h),
         NEW e \in Elements, NEW id \in Nat
  PROVE  ShowsDocument(Drawn(s, e, id), doc, h \cup {e})
<1> DEFINE scene == Drawn(s, e, id)
<1>1. /\ DOMAIN scene = DOMAIN s \cup {e}
      /\ \A f \in DOMAIN s : f # e => scene[f] = s[f]
  BY DrawnIs
<1>2. Newer(doc, e, scene[e])
  BY DrawnIsNewer
<1> HIDE DEF scene
<1>3. \A f \in h \cup {e} : f \in DOMAIN scene /\ Newer(doc, f, scene[f])
  BY <1>1, <1>2 DEF ShowsDocument
<1>4. doc # {} => \A f \in (DOMAIN scene \cup ElementsOf(doc)) \ (h \cup {e}) :
        f \in DOMAIN scene \cap ElementsOf(doc) /\ scene[f] = Winner(doc, f).at
  BY <1>1 DEF ShowsDocument
<1>5. ShowsDocument(scene, doc, h \cup {e})
  BY <1>3, <1>4 DEF ShowsDocument
<1> QED BY <1>5 DEF scene

LEMMA ShownWhenTaken ==
  ASSUME NEW s, IsCanvas(s), NEW doc, Document(doc), NEW h, ShowsDocument(s, doc, h),
         NEW e \in Elements, NEW id \in Nat
  PROVE  ShowsDocument(Drawn(s, e, id), doc \cup Written(doc, Drawn(s, e, id), id, e), {})
<1> DEFINE scene == Drawn(s, e, id)
           new == Written(doc, scene, id, e)
<1>1. /\ DOMAIN scene = DOMAIN s \cup {e} /\ IsCanvas(scene)
      /\ \A f \in DOMAIN s : f # e => scene[f] = s[f]
  BY DrawnIs
<1>2. Newer(doc, e, scene[e])
  BY DrawnIsNewer
<1> HIDE DEF scene
<1>3. Takes(doc, scene, new)
  BY <1>1, WrittenWins
<1> HIDE DEF new
<1>4. ElementsOf(doc) \subseteq DOMAIN s
  <2>1. ASSUME NEW f \in ElementsOf(doc) PROVE f \in DOMAIN s
    <3>1. doc # {}
      BY DEF ElementsOf
    <3> QED BY <3>1 DEF ShowsDocument
  <2> QED BY <2>1
<1>5. ASSUME NEW f \in DOMAIN scene \cup ElementsOf(doc \cup new)
      PROVE  f \in DOMAIN scene \cap ElementsOf(doc \cup new) /\ scene[f] = Winner(doc \cup new, f).at
  <2>1. f \in DOMAIN scene \cap ElementsOf(doc \cup new)
    BY <1>1, <1>3, <1>4 DEF Takes
  <2>2. ASSUME ~Newer(doc, f, scene[f]) PROVE scene[f] = Winner(doc \cup new, f).at
    <3>1. f # e /\ scene[f] = s[f] /\ f \in DOMAIN s
      BY <1>1, <1>2, <2>1, <2>2
    <3>2. f \in ElementsOf(doc) /\ doc # {}
      BY <2>2, ElementsAreWritten DEF Newer, ElementsOf
    <3>3. f \notin h
      BY <2>2, <3>1 DEF ShowsDocument
    <3>4. s[f] = Winner(doc, f).at
      BY <3>1, <3>2, <3>3 DEF ShowsDocument
    <3> QED BY <1>3, <2>2, <3>1, <3>2, <3>4 DEF Takes
  <2> QED BY <1>3, <2>1, <2>2 DEF Takes
<1>6. ShowsDocument(scene, doc \cup new, {})
  BY <1>5 DEF ShowsDocument
<1> QED BY <1>6 DEF scene, new

\* A canvas that has just been replaced shows the document.
LEMMA ShownWhenApplied ==
  ASSUME NEW doc, Document(doc)
  PROVE  ShowsDocument(MapOf(doc), doc, {})
  BY MapOfDocument DEF ShowsDocument

-----------------------------------------------------------------------------
(* The session's pages.                                                    *)

LastId(w) == w.path[Len(w.path)]
Known == {w \in Write : w \in live \/ \E p \in Pages : w \in local[p]}

\* Every canvas that anything is made of has the elements the board began with.
Canvases ==
  /\ DOMAIN scenes = Pages /\ DOMAIN due = Pages /\ DOMAIN push = Pages
  /\ IsCanvas(check.board) /\ IsCanvas(stored)
  /\ \A p \in Pages : /\ IsCanvas(scenes[p])
                      /\ due[p] # None => IsCanvas(due[p])
                      /\ push[p] # NoPush => /\ DOMAIN push[p] = {"board", "base", "tries"}
                                             /\ IsCanvas(push[p].board)

DocumentTypes ==
  /\ at \in [Pages -> {"closed", "open", "joined"}] /\ client \in [Pages -> Nat]
  /\ DOMAIN local = Pages /\ DOMAIN unsent = Pages /\ DOMAIN inbox = Pages
  /\ DOMAIN held = Pages /\ DOMAIN hand = Pages
  /\ DOMAIN past = {"drawn", "changes", "ids"}
  /\ live \subseteq Write /\ IsFiniteSet(live)
  /\ \A p \in Pages : local[p] \subseteq Write /\ IsFiniteSet(local[p])

ClosedPages ==
  \A p \in Pages : at[p] = "closed" =>
    local[p] = {} /\ unsent[p] = {} /\ inbox[p] = {} /\ held[p] = {} /\ hand[p] = "up"

\* A path names one write to an element, and a page has all that it has written.
PathsHold ==
  /\ DistinctPaths(Known)
  /\ \A w \in Known : LastId(w) \in past.ids
  /\ \A p \in Pages : at[p] # "closed" =>
       /\ client[p] \in past.ids
       /\ \A w \in Known : LastId(w) = client[p] => w \in local[p]
       /\ \A q \in Pages : at[q] # "closed" /\ client[q] = client[p] => q = p

FlowHolds ==
  \A p \in Pages : /\ unsent[p] \subseteq local[p] /\ inbox[p] \subseteq live
                   /\ local[p] \subseteq live \cup unsent[p]
                   /\ at[p] = "joined" => live \subseteq local[p] \cup inbox[p]

CoverHolds ==
  /\ Covers(live)
  /\ \A p \in Pages : Covers(local[p]) /\ Covers(local[p] \cup inbox[p])

ShownHolds == \A p \in Pages : ShowsDocument(scenes[p], local[p], held[p])

LiveInv ==
  /\ Canvases /\ DocumentTypes /\ ClosedPages /\ PathsHold
  /\ FlowHolds /\ CoverHolds /\ ShownHolds

LEMMA PartOfDocument ==
  ASSUME NEW all, DistinctPaths(all), NEW doc, doc \subseteq all
  PROVE  DistinctPaths(doc)
  BY DEF DistinctPaths

LEMMA CoversMore ==
  ASSUME NEW doc, Covers(doc), doc # {}, NEW more, doc \subseteq more
  PROVE  Covers(more)
  BY DEF Covers, ElementsOf

\* What the pages and the server have is a document, and so is it together.
LEMMA TheyAreDocuments ==
  ASSUME LiveInv
  PROVE  /\ Document(live)
         /\ \A p \in Pages : Document(local[p]) /\ Document(local[p] \cup inbox[p])
<1>1. live \subseteq Known /\ \A p \in Pages : local[p] \subseteq Known
  BY DEF LiveInv, DocumentTypes, Known
<1>2. ASSUME NEW p \in Pages PROVE Document(local[p] \cup inbox[p])
  <2>1. inbox[p] \subseteq live
    BY DEF LiveInv, FlowHolds
  <2>2. local[p] \cup inbox[p] \subseteq Known /\ local[p] \cup inbox[p] \subseteq Write
    BY <1>1, <2>1 DEF Known
  <2>3. IsFiniteSet(inbox[p])
    BY <2>1, FS_Subset DEF LiveInv, DocumentTypes
  <2>4. IsFiniteSet(local[p] \cup inbox[p])
    BY <2>3, FS_Union DEF LiveInv, DocumentTypes
  <2>5. DistinctPaths(local[p] \cup inbox[p])
    BY <2>2, PartOfDocument DEF LiveInv, PathsHold
  <2> QED BY <2>2, <2>4, <2>5 DEF Document
<1>3. ASSUME NEW p \in Pages PROVE Document(local[p])
  BY <1>1, PartOfDocument DEF LiveInv, PathsHold, DocumentTypes, Document
<1>4. Document(live)
  BY <1>1, PartOfDocument DEF LiveInv, PathsHold, DocumentTypes, Document
<1> QED BY <1>2, <1>3, <1>4

\* What the invariant says of the promises.
LEMMA InvShows ==
  ASSUME LiveInv
  PROVE  NothingIsDropped /\ SettledCanvasesAgree
<1>1. Document(live) /\ DOMAIN MapOf(live) = ElementsOf(live)
      /\ \A e \in ElementsOf(live) : MapOf(live)[e] = Winner(live, e).at
  BY TheyAreDocuments, MapOfDocument
<1>2. NothingIsDropped
  BY <1>1 DEF NothingIsDropped, LiveInv, CoverHolds, Covers, Canvases, IsCanvas
<1>3. ASSUME NEW p \in Pages, at[p] = "joined", inbox[p] = {}, unsent[p] = {}, live # {}
      PROVE  /\ local[p] = live
             /\ \A e \in (DOMAIN scenes[p] \cup DOMAIN MapOf(live)) \ held[p] :
                  e \in DOMAIN scenes[p] \cap DOMAIN MapOf(live) /\ scenes[p][e] = MapOf(live)[e]
  <2>1. local[p] = live
    BY <1>3 DEF LiveInv, FlowHolds
  <2>2. ShowsDocument(scenes[p], live, held[p])
    BY <2>1 DEF LiveInv, ShownHolds
  <2> QED BY <1>1, <1>3, <2>1, <2>2 DEF ShowsDocument
<1> QED BY <1>2, <1>3 DEF SettledCanvasesAgree

LEMMA LiveInitHolds ==
  ASSUME LiveInit
  PROVE  LiveInv
<1>1. IsCanvas(Opening)
  BY LiveAssumption DEF Opening, IsCanvas
<1>2. Canvases
  BY <1>1 DEF LiveInit, Canvases
<1>3. DocumentTypes
  BY FS_EmptySet DEF LiveInit, DocumentTypes
<1>4. ClosedPages /\ FlowHolds
  BY DEF LiveInit, ClosedPages, FlowHolds
<1>5. Known = {}
  BY DEF LiveInit, Known
<1>6. PathsHold
  BY <1>5 DEF LiveInit, PathsHold, DistinctPaths
<1>7. CoverHolds
  BY DEF LiveInit, CoverHolds, Covers
<1>8. ASSUME NEW p \in Pages PROVE ShowsDocument(scenes[p], local[p], held[p])
  BY DEF LiveInit, ShowsDocument
<1>9. ShownHolds
  BY <1>8 DEF ShownHolds
<1> QED BY <1>2, <1>3, <1>4, <1>6, <1>7, <1>9 DEF LiveInv

\* Whatever leaves the writes and the pages as they are keeps their part of the
\* invariant.
LEMMA WritesKept ==
  ASSUME LiveInv, UNCHANGED <<at, client, local, scenes, unsent, inbox, held, live, past>>,
         DOMAIN hand' = Pages, \A p \in Pages : at[p] = "closed" => hand'[p] = "up"
  PROVE  /\ DocumentTypes' /\ ClosedPages' /\ PathsHold'
         /\ FlowHolds' /\ CoverHolds' /\ ShownHolds'
<1>1. DocumentTypes'
  BY DEF LiveInv, DocumentTypes
<1>2. ClosedPages'
  BY DEF LiveInv, ClosedPages
<1>3. Known' = Known
  BY DEF Known
<1>4. PathsHold'
  BY <1>3 DEF LiveInv, PathsHold
<1>5. FlowHolds' /\ CoverHolds' /\ ShownHolds'
  BY DEF LiveInv, FlowHolds, CoverHolds, ShownHolds
<1> QED BY <1>1, <1>2, <1>4, <1>5

LEMMA CanvasesKept ==
  ASSUME LiveInv, UNCHANGED <<scenes, due, push, check, stored>>
  PROVE  Canvases'
  BY DEF LiveInv, Canvases

\* Gestures, the quiet time, and steps that do nothing.
LEMMA HandStep ==
  ASSUME LiveInv, NEW p \in Pages, Press(p) \/ Lift(p) \/ Calm(p) \/ UNCHANGED liveVars
  PROVE  LiveInv'
<1>1. UNCHANGED <<at, client, local, scenes, unsent, inbox, held, live, past, due, push, check, stored>>
  BY DEF Press, Lift, Calm, liveVars, pageVars, pushVars, saveVars
<1>2. DOMAIN hand' = Pages /\ \A q \in Pages : at[q] = "closed" => hand'[q] = "up"
  <2>1. DOMAIN hand = Pages /\ \A q \in Pages : at[q] = "closed" => hand[q] = "up"
    BY DEF LiveInv, DocumentTypes, ClosedPages
  <2>2. CASE Press(p)
    BY <2>1, <2>2 DEF Press
  <2>3. CASE Lift(p)
    BY <2>1, <2>3 DEF Lift
  <2>4. CASE hand' = hand
    BY <2>1, <2>4
  <2> QED BY <2>2, <2>3, <2>4 DEF Calm, liveVars, pageVars
<1>3. Canvases'
  BY <1>1, CanvasesKept
<1>4. /\ DocumentTypes' /\ ClosedPages' /\ PathsHold'
      /\ FlowHolds' /\ CoverHolds' /\ ShownHolds'
  BY <1>1, <1>2, WritesKept
<1> QED BY <1>3, <1>4 DEF LiveInv

\* Checkpoints and saves take a canvas, or the document once it has elements.
LEMMA PushStep ==
  ASSUME LiveInv, NEW p \in Pages, PushStart(p) \/ PushConflict(p) \/ Hear(p) \/ OwnerSave
  PROVE  LiveInv'
<1>1. UNCHANGED <<at, client, local, scenes, unsent, inbox, held, hand, live, past, check, stored>>
  BY DEF PushStart, PushConflict, Hear, OwnerSave, pageVars, saveVars
<1>2. Host \in Pages
  BY LiveAssumption
<1>3. /\ DOMAIN due' = Pages /\ DOMAIN push' = Pages
      /\ \A q \in Pages : /\ due'[q] \in {due[q], None}
                          /\ push'[q] # NoPush =>
                               DOMAIN push'[q] = {"board", "base", "tries"} /\ IsCanvas(push'[q].board)
  <2>1. /\ DOMAIN due = Pages /\ DOMAIN push = Pages
        /\ \A q \in Pages : /\ due[q] # None => IsCanvas(due[q])
                            /\ IsCanvas(scenes[q])
                            /\ push[q] # NoPush =>
                                 DOMAIN push[q] = {"board", "base", "tries"} /\ IsCanvas(push[q].board)
    BY DEF LiveInv, Canvases
  <2>2. CASE PushStart(p)
    BY <2>1, <2>2 DEF PushStart
  <2>3. CASE PushConflict(p)
    <3>1. push[p] # NoPush /\ due' = due
      BY <2>3 DEF PushConflict
    <3>2. PICK x : push' = [push EXCEPT ![p] = x] /\ (x = NoPush \/ x = [push[p] EXCEPT !.base = check.rev, !.tries = 2])
      BY <2>3 DEF PushConflict
    <3>3. x # NoPush => DOMAIN x = {"board", "base", "tries"} /\ x.board = push[p].board
      BY <2>1, <3>1, <3>2
    <3> QED BY <2>1, <3>1, <3>2, <3>3
  <2>4. CASE Hear(p)
    BY <2>1, <2>4 DEF Hear
  <2>5. CASE OwnerSave
    BY <1>2, <2>1, <2>5 DEF OwnerSave
  <2> QED BY <2>2, <2>3, <2>4, <2>5
<1>4. Canvases'
  BY <1>1, <1>3 DEF LiveInv, Canvases
<1>5. DOMAIN hand' = Pages /\ \A q \in Pages : at[q] = "closed" => hand'[q] = "up"
  BY <1>1 DEF LiveInv, DocumentTypes, ClosedPages
<1>6. /\ DocumentTypes' /\ ClosedPages' /\ PathsHold'
      /\ FlowHolds' /\ CoverHolds' /\ ShownHolds'
  BY <1>1, <1>5, WritesKept
<1> QED BY <1>4, <1>6 DEF LiveInv

LEMMA SaveStep ==
  ASSUME LiveInv, SaveMaterialized
  PROVE  LiveInv'
<1>1. UNCHANGED <<at, client, local, scenes, unsent, inbox, held, hand, live, past, due, push, check>>
  BY DEF SaveMaterialized, pageVars, pushVars
<1>2. IsCanvas(Materialized)
  <2>1. live # {} => IsCanvas(MapOf(live))
    BY TheyAreDocuments, MapOfDocument DEF LiveInv, CoverHolds
  <2> QED BY <2>1 DEF Materialized, LiveInv, Canvases
<1>3. IsCanvas(stored')
  BY <1>2 DEF SaveMaterialized
<1>4. Canvases'
  BY <1>1, <1>3 DEF LiveInv, Canvases
<1>5. DOMAIN hand' = Pages /\ \A q \in Pages : at[q] = "closed" => hand'[q] = "up"
  BY <1>1 DEF LiveInv, DocumentTypes, ClosedPages
<1>6. /\ DocumentTypes' /\ ClosedPages' /\ PathsHold'
      /\ FlowHolds' /\ CoverHolds' /\ ShownHolds'
  BY <1>1, <1>5, WritesKept
<1> QED BY <1>4, <1>6 DEF LiveInv

\* A step that adds no write, closes a page or gets it what the others have, keeps
\* the paths.
LEMMA PathsKept ==
  ASSUME LiveInv, Known' \subseteq Known, past'.ids = past.ids,
         \A p \in Pages : at'[p] # "closed" =>
           at[p] # "closed" /\ client'[p] = client[p] /\ local[p] \subseteq local'[p]
  PROVE  PathsHold'
<1>1. DistinctPaths(Known')
  BY PartOfDocument DEF LiveInv, PathsHold
<1>2. \A w \in Known' : LastId(w) \in past'.ids
  BY DEF LiveInv, PathsHold
<1>3. \A p \in Pages : at'[p] # "closed" =>
        /\ client'[p] \in past'.ids
        /\ \A w \in Known' : LastId(w) = client'[p] => w \in local'[p]
        /\ \A q \in Pages : at'[q] # "closed" /\ client'[q] = client'[p] => q = p
  BY DEF LiveInv, PathsHold
<1> QED BY <1>1, <1>2, <1>3 DEF PathsHold, LastId

\* What a page receives of the server's document.
LEMMA ReceiveStep ==
  ASSUME LiveInv, UNCHANGED <<client, local, scenes, unsent, held, hand, live, past>>,
         DOMAIN inbox' = Pages, at' \in [Pages -> {"closed", "open", "joined"}],
         \A p \in Pages :
           /\ at'[p] = "closed" <=> at[p] = "closed"
           /\ inbox'[p] = inbox[p] \/ (at[p] # "closed" /\ inbox'[p] = inbox[p] \cup live)
           /\ at'[p] = "joined" => at[p] = "joined" \/ inbox'[p] = inbox[p] \cup live
  PROVE  /\ DocumentTypes' /\ ClosedPages' /\ PathsHold'
         /\ FlowHolds' /\ CoverHolds' /\ ShownHolds'
<1>1. DocumentTypes'
  BY DEF LiveInv, DocumentTypes
<1>2. ClosedPages'
  BY DEF LiveInv, ClosedPages
<1>3. Known' = Known
  BY DEF Known
<1>4. PathsHold'
  BY <1>3, PathsKept
<1>5. FlowHolds'
  BY DEF LiveInv, FlowHolds
<1>6. ASSUME NEW p \in Pages PROVE Covers(local[p] \cup inbox'[p])
  <2>1. CASE inbox'[p] = inbox[p]
    BY <2>1 DEF LiveInv, CoverHolds
  <2>2. CASE inbox'[p] = inbox[p] \cup live
    <3>1. inbox[p] \subseteq live /\ Covers(live) /\ Covers(local[p])
      BY DEF LiveInv, FlowHolds, CoverHolds
    <3>2. CASE live = {}
      <4>1. local[p] \cup inbox'[p] = local[p]
        BY <2>2, <3>1, <3>2
      <4> QED BY <3>1, <4>1
    <3>3. CASE live # {}
      BY <2>2, <3>1, <3>3, CoversMore
    <3> QED BY <3>2, <3>3
  <2> QED BY <2>1, <2>2
<1>7. CoverHolds'
  BY <1>6 DEF LiveInv, CoverHolds
<1>8. ShownHolds'
  BY DEF LiveInv, ShownHolds
<1> QED BY <1>1, <1>2, <1>4, <1>5, <1>7, <1>8

LEMMA JoinPageStep ==
  ASSUME LiveInv, NEW p \in Pages, JoinPage(p) \/ LosePage(p)
  PROVE  LiveInv'
<1>1. UNCHANGED <<client, local, scenes, unsent, held, hand, live, past, due, push, check, stored>>
  BY DEF JoinPage, LosePage, saveVars, pushVars
<1>2. at \in [Pages -> {"closed", "open", "joined"}] /\ DOMAIN inbox = Pages
  BY DEF LiveInv, DocumentTypes
<1>3. /\ DOMAIN inbox' = Pages /\ at' \in [Pages -> {"closed", "open", "joined"}]
      /\ \A q \in Pages :
           /\ at'[q] = "closed" <=> at[q] = "closed"
           /\ inbox'[q] = inbox[q] \/ (at[q] # "closed" /\ inbox'[q] = inbox[q] \cup live)
           /\ at'[q] = "joined" => at[q] = "joined" \/ inbox'[q] = inbox[q] \cup live
  <2>1. CASE JoinPage(p)
    BY <1>2, <2>1 DEF JoinPage
  <2>2. CASE LosePage(p)
    BY <1>2, <2>2 DEF LosePage
  <2> QED BY <2>1, <2>2
<1>4. /\ DocumentTypes' /\ ClosedPages' /\ PathsHold'
      /\ FlowHolds' /\ CoverHolds' /\ ShownHolds'
  BY <1>1, <1>3, ReceiveStep
<1>5. Canvases'
  BY <1>1, CanvasesKept
<1> QED BY <1>4, <1>5 DEF LiveInv

LEMMA ServedStep ==
  ASSUME LiveInv, NEW p \in Pages, PushServed(p)
  PROVE  LiveInv'
<1>1. UNCHANGED <<at, client, local, scenes, unsent, held, hand, live, past, due, stored>>
  BY DEF PushServed, saveVars
<1>2. /\ DOMAIN inbox' = Pages /\ at' \in [Pages -> {"closed", "open", "joined"}]
      /\ \A q \in Pages :
           /\ at'[q] = "closed" <=> at[q] = "closed"
           /\ inbox'[q] = inbox[q] \/ (at[q] # "closed" /\ inbox'[q] = inbox[q] \cup live)
           /\ at'[q] = "joined" => at[q] = "joined" \/ inbox'[q] = inbox[q] \cup live
  BY DEF PushServed, LiveInv, DocumentTypes
<1>3. /\ DocumentTypes' /\ ClosedPages' /\ PathsHold'
      /\ FlowHolds' /\ CoverHolds' /\ ShownHolds'
  BY <1>1, <1>2, ReceiveStep
<1>4. Canvases'
  BY <1>1 DEF PushServed, LiveInv, Canvases
<1> QED BY <1>3, <1>4 DEF LiveInv

\* A client id is given once, so no write of another load ends in it.
LEMMA OpenPageStep ==
  ASSUME LiveInv, NEW p \in Pages, NEW id \in 1 .. MaxClient, OpenPage(p, id)
  PROVE  LiveInv'
<1>1. UNCHANGED <<local, unsent, inbox, held, hand, live, due, push, check, stored>>
  BY DEF OpenPage, saveVars
<1>2. /\ at[p] = "closed" /\ id \notin past.ids /\ at' = [at EXCEPT ![p] = "open"]
      /\ client' = [client EXCEPT ![p] = id] /\ past'.ids = past.ids \cup {id}
      /\ scenes' = [scenes EXCEPT ![p] = check.board] /\ DOMAIN past' = DOMAIN past
  BY DEF OpenPage, LiveInv, DocumentTypes
<1>3. local[p] = {} /\ unsent[p] = {} /\ inbox[p] = {} /\ held[p] = {}
  BY <1>2 DEF LiveInv, ClosedPages
<1>4. id \in Nat
  BY LiveAssumption
<1>5. Canvases'
  BY <1>1, <1>2 DEF LiveInv, Canvases
<1>6. DocumentTypes'
  BY <1>1, <1>2, <1>4 DEF LiveInv, DocumentTypes
<1>7. ClosedPages'
  BY <1>1, <1>2 DEF LiveInv, ClosedPages, DocumentTypes
<1>8. Known' = Known
  BY <1>1 DEF Known
<1>9. PathsHold'
  <2>1. DistinctPaths(Known') /\ \A w \in Known' : LastId(w) \in past'.ids
    BY <1>2, <1>8 DEF LiveInv, PathsHold
  <2>2. ASSUME NEW q \in Pages, at'[q] # "closed"
        PROVE  /\ client'[q] \in past'.ids
               /\ \A w \in Known' : LastId(w) = client'[q] => w \in local'[q]
               /\ \A r \in Pages : at'[r] # "closed" /\ client'[r] = client'[q] => r = q
    <3>1. at \in [Pages -> {"closed", "open", "joined"}] /\ client \in [Pages -> Nat]
      BY DEF LiveInv, DocumentTypes
    <3>2. /\ \A w \in Known : LastId(w) \in past.ids
          /\ \A r \in Pages : at[r] # "closed" => client[r] \in past.ids
      BY DEF LiveInv, PathsHold
    <3>3. CASE q = p
      BY <1>1, <1>2, <1>8, <2>2, <3>1, <3>2, <3>3
    <3>4. CASE q # p
      <4>1. at[q] # "closed" /\ client'[q] = client[q]
        BY <1>2, <2>2, <3>1, <3>4
      <4>2. /\ \A w \in Known : LastId(w) = client[q] => w \in local[q]
            /\ \A r \in Pages : at[r] # "closed" /\ client[r] = client[q] => r = q
        BY <4>1 DEF LiveInv, PathsHold
      <4> QED BY <1>1, <1>2, <1>8, <3>1, <3>2, <3>4, <4>1, <4>2
    <3> QED BY <3>3, <3>4
  <2> QED BY <2>1, <2>2 DEF PathsHold, LastId
<1>10. FlowHolds'
  BY <1>1, <1>2, <1>3 DEF LiveInv, FlowHolds, DocumentTypes
<1>11. CoverHolds'
  BY <1>1 DEF LiveInv, CoverHolds
<1>12. ASSUME NEW q \in Pages PROVE ShowsDocument(scenes'[q], local'[q], held'[q])
  <2>1. CASE q = p
    BY <1>1, <1>3, <2>1 DEF ShowsDocument
  <2>2. CASE q # p
    BY <1>1, <1>2, <2>2 DEF LiveInv, ShownHolds, Canvases
  <2> QED BY <2>1, <2>2
<1>13. ShownHolds'
  BY <1>12 DEF ShownHolds
<1> QED BY <1>5, <1>6, <1>7, <1>9, <1>10, <1>11, <1>13 DEF LiveInv

LEMMA ClosePageStep ==
  ASSUME LiveInv, NEW p \in Pages, ClosePage(p)
  PROVE  LiveInv'
<1>1. UNCHANGED <<live, check, stored>>
  BY DEF ClosePage, saveVars
<1>2. /\ at' = [at EXCEPT ![p] = "closed"] /\ client' = [client EXCEPT ![p] = 0]
      /\ local' = [local EXCEPT ![p] = {}] /\ scenes' = [scenes EXCEPT ![p] = Opening]
      /\ unsent' = [unsent EXCEPT ![p] = {}] /\ inbox' = [inbox EXCEPT ![p] = {}]
      /\ hand' = [hand EXCEPT ![p] = "up"] /\ held' = [held EXCEPT ![p] = {}]
      /\ due' = [due EXCEPT ![p] = None] /\ push' = [push EXCEPT ![p] = NoPush]
  BY DEF ClosePage
<1>3. past'.ids = past.ids /\ DOMAIN past' = DOMAIN past
  BY DEF ClosePage, LiveInv, DocumentTypes
<1>4. IsCanvas(Opening)
  BY LiveAssumption DEF Opening, IsCanvas
<1>5. Canvases'
  BY <1>1, <1>2, <1>4 DEF LiveInv, Canvases
<1>6. DocumentTypes'
  <2>1. IsFiniteSet({})
    BY FS_EmptySet
  <2> QED BY <1>1, <1>2, <1>3, <2>1 DEF LiveInv, DocumentTypes
<1>7. ClosedPages'
  BY <1>2 DEF LiveInv, ClosedPages, DocumentTypes
<1>8. Known' \subseteq Known
  BY <1>1, <1>2 DEF LiveInv, DocumentTypes, Known
<1>9. \A q \in Pages : at'[q] # "closed" =>
        at[q] # "closed" /\ client'[q] = client[q] /\ local[q] \subseteq local'[q]
  BY <1>2 DEF LiveInv, DocumentTypes
<1>10. PathsHold'
  BY <1>3, <1>8, <1>9, PathsKept
<1>11. FlowHolds'
  BY <1>1, <1>2 DEF LiveInv, FlowHolds, DocumentTypes
<1>12. ASSUME NEW q \in Pages
       PROVE  /\ Covers(local'[q]) /\ Covers(local'[q] \cup inbox'[q])
              /\ ShowsDocument(scenes'[q], local'[q], held'[q])
  <2>1. CASE q = p
    <3>1. local'[q] = {} /\ inbox'[q] = {} /\ held'[q] = {}
      BY <1>2, <2>1 DEF LiveInv, DocumentTypes
    <3> QED BY <3>1 DEF Covers, ShowsDocument
  <2>2. CASE q # p
    BY <1>2, <2>2 DEF LiveInv, CoverHolds, ShownHolds, Canvases, DocumentTypes
  <2> QED BY <2>1, <2>2
<1>13. CoverHolds' /\ ShownHolds'
  BY <1>1, <1>12 DEF LiveInv, CoverHolds, ShownHolds
<1> QED BY <1>5, <1>6, <1>7, <1>10, <1>11, <1>13 DEF LiveInv

\* What the server has after a page has sent it its writes is what every other
\* page in the room has or has received.
LEMMA SendStep ==
  ASSUME LiveInv, NEW p \in Pages, Send(p)
  PROVE  LiveInv'
<1>1. UNCHANGED <<at, client, local, scenes, held, hand, past, due, push, check, stored>>
  BY DEF Send, pushVars, saveVars
<1>2. /\ at[p] = "joined" /\ unsent[p] # {} /\ live' = live \cup unsent[p]
      /\ unsent' = [unsent EXCEPT ![p] = {}]
      /\ inbox' = [q \in Pages |-> IF q = p THEN inbox[q] \cup live'
                                   ELSE IF at[q] = "joined" THEN inbox[q] \cup unsent[p]
                                   ELSE inbox[q]]
  BY DEF Send
<1>3. \A q \in Pages : /\ unsent[q] \subseteq local[q] /\ inbox[q] \subseteq live
                       /\ local[q] \subseteq live \cup unsent[q]
                       /\ at[q] = "joined" => live \subseteq local[q] \cup inbox[q]
  BY DEF LiveInv, FlowHolds
<1>4. Canvases'
  BY <1>1, CanvasesKept
<1>5. DocumentTypes'
  <2>1. live' \subseteq Write /\ IsFiniteSet(live')
    <3>1. live \subseteq Write /\ local[p] \subseteq Write /\ IsFiniteSet(local[p]) /\ IsFiniteSet(live)
      BY DEF LiveInv, DocumentTypes
    <3>2. IsFiniteSet(unsent[p])
      BY <1>3, <3>1, FS_Subset
    <3> QED BY <1>2, <1>3, <3>1, <3>2, FS_Union
  <2> QED BY <1>1, <1>2, <2>1 DEF LiveInv, DocumentTypes
<1>6. ClosedPages'
  BY <1>1, <1>2 DEF LiveInv, ClosedPages, DocumentTypes
<1>7. Known' \subseteq Known
  BY <1>1, <1>2, <1>3 DEF Known
<1>8. PathsHold'
  BY <1>1, <1>7, PathsKept
<1>9. ASSUME NEW q \in Pages
      PROVE  /\ unsent'[q] \subseteq local'[q] /\ inbox'[q] \subseteq live'
             /\ local'[q] \subseteq live' \cup unsent'[q]
             /\ at'[q] = "joined" => live' \subseteq local'[q] \cup inbox'[q]
  <2>1. DOMAIN unsent = Pages
    BY DEF LiveInv, DocumentTypes
  <2>2. CASE q = p
    BY <1>1, <1>2, <1>3, <2>1, <2>2
  <2>3. CASE q # p
    BY <1>1, <1>2, <1>3, <2>1, <2>3
  <2> QED BY <2>2, <2>3
<1>10. FlowHolds'
  BY <1>9 DEF FlowHolds
<1>11. Covers(live')
  <2>1. Covers(live) /\ Covers(local[p])
    BY DEF LiveInv, CoverHolds
  <2>2. CASE live # {}
    BY <1>2, <2>1, <2>2, CoversMore
  <2>3. CASE live = {}
    <3>1. live' = local[p]
      BY <1>2, <1>3, <2>3
    <3> QED BY <2>1, <3>1
  <2> QED BY <2>2, <2>3
<1>12. ASSUME NEW q \in Pages PROVE Covers(local'[q] \cup inbox'[q])
  <2>1. CASE q = p \/ at[q] = "joined"
    <3>1. live' \subseteq local'[q] \cup inbox'[q] /\ live' # {}
      BY <1>1, <1>2, <1>9, <2>1
    <3> QED BY <1>11, <3>1, CoversMore
  <2>2. CASE q # p /\ at[q] # "joined"
    <3>1. inbox'[q] = inbox[q]
      BY <1>2, <2>2
    <3> QED BY <1>1, <3>1 DEF LiveInv, CoverHolds
  <2> QED BY <2>1, <2>2
<1>13. CoverHolds' /\ ShownHolds'
  BY <1>1, <1>11, <1>12 DEF LiveInv, CoverHolds, ShownHolds
<1> QED BY <1>4, <1>5, <1>6, <1>8, <1>10, <1>13 DEF LiveInv

\* A canvas that is replaced shows the merged document.
LEMMA ApplyStep ==
  ASSUME LiveInv, NEW p \in Pages, Apply(p)
  PROVE  LiveInv'
<1>1. UNCHANGED <<at, client, unsent, live, past, due, push, check, stored>>
  BY DEF Apply, pushVars, saveVars
<1>2. /\ inbox[p] # {} /\ local' = [local EXCEPT ![p] = @ \cup inbox[p]]
      /\ inbox' = [inbox EXCEPT ![p] = {}]
      /\ \/ inbox[p] \subseteq local[p] /\ UNCHANGED <<scenes, hand, held>>
         \/ /\ scenes' = [scenes EXCEPT ![p] = MapOf(local'[p])]
            /\ hand' = [hand EXCEPT ![p] = IF @ = "down" THEN "late" ELSE @]
            /\ held' = [held EXCEPT ![p] = {}]
  BY DEF Apply
<1>3. \A q \in Pages : /\ unsent[q] \subseteq local[q] /\ inbox[q] \subseteq live
                       /\ local[q] \subseteq live \cup unsent[q]
                       /\ at[q] = "joined" => live \subseteq local[q] \cup inbox[q]
  BY DEF LiveInv, FlowHolds
<1>4. /\ DOMAIN local = Pages /\ DOMAIN inbox = Pages /\ DOMAIN scenes = Pages
      /\ DOMAIN held = Pages /\ DOMAIN hand = Pages
  BY DEF LiveInv, DocumentTypes, Canvases
<1>5. /\ local'[p] = local[p] \cup inbox[p] /\ inbox'[p] = {}
      /\ \A q \in Pages : q # p => local'[q] = local[q] /\ inbox'[q] = inbox[q]
      /\ DOMAIN local' = Pages /\ DOMAIN inbox' = Pages
  BY <1>2, <1>4
<1>6. Document(local'[p])
  BY <1>5, TheyAreDocuments
<1>7. Covers(local'[p]) /\ local'[p] # {}
  BY <1>2, <1>5 DEF LiveInv, CoverHolds
<1>8. IsCanvas(MapOf(local'[p])) /\ ShowsDocument(MapOf(local'[p]), local'[p], {})
  BY <1>6, <1>7, MapOfDocument, ShownWhenApplied
<1>9. /\ DOMAIN scenes' = Pages /\ DOMAIN held' = Pages /\ DOMAIN hand' = Pages
      /\ \A q \in Pages : q # p => scenes'[q] = scenes[q] /\ held'[q] = held[q] /\ hand'[q] = hand[q]
      /\ IsCanvas(scenes'[p]) /\ ShowsDocument(scenes'[p], local'[p], held'[p])
  <2>1. CASE inbox[p] \subseteq local[p] /\ UNCHANGED <<scenes, hand, held>>
    <3>1. local'[p] = local[p]
      BY <1>5, <2>1
    <3> QED BY <1>4, <2>1, <3>1 DEF LiveInv, Canvases, ShownHolds
  <2>2. CASE /\ scenes' = [scenes EXCEPT ![p] = MapOf(local'[p])]
             /\ hand' = [hand EXCEPT ![p] = IF @ = "down" THEN "late" ELSE @]
             /\ held' = [held EXCEPT ![p] = {}]
    <3>1. scenes'[p] = MapOf(local'[p]) /\ held'[p] = {}
      BY <1>4, <2>2
    <3> QED BY <1>4, <1>8, <2>2, <3>1
  <2> QED BY <1>2, <2>1, <2>2
<1>10. at[p] # "closed"
  BY <1>2 DEF LiveInv, ClosedPages
<1>11. Canvases'
  BY <1>1, <1>9 DEF LiveInv, Canvases
<1>12. DocumentTypes'
  BY <1>1, <1>5, <1>6, <1>9 DEF LiveInv, DocumentTypes, Document
<1>13. ClosedPages'
  BY <1>1, <1>5, <1>9, <1>10 DEF LiveInv, ClosedPages
<1>14. Known' \subseteq Known
  BY <1>1, <1>3, <1>5 DEF Known
<1>15. \A q \in Pages : local[q] \subseteq local'[q]
  BY <1>5
<1>16. PathsHold'
  BY <1>1, <1>14, <1>15, PathsKept
<1>17. FlowHolds'
  BY <1>1, <1>3, <1>5 DEF FlowHolds
<1>18. ASSUME NEW q \in Pages PROVE Covers(local'[q]) /\ Covers(local'[q] \cup inbox'[q])
  <2>1. CASE q = p
    <3>1. local'[q] \cup inbox'[q] = local'[q]
      BY <1>5, <2>1
    <3> QED BY <1>7, <2>1, <3>1
  <2>2. CASE q # p
    BY <1>5, <2>2 DEF LiveInv, CoverHolds
  <2> QED BY <2>1, <2>2
<1>19. CoverHolds'
  BY <1>1, <1>18 DEF LiveInv, CoverHolds
<1>20. ShownHolds'
  BY <1>5, <1>9 DEF LiveInv, ShownHolds
<1> QED BY <1>11, <1>12, <1>13, <1>16, <1>17, <1>19, <1>20 DEF LiveInv

\* A change that is not taken is on the canvas alone.
LEMMA HeldStep ==
  ASSUME LiveInv, NEW p \in Pages, NEW e \in Elements, DrawOn(p, e), quiet[p] \/ hand[p] = "late"
  PROVE  LiveInv'
<1> DEFINE scene == Drawn(scenes[p], e, client[p])
<1>1. UNCHANGED <<at, client, local, unsent, inbox, hand, live, due, push, check, stored>>
  BY DEF DrawOn, saveVars
<1>2. scenes' = [scenes EXCEPT ![p] = scene] /\ held' = [held EXCEPT ![p] = @ \cup {e}]
  BY DEF DrawOn, Drawn
<1>3. past'.ids = past.ids /\ DOMAIN past' = DOMAIN past /\ hand[p] # "up"
  BY DEF DrawOn, LiveInv, DocumentTypes
<1>4. /\ IsCanvas(scenes[p]) /\ client[p] \in Nat /\ Document(local[p])
      /\ ShowsDocument(scenes[p], local[p], held[p])
  BY TheyAreDocuments DEF LiveInv, Canvases, DocumentTypes, ShownHolds
<1>5. IsCanvas(scene) /\ ShowsDocument(scene, local[p], held[p] \cup {e})
  BY <1>4, DrawnIs, ShownWhenHeld
<1> HIDE DEF scene
<1>6. Canvases'
  BY <1>1, <1>2, <1>5 DEF LiveInv, Canvases
<1>7. DocumentTypes'
  BY <1>1, <1>2, <1>3 DEF LiveInv, DocumentTypes
<1>8. ClosedPages'
  BY <1>1, <1>2, <1>3 DEF LiveInv, ClosedPages, DocumentTypes
<1>9. Known' = Known
  BY <1>1 DEF Known
<1>10. PathsHold'
  BY <1>1, <1>3, <1>9, PathsKept
<1>11. FlowHolds' /\ CoverHolds'
  BY <1>1 DEF LiveInv, FlowHolds, CoverHolds
<1>12. ASSUME NEW q \in Pages PROVE ShowsDocument(scenes'[q], local'[q], held'[q])
  <2>1. DOMAIN scenes = Pages /\ DOMAIN held = Pages
    BY DEF LiveInv, Canvases, DocumentTypes
  <2>2. CASE q = p
    <3>1. scenes'[q] = scene /\ held'[q] = held[p] \cup {e} /\ local'[q] = local[p]
      BY <1>1, <1>2, <2>1, <2>2
    <3> QED BY <1>5, <3>1
  <2>3. CASE q # p
    <3>1. scenes'[q] = scenes[q] /\ held'[q] = held[q] /\ local'[q] = local[q]
      BY <1>1, <1>2, <2>1, <2>3
    <3> QED BY <3>1 DEF LiveInv, ShownHolds
  <2> QED BY <2>2, <2>3
<1>13. ShownHolds'
  BY <1>12 DEF ShownHolds
<1> QED BY <1>6, <1>7, <1>8, <1>10, <1>11, <1>13 DEF LiveInv

\* A change that is taken: no write of the page's client has the path of a new one,
\* and the document has every element of the canvas afterwards.
LEMMA TakenStep ==
  ASSUME LiveInv, NEW p \in Pages, NEW e \in Elements, DrawOn(p, e),
         ~(quiet[p] \/ hand[p] = "late")
  PROVE  LiveInv'
<1> DEFINE id == client[p]
           scene == Drawn(scenes[p], e, id)
           new == Written(local[p], scene, id, e)
<1>1. UNCHANGED <<at, client, inbox, hand, live, push, check, stored>>
  BY DEF DrawOn, saveVars
<1>2. /\ scenes' = [scenes EXCEPT ![p] = scene] /\ held' = [held EXCEPT ![p] = {}]
      /\ local' = [local EXCEPT ![p] = @ \cup new] /\ unsent' = [unsent EXCEPT ![p] = @ \cup new]
      /\ due' = [due EXCEPT ![p] = scene]
  BY DEF DrawOn, Drawn
<1>3. past'.ids = past.ids /\ DOMAIN past' = DOMAIN past /\ hand[p] # "up"
  BY DEF DrawOn, LiveInv, DocumentTypes
<1>4. /\ IsCanvas(scenes[p]) /\ id \in Nat /\ Document(local[p])
      /\ ShowsDocument(scenes[p], local[p], held[p])
  BY TheyAreDocuments DEF LiveInv, Canvases, DocumentTypes, ShownHolds
<1> HIDE DEF id
<1>5. IsCanvas(scene) /\ ShowsDocument(scene, local[p] \cup new, {})
  BY <1>4, DrawnIs, ShownWhenTaken
<1> HIDE DEF scene
<1>6. AreWritten(local[p], scene, id, new) /\ Takes(local[p], scene, new)
  BY <1>4, <1>5, WrittenAre, WrittenWins
<1> HIDE DEF new
<1>7. /\ DOMAIN local = Pages /\ DOMAIN unsent = Pages /\ DOMAIN scenes = Pages
      /\ DOMAIN held = Pages /\ DOMAIN due = Pages
  BY DEF LiveInv, DocumentTypes, Canvases
<1>8. /\ local'[p] = local[p] \cup new /\ unsent'[p] = unsent[p] \cup new
      /\ scenes'[p] = scene /\ held'[p] = {} /\ due'[p] = scene
      /\ DOMAIN local' = Pages /\ DOMAIN unsent' = Pages /\ DOMAIN scenes' = Pages
      /\ DOMAIN held' = Pages /\ DOMAIN due' = Pages
      /\ \A q \in Pages : q # p => /\ local'[q] = local[q] /\ unsent'[q] = unsent[q]
                                   /\ scenes'[q] = scenes[q] /\ held'[q] = held[q]
                                   /\ due'[q] = due[q]
  BY <1>2, <1>7
<1>9. at[p] # "closed"
  BY <1>3 DEF LiveInv, ClosedPages
<1>10. Canvases'
  BY <1>1, <1>5, <1>8 DEF LiveInv, Canvases
<1>11. local'[p] \subseteq Write /\ IsFiniteSet(local'[p])
  <2>1. /\ IsFiniteSet(local[p]) /\ IsFiniteSet(new)
        /\ local[p] \subseteq Write /\ new \subseteq Write
    BY <1>4, <1>6 DEF Document, AreWritten
  <2>2. IsFiniteSet(local[p] \cup new)
    BY <2>1, FS_Union
  <2> QED BY <1>8, <2>1, <2>2
<1>12. DocumentTypes'
  BY <1>1, <1>3, <1>8, <1>11 DEF LiveInv, DocumentTypes
<1>13. ClosedPages'
  BY <1>1, <1>8, <1>9 DEF LiveInv, ClosedPages
<1>14. /\ Known' = Known \cup new /\ new \subseteq Write
       /\ \A w \in new : LastId(w) = id
  BY <1>1, <1>6, <1>8 DEF Known, AreWritten, LastId
<1>15. /\ id \in past.ids
       /\ \A w \in Known : LastId(w) = id => w \in local[p]
       /\ \A q \in Pages : at[q] # "closed" /\ client[q] = id => q = p
  BY <1>9 DEF id, LiveInv, PathsHold
<1>16. DistinctPaths(Known')
  <2>1. ASSUME NEW v \in Known, NEW w \in new, v.el = w.el, v.path = w.path PROVE FALSE
    <3>1. LastId(v) = id
      BY <1>14, <2>1 DEF LastId
    <3>2. v \in WritesTo(local[p], w.el)
      BY <1>15, <2>1, <3>1 DEF WritesTo
    <3>3. Ahead(w.path, v.path) /\ w.path \in Paths
      BY <1>6, <3>2 DEF AreWritten, Write
    <3> QED BY <2>1, <3>3, AheadIrreflexive
  <2> QED BY <1>6, <1>14, <2>1 DEF DistinctPaths, AreWritten, LiveInv, PathsHold
<1>17. PathsHold'
  <2>1. \A w \in Known' : LastId(w) \in past'.ids
    BY <1>3, <1>14, <1>15 DEF LiveInv, PathsHold
  <2>2. ASSUME NEW q \in Pages, at'[q] # "closed"
        PROVE  /\ client'[q] \in past'.ids
               /\ \A w \in Known' : LastId(w) = client'[q] => w \in local'[q]
               /\ \A r \in Pages : at'[r] # "closed" /\ client'[r] = client'[q] => r = q
    <3>1. /\ client[q] \in past.ids
          /\ \A w \in Known : LastId(w) = client[q] => w \in local[q]
          /\ \A r \in Pages : at[r] # "closed" /\ client[r] = client[q] => r = q
      BY <1>1, <2>2 DEF LiveInv, PathsHold
    <3>2. ASSUME NEW w \in Known', LastId(w) = client'[q] PROVE w \in local'[q]
      <4>1. CASE w \in Known
        BY <1>1, <1>8, <3>1, <3>2, <4>1
      <4>2. CASE w \in new
        <5>1. client[q] = id
          BY <1>1, <1>14, <3>2, <4>2
        <5>2. q = p
          BY <1>1, <1>15, <2>2, <5>1
        <5> QED BY <1>8, <4>2, <5>2
      <4> QED BY <1>14, <4>1, <4>2
    <3> QED BY <1>1, <1>3, <3>1, <3>2
  <2> QED BY <1>16, <2>1, <2>2 DEF PathsHold, LastId
<1>18. FlowHolds'
  BY <1>1, <1>8 DEF LiveInv, FlowHolds
<1>19. ASSUME NEW q \in Pages
       PROVE  /\ Covers(local'[q]) /\ Covers(local'[q] \cup inbox'[q])
              /\ ShowsDocument(scenes'[q], local'[q], held'[q])
  <2>1. CASE q = p
    <3>1. Board \subseteq ElementsOf(local'[p])
      BY <1>5, <1>6, <1>8 DEF Takes, IsCanvas
    <3>2. ElementsOf(local'[p]) \subseteq ElementsOf(local'[p] \cup inbox'[p])
      BY DEF ElementsOf
    <3> QED BY <1>5, <1>8, <2>1, <3>1, <3>2 DEF Covers
  <2>2. CASE q # p
    BY <1>1, <1>8, <2>2 DEF LiveInv, CoverHolds, ShownHolds
  <2> QED BY <2>1, <2>2
<1>20. CoverHolds' /\ ShownHolds'
  BY <1>1, <1>19 DEF LiveInv, CoverHolds, ShownHolds
<1> QED BY <1>10, <1>12, <1>13, <1>17, <1>18, <1>20 DEF LiveInv

LEMMA LiveStep ==
  ASSUME LiveInv, [LiveNext]_liveVars
  PROVE  LiveInv'
<1>1. ASSUME NEW p \in Pages, NEW id \in 1 .. MaxClient, OpenPage(p, id) PROVE LiveInv'
  BY <1>1, OpenPageStep
<1>2. ASSUME NEW p \in Pages, NEW e \in Elements, DrawOn(p, e) PROVE LiveInv'
  BY <1>2, HeldStep, TakenStep
<1>3. ASSUME NEW p \in Pages, JoinPage(p) \/ LosePage(p) PROVE LiveInv'
  BY <1>3, JoinPageStep
<1>4. ASSUME NEW p \in Pages, ClosePage(p) PROVE LiveInv'
  BY <1>4, ClosePageStep
<1>5. ASSUME NEW p \in Pages, Press(p) \/ Lift(p) \/ Calm(p) PROVE LiveInv'
  BY <1>5, HandStep
<1>6. ASSUME NEW p \in Pages, Send(p) PROVE LiveInv'
  BY <1>6, SendStep
<1>7. ASSUME NEW p \in Pages, Apply(p) PROVE LiveInv'
  BY <1>7, ApplyStep
<1>8. ASSUME NEW p \in Pages, PushStart(p) \/ PushConflict(p) \/ Hear(p) \/ OwnerSave PROVE LiveInv'
  BY <1>8, PushStep
<1>9. ASSUME NEW p \in Pages, PushServed(p) PROVE LiveInv'
  BY <1>9, ServedStep
<1>10. Host \in Pages
  BY LiveAssumption
<1>11. ASSUME UNCHANGED liveVars PROVE LiveInv'
  BY <1>10, <1>11, HandStep
<1> QED
  BY <1>1, <1>2, <1>3, <1>4, <1>5, <1>6, <1>7, <1>8, <1>9, <1>10, <1>11, SaveStep DEF LiveNext

\* In every reachable state of LiveCanvas: whoever draws first, whatever is lost on
\* the way and in whatever order updates arrive, the elements the session's board
\* began with are in the server's document once it is not empty, in the checkpoint,
\* in the saved board and on every canvas.
THEOREM NothingIsEverDropped == LiveSpec => []NothingIsDropped
<1>1. LiveInit => LiveInv
  BY LiveInitHolds
<1>2. LiveInv /\ [LiveNext]_liveVars => LiveInv'
  BY LiveStep
<1>3. LiveInv => NothingIsDropped
  BY InvShows
<1> QED BY <1>1, <1>2, <1>3, PTL DEF LiveSpec

\* A page in the room that nothing is on its way to or from has the server's
\* document, and its canvas shows that document, but for what was drawn while
\* changes were not taken.
THEOREM SettledCanvasesShowTheSame == LiveSpec => []SettledCanvasesAgree
<1>1. LiveInit => LiveInv
  BY LiveInitHolds
<1>2. LiveInv /\ [LiveNext]_liveVars => LiveInv'
  BY LiveStep
<1>3. LiveInv => SettledCanvasesAgree
  BY InvShows
<1> QED BY <1>1, <1>2, <1>3, PTL DEF LiveSpec

-----------------------------------------------------------------------------
(* Types of the canvas.  Wherever a stamp has got to, its version is at    *)
(* most one above the number of changes drawn, and its author a client id. *)

StampsUpTo(n) == (1 .. n + 1) \X (0 .. MaxClient)
StampedUpTo(s, n) == s \in [DOMAIN s -> StampsUpTo(n)]

PagesFit ==
  /\ client \in [Pages -> 0 .. MaxClient] /\ quiet \in [Pages -> BOOLEAN]
  /\ hand \in [Pages -> {"up", "down", "late"}] /\ saving \in BOOLEAN

RevisionsFit ==
  /\ check.rev \in 1 .. MaxCheck /\ heard \in [Pages -> Nat]
  /\ \A p \in Pages : heard[p] <= check.rev

CanvasesFit(n) ==
  /\ StampedUpTo(check.board, n) /\ StampedUpTo(stored, n)
  /\ \A p \in Pages : /\ StampedUpTo(scenes[p], n)
                      /\ due[p] # None => StampedUpTo(due[p], n)
                      /\ push[p] # NoPush => StampedUpTo(push[p].board, n)

WritesFit(n) == \A w \in Known : w.at \in StampsUpTo(n)

LiveFits ==
  /\ past.changes \in 0 .. MaxDraws
  /\ PagesFit /\ RevisionsFit /\ CanvasesFit(past.changes) /\ WritesFit(past.changes)

LEMMA StampedLater ==
  ASSUME NEW n \in Nat, NEW s, StampedUpTo(s, n)
  PROVE  StampedUpTo(s, n + 1)
<1>1. StampsUpTo(n) \subseteq StampsUpTo(n + 1)
  BY LiveAssumption DEF StampsUpTo
<1> QED BY <1>1 DEF StampedUpTo

LEMMA CanvasIsScene ==
  ASSUME NEW n \in 0 .. MaxDraws, NEW s, IsCanvas(s), StampedUpTo(s, n)
  PROVE  s \in Scenes
<1>1. StampsUpTo(n) \subseteq Stamps
  BY LiveAssumption DEF StampsUpTo, Stamps
<1>2. s \in [DOMAIN s -> Stamps]
  BY <1>1 DEF StampedUpTo
<1>3. DOMAIN s \in {S \in SUBSET Elements : Board \subseteq S}
  BY DEF IsCanvas
<1> QED BY <1>2, <1>3 DEF Scenes

LEMMA FitsAreTypes ==
  ASSUME LiveInv, LiveFits
  PROVE  LiveTypes
<1>1. \A s : IsCanvas(s) /\ StampedUpTo(s, past.changes) => s \in Scenes
  BY CanvasIsScene DEF LiveFits
<1>2. NoPush.board = None
  BY DEF NoPush
<1>3. \A p \in Pages : scenes[p] \in Scenes /\ due[p] \in Scenes \cup {None}
                       /\ push[p].board \in Scenes \cup {None}
  BY <1>1, <1>2 DEF LiveInv, Canvases, LiveFits, CanvasesFit
<1>4. check.board \in Scenes /\ stored \in Scenes
  BY <1>1 DEF LiveInv, Canvases, LiveFits, CanvasesFit
<1> QED BY <1>3, <1>4 DEF LiveTypes, LiveFits, PagesFit, RevisionsFit, LiveInv, DocumentTypes

LEMMA DrawnIsStamped ==
  ASSUME NEW n \in Nat, NEW s, StampedUpTo(s, n), NEW e, NEW id \in 0 .. MaxClient
  PROVE  StampedUpTo(Drawn(s, e, id), n + 1)
<1> DEFINE scene == Drawn(s, e, id)
<1>1. scene = [f \in DOMAIN s \cup {e} |->
                 IF f = e THEN <<IF e \in DOMAIN s THEN s[e][1] + 1 ELSE 1, id>> ELSE s[f]]
  BY DEF Drawn
<1> HIDE DEF scene
<1>2. \A f \in DOMAIN s : s[f] \in StampsUpTo(n) /\ s[f] \in StampsUpTo(n + 1)
  BY StampedLater DEF StampedUpTo
<1>3. e \in DOMAIN s => s[e][1] + 1 \in 1 .. n + 1 + 1
  BY <1>2 DEF StampsUpTo
<1>4. <<IF e \in DOMAIN s THEN s[e][1] + 1 ELSE 1, id>> \in StampsUpTo(n + 1)
  BY <1>3 DEF StampsUpTo
<1>5. StampedUpTo(scene, n + 1)
  BY <1>1, <1>2, <1>4 DEF StampedUpTo
<1> QED BY <1>5 DEF scene

LEMMA MapIsStamped ==
  ASSUME NEW n, NEW doc, Document(doc), \A w \in doc : w.at \in StampsUpTo(n)
  PROVE  StampedUpTo(MapOf(doc), n)
<1>1. /\ DOMAIN MapOf(doc) = ElementsOf(doc)
      /\ \A e \in ElementsOf(doc) : MapOf(doc)[e] \in StampsUpTo(n)
  BY MapOfDocument, WinnerDominates, ElementsAreWritten
<1>2. MapOf(doc) = [e \in DOMAIN MapOf(doc) |-> MapOf(doc)[e]]
  BY DEF MapOf
<1> QED BY <1>1, <1>2 DEF StampedUpTo

LEMMA LiveFitsInit ==
  ASSUME LiveInit
  PROVE  LiveFits
<1>1. StampedUpTo(Opening, 0)
  BY LiveAssumption DEF StampedUpTo, StampsUpTo, Opening
<1>2. Known = {}
  BY DEF LiveInit, Known
<1>3. CanvasesFit(0) /\ WritesFit(0)
  BY <1>1, <1>2 DEF LiveInit, CanvasesFit, WritesFit
<1>4. PagesFit /\ past.changes = 0
  <2>1. /\ client = [p \in Pages |-> 0] /\ hand = [p \in Pages |-> "up"]
        /\ quiet = [p \in Pages |-> FALSE] /\ saving = FALSE /\ past.changes = 0
    BY DEF LiveInit
  <2>2. quiet \in [Pages -> BOOLEAN]
    BY <2>1
  <2>3. client \in [Pages -> 0 .. MaxClient] /\ hand \in [Pages -> {"up", "down", "late"}]
    BY <2>1, LiveAssumption
  <2> QED BY <2>1, <2>2, <2>3 DEF PagesFit
<1>5. RevisionsFit
  <2>1. check.rev = 1 /\ heard = [p \in Pages |-> 0]
    BY DEF LiveInit
  <2> QED BY <2>1, LiveAssumption DEF RevisionsFit
<1> QED BY <1>3, <1>4, <1>5, LiveAssumption DEF LiveFits

\* Whatever draws nothing and makes no canvas of its own keeps the stamps.
LEMMA StampsKept ==
  ASSUME LiveFits, past'.changes = past.changes, Known' \subseteq Known,
         UNCHANGED <<check, stored, scenes, due, push>>
  PROVE  CanvasesFit(past.changes)' /\ WritesFit(past.changes)'
  BY DEF LiveFits, CanvasesFit, WritesFit

\* Gestures, the quiet time, what a page receives and steps that do nothing.
LEMMA FitsAside ==
  ASSUME LiveInv, LiveFits, NEW p \in Pages,
         \/ Press(p) \/ Lift(p) \/ Calm(p) \/ JoinPage(p) \/ LosePage(p) \/ Hear(p)
         \/ UNCHANGED liveVars
  PROVE  LiveFits'
<1>1. UNCHANGED <<client, local, scenes, live, past, due, push, check, saving, stored>>
  BY DEF Press, Lift, Calm, JoinPage, LosePage, Hear, liveVars, pageVars, pushVars, saveVars
<1>2. Known' = Known
  BY <1>1 DEF Known
<1>3. CanvasesFit(past.changes)' /\ WritesFit(past.changes)'
  BY <1>1, <1>2, StampsKept
<1>4. hand' \in [Pages -> {"up", "down", "late"}]
  <2>1. hand \in [Pages -> {"up", "down", "late"}]
    BY DEF LiveFits, PagesFit
  <2>2. CASE Press(p)
    BY <2>1, <2>2 DEF Press
  <2>3. CASE Lift(p)
    BY <2>1, <2>3 DEF Lift
  <2>4. CASE hand' = hand
    BY <2>1, <2>4
  <2> QED BY <2>2, <2>3, <2>4 DEF Calm, JoinPage, LosePage, Hear, liveVars, pageVars
<1>5. quiet' \in [Pages -> BOOLEAN]
  <2>1. quiet \in [Pages -> BOOLEAN]
    BY DEF LiveFits, PagesFit
  <2>2. quiet' = quiet \/ quiet' = [quiet EXCEPT ![p] = FALSE]
    BY DEF Press, Lift, Calm, JoinPage, LosePage, Hear, liveVars, pageVars
  <2> QED BY <2>1, <2>2
<1>6. PagesFit'
  BY <1>1, <1>4, <1>5 DEF LiveFits, PagesFit
<1>7. RevisionsFit'
  <2>1. heard' = heard \/ heard' = [heard EXCEPT ![p] = check.rev]
    BY DEF Press, Lift, Calm, JoinPage, LosePage, Hear, liveVars, pushVars
  <2>2. check.rev \in Nat
    BY DEF LiveFits, RevisionsFit
  <2> QED BY <1>1, <2>1, <2>2 DEF LiveFits, RevisionsFit
<1> QED BY <1>1, <1>3, <1>6, <1>7 DEF LiveFits

\* A page opens with the checkpoint's canvas, and a client id of its own.
LEMMA FitsOpenPage ==
  ASSUME LiveInv, LiveFits, NEW p \in Pages, NEW id \in 1 .. MaxClient, OpenPage(p, id)
  PROVE  LiveFits'
<1>1. UNCHANGED <<local, quiet, hand, live, due, push, check, saving, stored>>
  BY DEF OpenPage, saveVars
<1>2. /\ client' = [client EXCEPT ![p] = id] /\ past'.changes = past.changes
      /\ scenes' = [scenes EXCEPT ![p] = check.board] /\ heard' = [heard EXCEPT ![p] = check.rev]
  BY DEF OpenPage, LiveInv, DocumentTypes
<1>3. Known' = Known
  BY <1>1 DEF Known
<1>4. PagesFit'
  BY <1>1, <1>2, LiveAssumption DEF LiveFits, PagesFit
<1>5. RevisionsFit'
  <2>1. check.rev \in Nat
    BY DEF LiveFits, RevisionsFit
  <2> QED BY <1>1, <1>2, <2>1 DEF LiveFits, RevisionsFit
<1>6. CanvasesFit(past.changes)'
  BY <1>1, <1>2 DEF LiveFits, CanvasesFit, LiveInv, Canvases
<1>7. WritesFit(past.changes)'
  BY <1>2, <1>3 DEF LiveFits, WritesFit
<1> QED BY <1>2, <1>4, <1>5, <1>6, <1>7 DEF LiveFits

LEMMA FitsClosePage ==
  ASSUME LiveInv, LiveFits, NEW p \in Pages, ClosePage(p)
  PROVE  LiveFits'
<1>1. UNCHANGED <<live, check, saving, stored>>
  BY DEF ClosePage, saveVars
<1>2. /\ client' = [client EXCEPT ![p] = 0] /\ past'.changes = past.changes
      /\ local' = [local EXCEPT ![p] = {}] /\ scenes' = [scenes EXCEPT ![p] = Opening]
      /\ quiet' = [quiet EXCEPT ![p] = FALSE] /\ hand' = [hand EXCEPT ![p] = "up"]
      /\ due' = [due EXCEPT ![p] = None] /\ push' = [push EXCEPT ![p] = NoPush]
      /\ heard' = [heard EXCEPT ![p] = 0]
  BY DEF ClosePage, LiveInv, DocumentTypes
<1>3. Known' \subseteq Known
  BY <1>1, <1>2 DEF LiveInv, DocumentTypes, Known
<1>4. PagesFit'
  <2>1. quiet' \in [Pages -> BOOLEAN]
    BY <1>2 DEF LiveFits, PagesFit
  <2>2. client' \in [Pages -> 0 .. MaxClient] /\ hand' \in [Pages -> {"up", "down", "late"}]
    BY <1>2, LiveAssumption DEF LiveFits, PagesFit
  <2> QED BY <1>1, <2>1, <2>2 DEF LiveFits, PagesFit
<1>5. RevisionsFit'
  <2>1. check.rev \in Nat
    BY DEF LiveFits, RevisionsFit
  <2> QED BY <1>1, <1>2, <2>1 DEF LiveFits, RevisionsFit
<1>6. StampedUpTo(Opening, past.changes)
  BY LiveAssumption DEF LiveFits, StampedUpTo, StampsUpTo, Opening
<1>7. CanvasesFit(past.changes)'
  BY <1>1, <1>2, <1>6 DEF LiveFits, CanvasesFit, LiveInv, Canvases
<1>8. WritesFit(past.changes)'
  BY <1>2, <1>3 DEF LiveFits, WritesFit
<1> QED BY <1>2, <1>4, <1>5, <1>7, <1>8 DEF LiveFits

LEMMA FitsSend ==
  ASSUME LiveInv, LiveFits, NEW p \in Pages, Send(p)
  PROVE  LiveFits'
<1>1. UNCHANGED <<client, local, scenes, quiet, hand, past, due, push, heard, check, saving, stored>>
  BY DEF Send, pushVars, saveVars
<1>2. unsent[p] \subseteq local[p] /\ live' = live \cup unsent[p]
  BY DEF Send, LiveInv, FlowHolds
<1>3. Known' \subseteq Known
  BY <1>1, <1>2 DEF Known
<1>4. CanvasesFit(past.changes)' /\ WritesFit(past.changes)'
  BY <1>1, <1>3, StampsKept
<1> QED BY <1>1, <1>4 DEF LiveFits, PagesFit, RevisionsFit

\* A canvas that is replaced has the stamps of the merged document.
LEMMA FitsApply ==
  ASSUME LiveInv, LiveFits, NEW p \in Pages, Apply(p)
  PROVE  LiveFits'
<1>1. UNCHANGED <<client, live, past, due, push, heard, check, saving, stored>>
  BY DEF Apply, pushVars, saveVars
<1>2. /\ local' = [local EXCEPT ![p] = @ \cup inbox[p]]
      /\ \/ UNCHANGED <<scenes, quiet, hand>>
         \/ /\ scenes' = [scenes EXCEPT ![p] = MapOf(local'[p])]
            /\ quiet' = [quiet EXCEPT ![p] = TRUE]
            /\ hand' = [hand EXCEPT ![p] = IF @ = "down" THEN "late" ELSE @]
  BY DEF Apply
<1>3. /\ DOMAIN local = Pages /\ DOMAIN scenes = Pages /\ inbox[p] \subseteq live
  BY DEF LiveInv, DocumentTypes, Canvases, FlowHolds
<1>4. local'[p] = local[p] \cup inbox[p] /\ \A q \in Pages : q # p => local'[q] = local[q]
  BY <1>2, <1>3
<1>5. Known' \subseteq Known
  BY <1>1, <1>3, <1>4 DEF Known
<1>6. StampedUpTo(MapOf(local'[p]), past.changes)
  <2>1. Document(local'[p])
    BY <1>4, TheyAreDocuments
  <2>2. \A w \in local'[p] : w \in Known
    BY <1>3, <1>4, <2>1 DEF Known, Document
  <2> QED BY <2>1, <2>2, MapIsStamped DEF LiveFits, WritesFit
<1>7. CanvasesFit(past.changes)'
  <2>1. \A q \in Pages : StampedUpTo(scenes'[q], past.changes)
    BY <1>2, <1>3, <1>6 DEF LiveFits, CanvasesFit
  <2> QED BY <1>1, <2>1 DEF LiveFits, CanvasesFit
<1>8. WritesFit(past.changes)'
  BY <1>1, <1>5 DEF LiveFits, WritesFit
<1>9. PagesFit'
  <2>1. quiet' \in [Pages -> BOOLEAN]
    BY <1>2 DEF LiveFits, PagesFit
  <2>2. hand' \in [Pages -> {"up", "down", "late"}]
    BY <1>2 DEF LiveFits, PagesFit
  <2> QED BY <1>1, <2>1, <2>2 DEF LiveFits, PagesFit
<1>10. RevisionsFit'
  BY <1>1 DEF LiveFits, RevisionsFit
<1> QED BY <1>1, <1>7, <1>8, <1>9, <1>10 DEF LiveFits

\* A checkpoint and the owner's save take a canvas as it is.
LEMMA FitsPush ==
  ASSUME LiveInv, LiveFits, NEW p \in Pages,
         PushStart(p) \/ PushServed(p) \/ PushConflict(p) \/ OwnerSave
  PROVE  LiveFits'
<1>1. UNCHANGED <<client, local, scenes, quiet, hand, live, past, stored>>
  BY DEF PushStart, PushServed, PushConflict, OwnerSave, pageVars, saveVars
<1>2. Host \in Pages
  BY LiveAssumption
<1>3. saving' \in BOOLEAN
  BY DEF PushStart, PushServed, PushConflict, OwnerSave, saveVars, LiveFits, PagesFit
<1>4. PagesFit'
  BY <1>1, <1>3 DEF LiveFits, PagesFit
<1>5. RevisionsFit'
  <2>1. /\ check.rev \in 1 .. MaxCheck /\ check.rev \in Nat /\ MaxCheck \in Nat
        /\ heard \in [Pages -> Nat] /\ \A q \in Pages : heard[q] <= check.rev
    BY LiveAssumption DEF LiveFits, RevisionsFit
  <2>2. CASE PushServed(p)
    <3>1. check'.rev = check.rev + 1 /\ heard' = [heard EXCEPT ![p] = check.rev + 1]
          /\ check.rev < MaxCheck
      BY <2>2 DEF PushServed
    <3>2. check'.rev \in 1 .. MaxCheck /\ heard' \in [Pages -> Nat]
      BY <2>1, <3>1
    <3>3. \A q \in Pages : heard'[q] <= check'.rev
      BY <2>1, <3>1
    <3> QED BY <3>2, <3>3 DEF RevisionsFit
  <2>3. CASE ~PushServed(p)
    <3>1. check' = check /\ (heard' = heard \/ heard' = [heard EXCEPT ![p] = check.rev])
      BY <2>3 DEF PushStart, PushConflict, OwnerSave
    <3> QED BY <2>1, <3>1 DEF RevisionsFit
  <2> QED BY <2>2, <2>3
<1>6. /\ \A q \in Pages : /\ due'[q] \in {due[q], None}
                          /\ push'[q] # NoPush => StampedUpTo(push'[q].board, past.changes)
      /\ StampedUpTo(check'.board, past.changes)
  <2>1. /\ DOMAIN due = Pages /\ DOMAIN push = Pages
        /\ StampedUpTo(check.board, past.changes)
        /\ \A q \in Pages : /\ due[q] # None => StampedUpTo(due[q], past.changes)
                            /\ StampedUpTo(scenes[q], past.changes)
                            /\ push[q] # NoPush => StampedUpTo(push[q].board, past.changes)
    BY DEF LiveInv, Canvases, LiveFits, CanvasesFit
  <2>2. CASE PushStart(p)
    BY <2>1, <2>2 DEF PushStart
  <2>3. CASE PushServed(p)
    <3>1. /\ push[p] # NoPush /\ due' = due /\ push' = [push EXCEPT ![p] = NoPush]
          /\ check'.board = push[p].board
      BY <2>3 DEF PushServed
    <3> QED BY <2>1, <3>1
  <2>4. CASE PushConflict(p)
    <3>1. push[p] # NoPush /\ due' = due /\ check' = check
      BY <2>4 DEF PushConflict
    <3>2. PICK x : /\ push' = [push EXCEPT ![p] = x]
                   /\ x = NoPush \/ x = [push[p] EXCEPT !.base = check.rev, !.tries = 2]
      BY <2>4 DEF PushConflict
    <3>3. x # NoPush => x.board = push[p].board
      BY <3>1, <3>2 DEF LiveInv, Canvases
    <3> QED BY <2>1, <3>1, <3>2, <3>3
  <2>5. CASE OwnerSave
    BY <1>2, <2>1, <2>5 DEF OwnerSave
  <2> QED BY <2>2, <2>3, <2>4, <2>5
<1>7. CanvasesFit(past.changes)'
  BY <1>1, <1>6 DEF LiveFits, CanvasesFit
<1>8. WritesFit(past.changes)'
  BY <1>1 DEF LiveFits, WritesFit, Known
<1> QED BY <1>1, <1>4, <1>5, <1>7, <1>8 DEF LiveFits

LEMMA FitsSave ==
  ASSUME LiveInv, LiveFits, SaveMaterialized
  PROVE  LiveFits'
<1>1. UNCHANGED <<client, local, scenes, quiet, hand, live, past, due, push, heard, check>>
  BY DEF SaveMaterialized, pageVars, pushVars
<1>2. saving' = FALSE /\ stored' = Materialized
  BY DEF SaveMaterialized
<1>3. StampedUpTo(Materialized, past.changes)
  <2>1. Document(live) /\ \A w \in live : w \in Known
    BY TheyAreDocuments DEF Known, Document
  <2>2. StampedUpTo(MapOf(live), past.changes)
    BY <2>1, MapIsStamped DEF LiveFits, WritesFit
  <2> QED BY <2>2 DEF Materialized, LiveFits, CanvasesFit
<1>4. CanvasesFit(past.changes)'
  BY <1>1, <1>2, <1>3 DEF LiveFits, CanvasesFit
<1>5. WritesFit(past.changes)'
  BY <1>1 DEF LiveFits, WritesFit, Known
<1> QED BY <1>1, <1>2, <1>4, <1>5 DEF LiveFits, PagesFit, RevisionsFit

\* One change more: the element drawn is at most one version above the newest.
LEMMA FitsDraw ==
  ASSUME LiveInv, LiveFits, NEW p \in Pages, NEW e \in Elements, DrawOn(p, e)
  PROVE  LiveFits'
<1> DEFINE n == past.changes
           id == client[p]
           scene == Drawn(scenes[p], e, id)
           new == Written(local[p], scene, id, e)
<1>1. UNCHANGED <<client, quiet, hand, push, heard, live, check, saving, stored>>
  BY DEF DrawOn, saveVars
<1>2. /\ scenes' = [scenes EXCEPT ![p] = scene]
      /\ \/ UNCHANGED <<local, due>>
         \/ local' = [local EXCEPT ![p] = @ \cup new] /\ due' = [due EXCEPT ![p] = scene]
  BY DEF DrawOn, Drawn
<1>3. n \in Nat /\ past'.changes = n + 1 /\ n + 1 \in 0 .. MaxDraws
  <2>1. past'.changes = n + 1 /\ n < MaxDraws
    BY DEF DrawOn, LiveInv, DocumentTypes
  <2> QED BY <2>1, LiveAssumption DEF LiveFits
<1>4. /\ DOMAIN scenes = Pages /\ DOMAIN local = Pages /\ DOMAIN due = Pages
      /\ id \in 0 .. MaxClient /\ id \in Nat /\ Document(local[p]) /\ IsCanvas(scenes[p])
  BY TheyAreDocuments, LiveAssumption DEF LiveInv, Canvases, DocumentTypes, LiveFits, PagesFit
<1>5. CanvasesFit(n) /\ WritesFit(n)
  BY DEF LiveFits
<1> HIDE DEF n, id
<1>6. StampedUpTo(scene, n + 1) /\ IsCanvas(scene)
  BY <1>3, <1>4, <1>5, DrawnIsStamped, DrawnIs DEF CanvasesFit
<1> HIDE DEF scene
<1>7. \A w \in new : w.at \in StampsUpTo(n + 1)
  <2>1. AreWritten(local[p], scene, id, new)
    BY <1>4, <1>6, WrittenAre
  <2> HIDE DEF new
  <2>2. \A w \in new : w.el \in DOMAIN scene /\ w.at = scene[w.el]
    BY <2>1 DEF AreWritten, WriteOf
  <2> QED BY <1>6, <2>2 DEF StampedUpTo
<1> HIDE DEF new
<1>8. \A s : StampedUpTo(s, n) => StampedUpTo(s, n + 1)
  BY <1>3, StampedLater
<1>9. CanvasesFit(past.changes)'
  <2>1. \A q \in Pages : StampedUpTo(scenes'[q], n + 1) /\ (due'[q] # None => StampedUpTo(due'[q], n + 1))
    BY <1>2, <1>4, <1>5, <1>6, <1>8 DEF CanvasesFit
  <2>2. \A q \in Pages : push'[q] # NoPush => StampedUpTo(push'[q].board, n + 1)
    BY <1>1, <1>5, <1>8 DEF CanvasesFit
  <2>3. StampedUpTo(check'.board, n + 1) /\ StampedUpTo(stored', n + 1)
    BY <1>1, <1>5, <1>8 DEF CanvasesFit
  <2> QED BY <1>3, <2>1, <2>2, <2>3 DEF CanvasesFit
<1>10. WritesFit(past.changes)'
  <2>1. \A w \in Known' : w \in Known \/ w \in new
    BY <1>1, <1>2, <1>4 DEF Known
  <2>2. StampsUpTo(n) \subseteq StampsUpTo(n + 1)
    BY <1>3, LiveAssumption DEF StampsUpTo
  <2>3. \A w \in Known' : w.at \in StampsUpTo(n + 1)
    BY <1>5, <1>7, <2>1, <2>2 DEF WritesFit
  <2> QED BY <1>3, <2>3 DEF WritesFit
<1> QED BY <1>1, <1>3, <1>9, <1>10 DEF LiveFits, PagesFit, RevisionsFit

LEMMA LiveFitsStep ==
  ASSUME LiveInv, LiveFits, [LiveNext]_liveVars
  PROVE  LiveFits'
<1>1. ASSUME NEW p \in Pages, NEW id \in 1 .. MaxClient, OpenPage(p, id) PROVE LiveFits'
  BY <1>1, FitsOpenPage
<1>2. ASSUME NEW p \in Pages, NEW e \in Elements, DrawOn(p, e) PROVE LiveFits'
  BY <1>2, FitsDraw
<1>3. ASSUME NEW p \in Pages, JoinPage(p) \/ LosePage(p) \/ Press(p) \/ Lift(p) \/ Calm(p) \/ Hear(p)
      PROVE  LiveFits'
  BY <1>3, FitsAside
<1>4. ASSUME NEW p \in Pages, ClosePage(p) PROVE LiveFits'
  BY <1>4, FitsClosePage
<1>5. ASSUME NEW p \in Pages, Send(p) PROVE LiveFits'
  BY <1>5, FitsSend
<1>6. ASSUME NEW p \in Pages, Apply(p) PROVE LiveFits'
  BY <1>6, FitsApply
<1>7. ASSUME NEW p \in Pages, PushStart(p) \/ PushServed(p) \/ PushConflict(p) \/ OwnerSave
      PROVE  LiveFits'
  BY <1>7, FitsPush
<1>8. Host \in Pages
  BY LiveAssumption
<1>9. ASSUME UNCHANGED liveVars PROVE LiveFits'
  BY <1>8, <1>9, FitsAside
<1> QED BY <1>1, <1>2, <1>3, <1>4, <1>5, <1>6, <1>7, <1>8, <1>9, FitsSave DEF LiveNext

\* The state of LiveCanvas has its types: whatever canvas a page shows, a checkpoint
\* holds or a save stores, it has the board's elements and no others than there
\* are, each at a version that the changes drawn account for and with a client id for its
\* author, and no page knows a checkpoint newer than the server's.
THEOREM LiveTypeCorrect == LiveSpec => []LiveTypes
<1>1. LiveInit => LiveInv /\ LiveFits
  BY LiveInitHolds, LiveFitsInit
<1>2. LiveInv /\ LiveFits /\ [LiveNext]_liveVars => (LiveInv /\ LiveFits)'
  BY LiveStep, LiveFitsStep
<1>3. LiveInv /\ LiveFits => LiveTypes
  BY FitsAreTypes
<1> QED BY <1>1, <1>2, <1>3, PTL DEF LiveSpec

-----------------------------------------------------------------------------
(* What is drawn is kept, unless an update replaces a canvas that holds a  *)
(* change not taken.                                                       *)

\* The one step that loses what was drawn: an update that changes the document
\* reaches a canvas with a change that was not taken into the document.
NoneHeldIsReplaced ==
  \A p \in Pages : Apply(p) /\ ~(inbox[p] \subseteq local[p]) => held[p] = {}

\* What somebody drew is in the document, on its way there, or held by a canvas.
DrawnOrHeld ==
  \A e \in past.drawn : \E p \in Pages :
    e \in held[p] \/ WritesTo(live \cup unsent[p], e) # {}

LEMMA HeldIsShown ==
  ASSUME LiveInv, DrawnOrHeld
  PROVE  DrawnIsKept
<1>1. \A p \in Pages : held[p] \subseteq DOMAIN scenes[p]
  BY DEF LiveInv, ShownHolds, ShowsDocument
<1> QED BY <1>1 DEF DrawnOrHeld, DrawnIsKept

\* A document loses no element by growing.
LEMMA WritesRemain ==
  ASSUME NEW doc, NEW more, doc \subseteq more, NEW e, WritesTo(doc, e) # {}
  PROVE  WritesTo(more, e) # {}
  BY DEF WritesTo

\* A step that takes nothing from what canvases hold or pages have to send, and
\* after which nothing more was drawn.
LEMMA KeptAside ==
  ASSUME DrawnOrHeld, past'.drawn \subseteq past.drawn, live \subseteq live',
         \A p \in Pages : held[p] \subseteq held'[p] /\ unsent[p] \subseteq live' \cup unsent'[p]
  PROVE  DrawnOrHeld'
<1> SUFFICES ASSUME NEW e \in past'.drawn
             PROVE  \E p \in Pages : e \in held'[p] \/ WritesTo(live' \cup unsent'[p], e) # {}
  BY DEF DrawnOrHeld
<1>1. PICK p \in Pages : e \in held[p] \/ WritesTo(live \cup unsent[p], e) # {}
  BY DEF DrawnOrHeld
<1>2. live \cup unsent[p] \subseteq live' \cup unsent'[p]
  OBVIOUS
<1>3. e \in held'[p] \/ WritesTo(live' \cup unsent'[p], e) # {}
  BY <1>1, <1>2, WritesRemain
<1> QED BY <1>3

\* A change that is taken takes all that the canvas held with it.
LEMMA KeptWhenTaken ==
  ASSUME LiveInv, DrawnOrHeld, NEW p \in Pages, NEW e \in Elements, DrawOn(p, e),
         ~(quiet[p] \/ hand[p] = "late")
  PROVE  DrawnOrHeld'
<1> DEFINE id == client[p]
           scene == Drawn(scenes[p], e, id)
           new == Written(local[p], scene, id, e)
<1>1. /\ held' = [held EXCEPT ![p] = {}] /\ local' = [local EXCEPT ![p] = @ \cup new]
      /\ unsent' = [unsent EXCEPT ![p] = @ \cup new] /\ live' = live
      /\ past' = [past EXCEPT !.drawn = @ \cup {e}, !.changes = @ + 1]
  BY DEF DrawOn, Drawn
<1>2. /\ IsCanvas(scenes[p]) /\ id \in Nat /\ Document(local[p])
      /\ held[p] \subseteq DOMAIN scenes[p] /\ local[p] \subseteq live \cup unsent[p]
  BY TheyAreDocuments DEF LiveInv, Canvases, DocumentTypes, ShownHolds, ShowsDocument, FlowHolds
<1> HIDE DEF id
<1>3. IsCanvas(scene) /\ DOMAIN scene = DOMAIN scenes[p] \cup {e}
  BY <1>2, DrawnIs
<1> HIDE DEF scene
<1>4. ElementsOf(local[p] \cup new) = ElementsOf(local[p]) \cup DOMAIN scene
  <2>1. Takes(local[p], scene, new)
    BY <1>2, <1>3, WrittenWins
  <2> QED BY <2>1 DEF Takes
<1> HIDE DEF new
<1>5. /\ held'[p] = {} /\ unsent'[p] = unsent[p] \cup new
      /\ \A q \in Pages : q # p => held'[q] = held[q] /\ unsent'[q] = unsent[q]
      /\ past'.drawn = past.drawn \cup {e}
  BY <1>1 DEF LiveInv, DocumentTypes
<1>6. ASSUME NEW f \in DOMAIN scene PROVE WritesTo(live' \cup unsent'[p], f) # {}
  <2>1. WritesTo(local[p] \cup new, f) # {}
    BY <1>4, ElementsAreWritten
  <2>2. local[p] \cup new \subseteq live' \cup unsent'[p]
    BY <1>1, <1>2, <1>5
  <2> QED BY <2>1, <2>2, WritesRemain
<1> SUFFICES ASSUME NEW f \in past'.drawn
             PROVE  \E q \in Pages : f \in held'[q] \/ WritesTo(live' \cup unsent'[q], f) # {}
  BY DEF DrawnOrHeld
<1>7. CASE f \in DOMAIN scene
  BY <1>6, <1>7
<1>8. CASE f \notin DOMAIN scene
  <2>1. f \in past.drawn /\ f \notin held[p]
    BY <1>2, <1>3, <1>5, <1>8
  <2>2. PICK q \in Pages : f \in held[q] \/ WritesTo(live \cup unsent[q], f) # {}
    BY <2>1 DEF DrawnOrHeld
  <2>3. held[q] \subseteq held'[q] \/ q = p
    BY <1>5
  <2>4. live \cup unsent[q] \subseteq live' \cup unsent'[q]
    BY <1>1, <1>5
  <2>5. f \in held'[q] \/ WritesTo(live' \cup unsent'[q], f) # {}
    BY <2>1, <2>2, <2>3, <2>4, WritesRemain
  <2> QED BY <2>5
<1> QED BY <1>7, <1>8

LEMMA KeptWhenDrawn ==
  ASSUME LiveInv, DrawnOrHeld, NEW p \in Pages, NEW e \in Elements, DrawOn(p, e)
  PROVE  DrawnOrHeld'
<1>1. CASE ~(quiet[p] \/ hand[p] = "late")
  BY <1>1, KeptWhenTaken
<1>2. CASE quiet[p] \/ hand[p] = "late"
  <2>1. /\ held' = [held EXCEPT ![p] = @ \cup {e}] /\ live' = live /\ unsent' = unsent
        /\ past' = [past EXCEPT !.drawn = @ \cup {e}, !.changes = @ + 1]
    BY <1>2 DEF DrawOn
  <2>2. /\ past'.drawn = past.drawn \cup {e} /\ e \in held'[p]
        /\ \A q \in Pages : held[q] \subseteq held'[q]
    BY <2>1 DEF LiveInv, DocumentTypes
  <2> SUFFICES ASSUME NEW f \in past'.drawn
               PROVE  \E q \in Pages : f \in held'[q] \/ WritesTo(live' \cup unsent'[q], f) # {}
    BY DEF DrawnOrHeld
  <2>3. CASE f = e
    BY <2>2, <2>3
  <2>4. CASE f # e
    <3>1. PICK q \in Pages : f \in held[q] \/ WritesTo(live \cup unsent[q], f) # {}
      BY <2>2, <2>4 DEF DrawnOrHeld
    <3>2. f \in held'[q] \/ WritesTo(live' \cup unsent'[q], f) # {}
      BY <2>1, <2>2, <3>1
    <3> QED BY <3>2
  <2> QED BY <2>3, <2>4
<1> QED BY <1>1, <1>2

LEMMA KeptWhenApplied ==
  ASSUME LiveInv, DrawnOrHeld, NEW p \in Pages, Apply(p),
         ~(inbox[p] \subseteq local[p]) => held[p] = {}
  PROVE  DrawnOrHeld'
<1>1. UNCHANGED <<unsent, live, past>>
  BY DEF Apply
<1>2. held' = held \/ (held[p] = {} /\ held' = [held EXCEPT ![p] = {}])
  BY DEF Apply
<1>3. \A q \in Pages : held[q] \subseteq held'[q]
  BY <1>2 DEF LiveInv, DocumentTypes
<1> QED BY <1>1, <1>3, KeptAside

LEMMA KeptWhenSent ==
  ASSUME LiveInv, DrawnOrHeld, NEW p \in Pages, Send(p)
  PROVE  DrawnOrHeld'
<1>1. live' = live \cup unsent[p] /\ unsent' = [unsent EXCEPT ![p] = {}]
  BY DEF Send
<1>2. UNCHANGED <<held, past>>
  BY DEF Send
<1>3. \A q \in Pages : unsent[q] \subseteq live' \cup unsent'[q]
  BY <1>1 DEF LiveInv, DocumentTypes
<1> QED BY <1>1, <1>2, <1>3, KeptAside

LEMMA KeptStep ==
  ASSUME LiveInv, DrawnOrHeld, [LiveNext]_liveVars, [NoneHeldIsReplaced]_liveVars
  PROVE  DrawnOrHeld'
<1>1. ASSUME NEW p \in Pages, NEW e \in Elements, DrawOn(p, e) PROVE DrawnOrHeld'
  BY <1>1, KeptWhenDrawn
<1>2. ASSUME NEW p \in Pages, Apply(p) PROVE DrawnOrHeld'
  <2>1. CASE NoneHeldIsReplaced
    BY <1>2, <2>1, KeptWhenApplied DEF NoneHeldIsReplaced
  <2>2. CASE UNCHANGED liveVars
    BY <2>2, KeptAside DEF liveVars, pageVars
  <2> QED BY <2>1, <2>2
<1>3. ASSUME NEW p \in Pages, Send(p) PROVE DrawnOrHeld'
  BY <1>3, KeptWhenSent
<1>4. ASSUME NEW p \in Pages, ClosePage(p) PROVE DrawnOrHeld'
  <2>1. past' = [past EXCEPT !.drawn = {}]
    BY <1>4 DEF ClosePage
  <2>2. past'.drawn = {}
    BY <2>1 DEF LiveInv, DocumentTypes
  <2> QED BY <2>2 DEF DrawnOrHeld
<1>5. ASSUME NEW p \in Pages, NEW id \in 1 .. MaxClient, OpenPage(p, id) PROVE DrawnOrHeld'
  <2>1. UNCHANGED <<live, unsent, held>> /\ past' = [past EXCEPT !.ids = @ \cup {id}]
    BY <1>5 DEF OpenPage
  <2>2. past'.drawn = past.drawn
    BY <2>1
  <2> QED BY <2>1, <2>2, KeptAside
<1>6. ASSUME NEW p \in Pages, JoinPage(p) \/ LosePage(p) \/ Press(p) \/ Lift(p) \/ Calm(p)
      PROVE  DrawnOrHeld'
  <2>1. UNCHANGED <<live, unsent, held, past>>
    BY <1>6 DEF JoinPage, LosePage, Press, Lift, Calm
  <2> QED BY <2>1, KeptAside
<1>7. ASSUME NEW p \in Pages, PushStart(p) \/ PushServed(p) \/ PushConflict(p) \/ Hear(p)
      PROVE  DrawnOrHeld'
  <2>1. UNCHANGED <<live, unsent, held, past>>
    BY <1>7 DEF PushStart, PushServed, PushConflict, Hear, pageVars
  <2> QED BY <2>1, KeptAside
<1>8. ASSUME OwnerSave \/ SaveMaterialized \/ UNCHANGED liveVars PROVE DrawnOrHeld'
  <2>1. UNCHANGED <<live, unsent, held, past>>
    BY <1>8 DEF OwnerSave, SaveMaterialized, liveVars, pageVars
  <2> QED BY <2>1, KeptAside
<1> QED BY <1>1, <1>2, <1>3, <1>4, <1>5, <1>6, <1>7, <1>8 DEF LiveNext

\* What somebody drew stays, in every behaviour of LiveCanvas in which no update that
\* changes the document reaches a canvas holding a change that was not taken.  So
\* that step is the only way to the loss that the run canvas_overwritten shows:
\* no save, no lost connection and no order of updates leads to it.
THEOREM DrawnElementsAreKept ==
  LiveSpec /\ [][NoneHeldIsReplaced]_liveVars => []DrawnIsKept
<1>1. LiveInit => LiveInv /\ DrawnOrHeld
  <2>1. LiveInit => DrawnOrHeld
    BY DEF LiveInit, DrawnOrHeld
  <2> QED BY <2>1, LiveInitHolds
<1>2. LiveInv /\ DrawnOrHeld /\ [LiveNext]_liveVars /\ [NoneHeldIsReplaced]_liveVars
        => (LiveInv /\ DrawnOrHeld)'
  BY LiveStep, KeptStep
<1>3. LiveInv /\ DrawnOrHeld => DrawnIsKept
  BY HeldIsShown
<1> QED BY <1>1, <1>2, <1>3, PTL DEF LiveSpec
=============================================================================
