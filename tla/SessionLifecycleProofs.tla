------------------------ MODULE SessionLifecycleProofs ------------------------
(* A session that ended has ended on the collab server, for any number of     *)
(* sessions and requests and wherever they are cut short.  The row is closed  *)
(* some awaits after the collab server has answered, and by then the purge    *)
(* may have removed the collab session, or a change of status that was        *)
(* admitted earlier may have opened it again: what is shown is that nothing   *)
(* is left by then that would register it again, and that such a change is    *)
(* the only way back.                                                         *)
EXTENDS SessionLifecycle, TLAPS

IsRow(row) ==
  row = [kind |-> row.kind, path |-> row.path, status |-> row.status, base |-> row.base,
         expiry |-> row.expiry, purge |-> row.purge, saw |-> row.saw]
IsRequest(q) ==
  q = [op |-> q.op, at |-> q.at, s |-> q.s, kind |-> q.kind, path |-> q.path, sha |-> q.sha,
       content |-> q.content, saw |-> q.saw, status |-> q.status, done |-> q.done]

\* Requests about one session.
AboutOne(q) == q.op \in {"status", "save", "delete", "write", "ensure"} \/ (q.op = "create" /\ q.at # "insert")

Shapes ==
  /\ \A s \in DOMAIN rows : IsRow(rows[s])
  /\ DOMAIN request = WebRequests /\ request = [r \in WebRequests |-> request[r]]
  /\ \A r \in WebRequests :
       /\ IsRequest(request[r]) /\ request[r].s \cup request[r].done \subseteq born
       /\ request[r].status \in Statuses
       /\ AboutOne(request[r]) => request[r].s = {Of(r)}
  /\ collab \in [Sessions -> Statuses \cup {"absent"}]
  /\ moving \subseteq WebRequests \X Sessions \X Statuses /\ overtaken \subseteq Sessions
  /\ DOMAIN rows \subseteq born /\ born \subseteq Sessions /\ answered \subseteq born

\* No request is left that would register s again.
Registering == {"create", "write", "ensure"}
Safe(s) == \A r \in WebRequests : request[r].op \in Registering => s \notin request[r].s

\* s has ended on the collab server, or was opened again there by a change of status
\* that was admitted before, or is gone from there for good.
EndedThere(s) ==
  \/ collab[s] = "closed" \/ s \in overtaken
  \/ collab[s] = "absent" /\ rows[s].kind = "adhoc" /\ Safe(s) /\ Ended(s)

\* Of the rows, the collab server lacks only those that the purge has been at.
Listed(s) == collab[s] = "absent" => rows[s].kind = "adhoc" /\ rows[s].purge # "unset"

\* Only ad-hoc sessions that have ended are purged, and no request is as old as that.
PurgesEnded ==
  \A s \in DOMAIN rows :
    /\ rows[s].expiry # "none" => rows[s].kind = "adhoc"
    /\ rows[s].purge # "unset" => rows[s].kind = "adhoc" /\ (s \in reopened \/ Ended(s))
    /\ rows[s].purge = "due" => s \in reopened \/ Safe(s)

\* What a request that is to close or purge s has made sure of.
RequestsKnow ==
  \A r \in WebRequests :
    \A s \in request[r].s \cap DOMAIN rows :
      LET q == request[r]
      IN  /\ q.op = "status" => q.kind = rows[s].kind
          /\ Stands(r, "status", "row") /\ q.status = "closed" => s \in reopened \/ EndedThere(s)
          /\ Stands(r, "status", "purge") =>
               rows[s].kind = "adhoc" /\ (s \in reopened \/ rows[s].status = "closed")
          /\ q.op = "purge" => rows[s].kind = "adhoc" /\ (s \in reopened \/ (Safe(s) /\ Ended(s)))
          /\ q.op = "purge" => rows[s].purge # "unset"
          /\ Stands(r, "create", "invites") => Listed(s)

\* What a purge knows of sessions whose row is gone, and what a request has done.
WorkKnown ==
  \A r \in WebRequests :
    /\ request[r].op = "purge" => \A s \in request[r].s : s \in reopened \/ Safe(s)
    /\ \A s \in request[r].done \cap DOMAIN rows : s \in unclosed \cup reopened \/ EndedThere(s)

\* A session is created by one request, which answers at its end.
CreatesApart ==
  \A r \in WebRequests : request[r].op = "create" =>
    \A s \in request[r].s :
      /\ s \notin answered
      /\ \A x \in WebRequests \ {r} : request[x].op = "create" => s \notin request[x].s

\* A session whose creation was answered is known to the collab server, until it
\* is gone and closed, or somebody is about to close it.
Out(s) == collab[s] = "closed" \/ s \in overtaken \/ (collab[s] = "absent" /\ Safe(s))
ToClose(s) == \E r \in WebRequests : Stands(r, "delete", "close") /\ s \in request[r].s
AnsweredListed == \A s \in answered \cap DOMAIN rows : Listed(s)
AnsweredGone ==
  \A s \in answered \ DOMAIN rows : s \in unclosed \cup reopened \/ Out(s) \/ ToClose(s)

ClosedHasEnded == \A s \in DOMAIN rows \ reopened : rows[s].status = "closed" => EndedThere(s)

LInv ==
  /\ Shapes /\ PurgesEnded /\ RequestsKnow /\ ClosedHasEnded
  /\ WorkKnown /\ CreatesApart /\ AnsweredListed /\ AnsweredGone

-----------------------------------------------------------------------------
(* What a step may do to rows, to collab sessions and to requests.         *)

RowsAllowed ==
  /\ reopened \subseteq reopened'
  /\ \A s \in DOMAIN rows' \ DOMAIN rows :
       /\ s \notin born /\ rows'[s].purge = "unset" /\ rows'[s].status = "active"
       /\ rows'[s].expiry # "none" => rows'[s].kind = "adhoc"
  /\ \A s \in DOMAIN rows' \cap DOMAIN rows :
       /\ rows'[s].kind = rows[s].kind
       /\ rows'[s].expiry # "none" => rows[s].expiry # "none"
       /\ rows[s].expiry = "past" => rows'[s].expiry = "past"
       /\ rows[s].status = "closed" => rows'[s].status = "closed" \/ s \in reopened'
       /\ rows'[s].status = "closed" => rows[s].status = "closed" \/ s \in reopened \/ EndedThere(s)
       /\ rows'[s].purge # "unset" => rows[s].purge # "unset" \/ (rows[s].kind = "adhoc" /\ (s \in reopened \/ Ended(s)))
       /\ rows'[s].purge = "due" => rows[s].purge = "due" \/ Safe(s)
       /\ rows[s].purge # "unset" => rows'[s].purge # "unset"

\* A session is answered at the end of its creation, and its row goes when it was
\* never answered, was closed first, or is about to be closed.
AnswersAllowed ==
  \A s \in answered' \ answered :
    \E r \in WebRequests :
      /\ Stands(r, "create", "invites") /\ s \in request[r].s \cap DOMAIN rows \cap DOMAIN rows'
      /\ request'[r] = IdleRequest
GoneAllowed ==
  /\ \A s \in unclosed \ unclosed' : collab'[s] = "closed"
  /\ \A s \in (DOMAIN rows \ DOMAIN rows') \cap answered' :
       \/ \E r \in WebRequests : s \in request[r].done
       \/ ToClose(s)'

CollabAllowed ==
  /\ \A s \in overtaken \ overtaken' : collab'[s] = "closed"
  /\ \A s \in Sessions :
       \/ collab'[s] = collab[s]
       \/ collab[s] \notin {"closed", "absent"} /\ collab'[s] # "absent"
       \/ collab[s] = "closed" /\ collab'[s] # "absent" /\ s \in overtaken'
       \/ collab'[s] = "absent" /\ \E r \in WebRequests : request[r].op = "purge" /\ s \in request[r].s
       \/ collab[s] = "absent" /\ ~Safe(s)

RequestAllowed(r, q) ==
  \A s \in q.s :
    /\ q.op \in Registering =>
         \/ request[r].op \in Registering /\ s \in request[r].s
         \/ s \notin born
         \/ s \in DOMAIN rows /\ (~Ended(s) \/ rows[s].kind # "adhoc")
    /\ q.op = "create" => request[r].op = "create" /\ (s \in request[r].s \/ s \notin born)
    /\ q.op = "create" /\ q.at = "invites" =>
         \/ Stands(r, "create", "invites") /\ s \in request[r].s
         \/ collab'[s] # "absent"
    /\ q.op = "purge" =>
         \/ request[r].op = "purge" /\ s \in request[r].s
         \/ s \in DOMAIN rows /\ rows[s].purge = "due"
    /\ s \in DOMAIN rows' =>
         /\ q.op = "status" => q.kind = rows'[s].kind
         /\ q.op = "status" /\ q.at = "row" /\ q.status = "closed" =>
              \/ Stands(r, "status", "row") /\ request[r].status = "closed" /\ s \in request[r].s
              \/ collab'[s] = "closed"
         /\ q.op = "status" /\ q.at = "purge" =>
              \/ Stands(r, "status", "purge") /\ s \in request[r].s
              \/ rows'[s].status = "closed" /\ rows'[s].kind = "adhoc"

\* A deletion does not pass its close without closing or saying so; what a request
\* has done is closed or gone.
WorkAllowed(r, q) ==
  /\ Stands(r, "delete", "close") /\ q # request[r] =>
       \A s \in request[r].s : collab'[s] = "closed" \/ s \in unclosed'
  /\ \A s \in q.done \cap DOMAIN rows' :
       \/ s \in request[r].done \cup unclosed'
       \/ collab'[s] = "closed"
       \/ collab'[s] = "absent" /\ request[r].op = "purge" /\ s \in request[r].s

RequestsAllowed ==
  /\ \A r \in WebRequests : RequestAllowed(r, request'[r]) /\ WorkAllowed(r, request'[r])
  /\ \A r, x \in WebRequests : r = x \/ request'[r] = request[r] \/ request'[x] = request[x]

\* Nothing registers a session again that has ended, is ad hoc and safe.
LEMMA SafeStays ==
  ASSUME LInv, RowsAllowed, RequestsAllowed, NEW s \in DOMAIN rows, rows[s].kind = "adhoc", Ended(s), Safe(s)
  PROVE  Safe(s)'
<1>1. s \in born
  BY DEF LInv, Shapes
<1>2. ASSUME NEW r \in WebRequests, request'[r].op \in Registering, s \in request'[r].s
      PROVE  FALSE
  <2>1. RequestAllowed(r, request'[r])
    BY DEF RequestsAllowed
  <2> QED BY <1>1, <1>2, <2>1 DEF RequestAllowed, Safe
<1> QED BY <1>2 DEF Safe

LEMMA EndedStays ==
  ASSUME RowsAllowed, NEW s \in DOMAIN rows \cap DOMAIN rows', Ended(s)
  PROVE  Ended(s)' \/ s \in reopened'
  BY DEF RowsAllowed, Ended

\* What has ended on the collab server stays so, also when the purge removes it.
LEMMA EndedThereStays ==
  ASSUME LInv, RowsAllowed, CollabAllowed, RequestsAllowed, NEW s \in DOMAIN rows \cap DOMAIN rows',
         s \notin reopened', EndedThere(s)
  PROVE  EndedThere(s)'
<1>1. s \in Sessions /\ s \in born /\ rows'[s].kind = rows[s].kind /\ s \notin reopened
  BY DEF LInv, Shapes, RowsAllowed
<1>2. CASE collab'[s] = collab[s] /\ collab[s] = "closed"
  BY <1>2 DEF EndedThere
<1>3. CASE collab[s] = "absent" /\ rows[s].kind = "adhoc" /\ Safe(s) /\ Ended(s)
  <2>1. Safe(s)' /\ Ended(s)'
    BY <1>1, <1>3, SafeStays, EndedStays
  <2>2. collab'[s] = "absent"
    BY <1>1, <1>3 DEF CollabAllowed
  <2> QED BY <1>1, <1>3, <2>1, <2>2 DEF EndedThere
<1>a. CASE s \in overtaken
  BY <1>a DEF CollabAllowed, EndedThere
<1>b. CASE s \in overtaken'
  BY <1>b DEF EndedThere
<1>4. CASE collab[s] = "closed" /\ collab'[s] # collab[s] /\ s \notin overtaken'
  <2>1. collab'[s] = "absent" /\ \E r \in WebRequests : request[r].op = "purge" /\ s \in request[r].s
    BY <1>1, <1>4 DEF CollabAllowed
  <2>2. rows[s].kind = "adhoc" /\ Safe(s) /\ Ended(s)
    BY <1>1, <2>1 DEF LInv, RequestsKnow
  <2>3. Safe(s)' /\ Ended(s)'
    BY <1>1, <2>2, SafeStays, EndedStays
  <2> QED BY <1>1, <2>1, <2>2, <2>3 DEF EndedThere
<1> QED BY <1>2, <1>3, <1>a, <1>b, <1>4 DEF EndedThere

\* A row that the collab server lacks is one that the purge has been at.
LEMMA ListedStays ==
  ASSUME LInv, RowsAllowed, CollabAllowed, NEW s \in DOMAIN rows \cap DOMAIN rows', Listed(s)
  PROVE  Listed(s)'
<1>1. s \in Sessions
  BY DEF LInv, Shapes
<1>2. /\ rows'[s].kind = rows[s].kind
      /\ rows[s].purge # "unset" => rows'[s].purge # "unset"
  BY DEF RowsAllowed
<1>3. ASSUME collab'[s] = "absent", collab[s] # "absent"
      PROVE  rows[s].kind = "adhoc" /\ rows[s].purge # "unset"
  <2>1. \E r \in WebRequests : request[r].op = "purge" /\ s \in request[r].s
    BY <1>1, <1>3 DEF CollabAllowed
  <2> QED BY <2>1 DEF LInv, RequestsKnow
<1> QED BY <1>2, <1>3 DEF Listed

\* Nor is a session registered again whose row is gone.
LEMMA SafeWhenGone ==
  ASSUME LInv, RequestsAllowed, NEW s \in born \ DOMAIN rows, Safe(s)
  PROVE  Safe(s)'
<1>1. ASSUME NEW r \in WebRequests, request'[r].op \in Registering, s \in request'[r].s
      PROVE  FALSE
  <2>1. RequestAllowed(r, request'[r])
    BY DEF RequestsAllowed
  <2> QED BY <1>1, <2>1 DEF RequestAllowed, Safe
<1> QED BY <1>1 DEF Safe

\* What a purge has taken up stays safe from being registered again.
LEMMA PurgedSafe ==
  ASSUME LInv, RowsAllowed, RequestsAllowed, NEW r \in WebRequests, NEW s \in request[r].s,
         request[r].op = "purge", s \notin reopened
  PROVE  Safe(s) /\ Safe(s)'
<1>1. s \in born
  BY DEF LInv, Shapes
<1>2. Safe(s)
  BY DEF LInv, WorkKnown
<1>3. CASE s \in DOMAIN rows
  <2>1. rows[s].kind = "adhoc" /\ Ended(s)
    BY <1>3 DEF LInv, RequestsKnow
  <2> QED BY <1>2, <1>3, <2>1, SafeStays
<1>4. CASE s \notin DOMAIN rows
  BY <1>1, <1>2, <1>4, SafeWhenGone
<1> QED BY <1>2, <1>3, <1>4

LEMMA WorkStays ==
  ASSUME LInv, RowsAllowed, CollabAllowed, RequestsAllowed, GoneAllowed
  PROVE  WorkKnown'
<1>1. ASSUME NEW r \in WebRequests, request'[r].op = "purge", NEW s \in request'[r].s, s \notin reopened'
      PROVE  Safe(s)'
  <2>1. s \notin reopened
    BY <1>1 DEF RowsAllowed
  <2>2. RequestAllowed(r, request'[r])
    BY DEF RequestsAllowed
  <2>3. CASE request[r].op = "purge" /\ s \in request[r].s
    BY <2>1, <2>3, PurgedSafe
  <2>4. CASE s \in DOMAIN rows /\ rows[s].purge = "due"
    <3>1. rows[s].kind = "adhoc" /\ Ended(s) /\ Safe(s)
      BY <2>1, <2>4 DEF LInv, PurgesEnded
    <3> QED BY <2>4, <3>1, SafeStays
  <2> QED BY <1>1, <2>2, <2>3, <2>4 DEF RequestAllowed
<1>2. ASSUME NEW r \in WebRequests, NEW s \in request'[r].done \cap DOMAIN rows', s \notin unclosed' \cup reopened'
      PROVE  EndedThere(s)'
  <2>1. s \notin reopened
    BY <1>2 DEF RowsAllowed
  <2>2. WorkAllowed(r, request'[r])
    BY DEF RequestsAllowed
  <2>6. CASE s \in unclosed
    BY <1>2, <2>6 DEF GoneAllowed, EndedThere
  <2>3. CASE s \in request[r].done /\ s \notin unclosed
    <3>1. s \in DOMAIN rows
      BY <1>2, <2>3 DEF LInv, Shapes, RowsAllowed
    <3>2. EndedThere(s)
      BY <2>1, <2>3, <3>1 DEF LInv, WorkKnown
    <3> QED BY <1>2, <3>1, <3>2, EndedThereStays
  <2>4. CASE collab'[s] = "closed"
    BY <2>4 DEF EndedThere
  <2>5. CASE collab'[s] = "absent" /\ request[r].op = "purge" /\ s \in request[r].s
    <3>1. s \in DOMAIN rows
      BY <1>2, <2>5 DEF LInv, Shapes, RowsAllowed
    <3>2. rows[s].kind = "adhoc" /\ Ended(s)
      BY <2>1, <2>5, <3>1 DEF LInv, RequestsKnow
    <3>3. Safe(s)' /\ Ended(s)' /\ rows'[s].kind = "adhoc"
      BY <1>2, <2>1, <2>5, <3>1, <3>2, PurgedSafe, EndedStays DEF RowsAllowed
    <3> QED BY <2>5, <3>3 DEF EndedThere
  <2> QED BY <1>2, <2>2, <2>3, <2>4, <2>5, <2>6 DEF WorkAllowed
<1> QED BY <1>1, <1>2 DEF WorkKnown

LEMMA ApartStays ==
  ASSUME LInv, RowsAllowed, RequestsAllowed, AnswersAllowed
  PROVE  CreatesApart'
<1>1. ASSUME NEW r \in WebRequests, request'[r].op = "create", NEW s \in request'[r].s
      PROVE  request[r].op = "create" /\ (s \in request[r].s \/ s \notin born)
  <2>1. RequestAllowed(r, request'[r])
    BY DEF RequestsAllowed
  <2> QED BY <1>1, <2>1 DEF RequestAllowed
<1>2. \A r \in WebRequests : \A s \in request[r].s : s \in born
  BY DEF LInv, Shapes
<1>3. ASSUME NEW r \in WebRequests, request'[r].op = "create", NEW s \in request'[r].s, s \in answered'
      PROVE  FALSE
  <2>1. s \in born
    BY <1>2, <1>3 DEF LInv, Shapes, AnswersAllowed
  <2>2. request[r].op = "create" /\ s \in request[r].s
    BY <1>1, <1>3, <2>1
  <2>3. s \notin answered
    BY <2>2 DEF LInv, CreatesApart
  <2>4. PICK x \in WebRequests : Stands(x, "create", "invites") /\ s \in request[x].s /\ request'[x] = IdleRequest
    BY <1>3, <2>3 DEF AnswersAllowed
  <2>5. x = r
    BY <2>2, <2>4 DEF LInv, CreatesApart, Stands
  <2> QED BY <1>3, <2>4, <2>5 DEF IdleRequest
<1>4. ASSUME NEW r \in WebRequests, request'[r].op = "create", NEW s \in request'[r].s,
             NEW x \in WebRequests \ {r}, request'[x].op = "create", s \in request'[x].s
      PROVE  FALSE
  <2>1. /\ request[r].op = "create" /\ (s \in request[r].s \/ s \notin born)
        /\ request[x].op = "create" /\ (s \in request[x].s \/ s \notin born)
    BY <1>1, <1>4
  <2>2. request'[r] = request[r] \/ request'[x] = request[x]
    BY <1>4 DEF RequestsAllowed
  <2>3. s \in born
    BY <1>2, <1>4, <2>2
  <2> QED BY <1>4, <2>1, <2>3 DEF LInv, CreatesApart
<1> QED BY <1>3, <1>4 DEF CreatesApart

\* An answered session stays listed until its row goes.
LEMMA AnswersStay ==
  ASSUME LInv, RowsAllowed, CollabAllowed, AnswersAllowed
  PROVE  AnsweredListed'
<1>1. ASSUME NEW s \in answered' \cap DOMAIN rows'
      PROVE  Listed(s)'
  <2>1. CASE s \in answered
    <3>1. s \in DOMAIN rows
      BY <1>1, <2>1 DEF LInv, Shapes, RowsAllowed
    <3>2. Listed(s)
      BY <2>1, <3>1 DEF LInv, AnsweredListed
    <3> QED BY <1>1, <3>1, <3>2, ListedStays
  <2>2. CASE s \notin answered
    <3>1. PICK r \in WebRequests : Stands(r, "create", "invites") /\ s \in request[r].s \cap DOMAIN rows
      BY <1>1, <2>2 DEF AnswersAllowed
    <3>2. Listed(s)
      BY <3>1 DEF LInv, RequestsKnow
    <3> QED BY <1>1, <3>1, <3>2, ListedStays
  <2> QED BY <2>1, <2>2
<1> QED BY <1>1 DEF AnsweredListed

\* An answered session whose row is gone is closed there, or somebody is about to close it.
LEMMA GoneStays ==
  ASSUME LInv, RowsAllowed, CollabAllowed, RequestsAllowed, AnswersAllowed, GoneAllowed
  PROVE  AnsweredGone'
<1>1. ASSUME NEW s \in Sessions, s \in born, s \notin reopened, collab[s] = "closed"
      PROVE  Out(s)'
  <2>1. CASE collab'[s] = "closed"
    BY <2>1 DEF Out
  <2>3. CASE s \in overtaken'
    BY <2>3 DEF Out
  <2>2. CASE collab'[s] # "closed" /\ s \notin overtaken'
    <3>1. collab'[s] = "absent" /\ \E r \in WebRequests : request[r].op = "purge" /\ s \in request[r].s
      BY <1>1, <2>2 DEF CollabAllowed
    <3> QED BY <1>1, <3>1, PurgedSafe DEF Out
  <2> QED BY <2>1, <2>2, <2>3
<1>3. ASSUME NEW s, s \in overtaken \/ s \in unclosed \ unclosed'
      PROVE  Out(s)'
  BY <1>3 DEF CollabAllowed, GoneAllowed, Out
<1>2. ASSUME NEW s \in answered' \ DOMAIN rows', s \notin unclosed' \cup reopened'
      PROVE  Out(s)' \/ ToClose(s)'
  <2>1. s \notin reopened
    BY <1>2 DEF RowsAllowed
  <2>7. CASE s \in overtaken \/ s \in unclosed
    <3>1. s \in overtaken \/ s \in unclosed \ unclosed'
      BY <1>2, <2>7
    <3>2. Out(s)'
      BY <1>3, <3>1
    <3> QED BY <3>2
  <2>2. s \in answered /\ s \in born /\ s \in Sessions
    BY <1>2 DEF AnswersAllowed, LInv, Shapes
  <2>3. CASE s \in DOMAIN rows /\ s \notin overtaken /\ s \notin unclosed
    <3>1. CASE \E r \in WebRequests : s \in request[r].done
      <4>1. EndedThere(s)
        BY <2>1, <2>3, <3>1 DEF LInv, WorkKnown
      <4>2. CASE collab[s] = "closed"
        BY <1>1, <2>1, <2>2, <4>2
      <4>3. CASE collab[s] = "absent" /\ rows[s].kind = "adhoc" /\ Safe(s) /\ Ended(s)
        <5>1. Safe(s)' /\ collab'[s] = "absent"
          BY <2>2, <2>3, <4>3, SafeStays DEF CollabAllowed
        <5> QED BY <5>1 DEF Out
      <4> QED BY <2>3, <4>1, <4>2, <4>3 DEF EndedThere
    <3> QED BY <1>2, <2>3, <3>1 DEF GoneAllowed
  <2>4. CASE s \notin DOMAIN rows /\ Out(s) /\ s \notin overtaken
    <3>1. CASE collab[s] = "closed"
      BY <1>1, <2>1, <2>2, <3>1
    <3>2. CASE collab[s] = "absent" /\ Safe(s)
      <4>1. Safe(s)' /\ collab'[s] = "absent"
        BY <2>2, <2>4, <3>2, SafeWhenGone DEF CollabAllowed
      <4> QED BY <4>1 DEF Out
    <3> QED BY <2>4, <3>1, <3>2 DEF Out
  <2>5. CASE ToClose(s)
    <3>1. PICK r \in WebRequests : Stands(r, "delete", "close") /\ s \in request[r].s
      BY <2>5 DEF ToClose
    <3>2. CASE request'[r] = request[r]
      BY <3>1, <3>2 DEF ToClose, Stands
    <3>3. CASE request'[r] # request[r]
      <4>1. collab'[s] = "closed" \/ s \in unclosed'
        BY <3>1, <3>3 DEF RequestsAllowed, WorkAllowed
      <4> QED BY <1>2, <4>1 DEF Out
    <3> QED BY <3>2, <3>3
  <2>6. s \notin DOMAIN rows /\ s \notin unclosed => Out(s) \/ ToClose(s)
    BY <2>1, <2>2 DEF LInv, AnsweredGone
  <2> QED BY <2>3, <2>4, <2>5, <2>6, <2>7
<1> QED BY <1>2 DEF AnsweredGone

LEMMA AllowedStep ==
  ASSUME LInv, Shapes', RowsAllowed, CollabAllowed, RequestsAllowed, AnswersAllowed, GoneAllowed
  PROVE  LInv'
<1>1. ASSUME NEW s \in DOMAIN rows' \ reopened', rows'[s].status = "closed"
      PROVE  EndedThere(s)'
  <2>1. s \in DOMAIN rows /\ s \notin reopened
    BY <1>1 DEF RowsAllowed
  <2>2. EndedThere(s)
    BY <1>1, <2>1 DEF RowsAllowed, LInv, ClosedHasEnded
  <2> QED BY <1>1, <2>1, <2>2, EndedThereStays
<1>2. ASSUME NEW s \in DOMAIN rows'
      PROVE  /\ rows'[s].expiry # "none" => rows'[s].kind = "adhoc"
             /\ rows'[s].purge # "unset" => rows'[s].kind = "adhoc" /\ (s \in reopened' \/ Ended(s)')
             /\ rows'[s].purge = "due" => s \in reopened' \/ Safe(s)'
  <2>1. CASE s \notin DOMAIN rows
    BY <1>2, <2>1 DEF RowsAllowed
  <2>2. CASE s \in DOMAIN rows
    <3>1. /\ rows[s].expiry # "none" => rows[s].kind = "adhoc"
          /\ rows[s].purge # "unset" => rows[s].kind = "adhoc" /\ (s \in reopened \/ Ended(s))
          /\ rows[s].purge = "due" => s \in reopened \/ Safe(s)
      BY <2>2 DEF LInv, PurgesEnded
    <3>2. rows'[s].expiry # "none" => rows'[s].kind = "adhoc"
      BY <1>2, <2>2, <3>1 DEF RowsAllowed
    <3>3. rows'[s].purge # "unset" => rows[s].kind = "adhoc" /\ (s \in reopened \/ Ended(s))
      BY <1>2, <2>2, <3>1 DEF RowsAllowed
    <3>4. rows'[s].kind = rows[s].kind /\ (s \in reopened => s \in reopened')
      BY <1>2, <2>2 DEF RowsAllowed
    <3>5. rows'[s].purge = "due" => s \in reopened \/ Safe(s)
      BY <1>2, <2>2, <3>1 DEF RowsAllowed
    <3>6. Ended(s) => Ended(s)' \/ s \in reopened'
      BY <1>2, <2>2, EndedStays
    <3>7. rows[s].kind = "adhoc" /\ Ended(s) /\ Safe(s) => Safe(s)'
      BY <2>2, SafeStays
    <3> QED BY <3>2, <3>3, <3>4, <3>5, <3>6, <3>7
  <2> QED BY <2>1, <2>2
<1>3. ASSUME NEW r \in WebRequests, NEW s \in request'[r].s \cap DOMAIN rows'
      PROVE  LET q == request'[r]
             IN  /\ q.op = "status" => q.kind = rows'[s].kind
                 /\ q.op = "status" /\ q.at = "row" /\ q.status = "closed" => s \in reopened' \/ EndedThere(s)'
                 /\ q.op = "status" /\ q.at = "purge" =>
                      rows'[s].kind = "adhoc" /\ (s \in reopened' \/ rows'[s].status = "closed")
                 /\ q.op = "purge" => rows'[s].kind = "adhoc" /\ (s \in reopened' \/ (Safe(s)' /\ Ended(s)'))
                 /\ q.op = "purge" => rows'[s].purge # "unset"
                 /\ q.op = "create" /\ q.at = "invites" => Listed(s)'
  <2> DEFINE q == request'[r]
  <2>1. RequestAllowed(r, q)
    BY DEF RequestsAllowed
  <2> HIDE DEF q
  <2>2. s \in q.s
    BY <1>3 DEF q
  <2>3. s \in request[r].s => s \in DOMAIN rows
    BY <1>3 DEF LInv, Shapes, RowsAllowed
  <2>4. s \in DOMAIN rows => rows'[s].kind = rows[s].kind /\ (s \in reopened => s \in reopened')
    BY <1>3 DEF RowsAllowed
  <2>5. q.op = "status" => q.kind = rows'[s].kind
    BY <1>3, <2>1, <2>2 DEF RequestAllowed
  <2>6. ASSUME q.op = "status", q.at = "row", q.status = "closed", s \notin reopened'
        PROVE  EndedThere(s)'
    <3>1. CASE collab'[s] = "closed"
      BY <3>1 DEF EndedThere
    <3>2. CASE Stands(r, "status", "row") /\ request[r].status = "closed" /\ s \in request[r].s
      <4>1. s \in DOMAIN rows /\ s \notin reopened
        BY <2>3, <2>4, <2>6, <3>2
      <4>2. EndedThere(s)
        BY <3>2, <4>1 DEF LInv, RequestsKnow
      <4> QED BY <1>3, <2>6, <4>1, <4>2, EndedThereStays
    <3> QED BY <1>3, <2>1, <2>2, <2>6, <3>1, <3>2 DEF RequestAllowed
  <2>7. ASSUME q.op = "status", q.at = "purge"
        PROVE  rows'[s].kind = "adhoc" /\ (s \in reopened' \/ rows'[s].status = "closed")
    <3>1. CASE Stands(r, "status", "purge") /\ s \in request[r].s
      <4>1. s \in DOMAIN rows /\ rows[s].kind = "adhoc" /\ (s \in reopened \/ rows[s].status = "closed")
        BY <2>3, <3>1 DEF LInv, RequestsKnow
      <4> QED BY <1>3, <2>4, <4>1 DEF RowsAllowed
    <3> QED BY <1>3, <2>1, <2>2, <2>7, <3>1 DEF RequestAllowed
  <2>8. ASSUME q.op = "purge"
        PROVE  /\ rows'[s].kind = "adhoc" /\ rows'[s].purge # "unset"
               /\ s \in reopened' \/ (Safe(s)' /\ Ended(s)')
    <3>1. s \in DOMAIN rows /\ rows[s].kind = "adhoc" /\ rows[s].purge # "unset" /\ (s \in reopened \/ (Safe(s) /\ Ended(s)))
      <4>1. CASE request[r].op = "purge" /\ s \in request[r].s
        BY <2>3, <4>1 DEF LInv, RequestsKnow
      <4>2. CASE s \in DOMAIN rows /\ rows[s].purge = "due"
        BY <4>2 DEF LInv, PurgesEnded
      <4> QED BY <1>3, <2>1, <2>2, <2>8, <4>1, <4>2 DEF RequestAllowed
    <3>2. Safe(s) /\ Ended(s) => Safe(s)'
      BY <3>1, SafeStays
    <3>3. Ended(s) => Ended(s)' \/ s \in reopened'
      BY <1>3, <3>1, EndedStays
    <3>4. rows'[s].purge # "unset"
      BY <1>3, <3>1 DEF RowsAllowed
    <3> QED BY <2>4, <3>1, <3>2, <3>3, <3>4
  <2>9. ASSUME q.op = "create", q.at = "invites"
        PROVE  Listed(s)'
    <3>1. CASE Stands(r, "create", "invites") /\ s \in request[r].s
      <4>1. s \in DOMAIN rows /\ Listed(s)
        BY <2>3, <3>1 DEF LInv, RequestsKnow
      <4> QED BY <1>3, <4>1, ListedStays
    <3>2. CASE collab'[s] # "absent"
      BY <3>2 DEF Listed
    <3> QED BY <2>1, <2>2, <2>9, <3>1, <3>2 DEF RequestAllowed
  <2> QED BY <2>5, <2>6, <2>7, <2>8, <2>9 DEF q
<1>4. ClosedHasEnded'
  BY <1>1 DEF ClosedHasEnded
<1>5. PurgesEnded'
  BY <1>2 DEF PurgesEnded
<1>6. RequestsKnow'
  BY <1>3 DEF RequestsKnow, Stands
<1>7. WorkKnown' /\ CreatesApart' /\ AnsweredListed' /\ AnsweredGone'
  BY WorkStays, ApartStays, AnswersStay, GoneStays
<1> QED BY <1>4, <1>5, <1>6, <1>7 DEF LInv

-----------------------------------------------------------------------------
(* A step keeps the rows, the collab sessions and the requests in shape.   *)

RowsKept ==
  /\ RowsAllowed /\ AnswersAllowed /\ GoneAllowed
  /\ \A s \in DOMAIN rows' : IsRow(rows'[s])
  /\ DOMAIN rows' \subseteq born' /\ born \subseteq born' /\ born' \subseteq Sessions
CollabKept ==
  /\ CollabAllowed /\ collab' \in [Sessions -> Statuses \cup {"absent"}]
  /\ moving' \subseteq WebRequests \X Sessions \X Statuses /\ overtaken' \subseteq Sessions
RequestKept(r, q) ==
  /\ RequestAllowed(r, q) /\ WorkAllowed(r, q)
  /\ IsRequest(q) /\ q.s \cup q.done \subseteq born' /\ q.status \in Statuses
  /\ AboutOne(q) => \E s : q.s = {s}

LEMMA RequestStays ==
  ASSUME LInv, RowsKept, NEW r \in WebRequests
  PROVE  RequestAllowed(r, request[r]) /\ WorkAllowed(r, request[r])
<1>1. \A s \in request[r].s : s \in DOMAIN rows' => s \in DOMAIN rows /\ rows'[s].kind = rows[s].kind
  BY DEF LInv, Shapes, RowsKept, RowsAllowed
<1>2. \A s \in request[r].s \cap DOMAIN rows : request[r].op = "status" => request[r].kind = rows[s].kind
  BY DEF LInv, RequestsKnow
<1> QED BY <1>1, <1>2 DEF RequestAllowed, WorkAllowed, Stands

LEMMA AnsweredBorn ==
  ASSUME LInv, RowsKept
  PROVE  answered' \subseteq born'
  BY DEF LInv, Shapes, RowsKept, AnswersAllowed

\* A step of one request.
LEMMA OneRequest ==
  ASSUME LInv, RowsKept, CollabKept, NEW r \in WebRequests, NEW q, RequestKept(r, q),
         request' = [request EXCEPT ![r] = q]
  PROVE  LInv'
<1>1. DOMAIN request = WebRequests
  BY DEF LInv, Shapes
<1>2. request'[r] = q /\ DOMAIN request' = WebRequests /\ request' = [x \in WebRequests |-> request'[x]]
  BY <1>1
<1>3. \A x \in WebRequests \ {r} : request'[x] = request[x]
  BY <1>1
<1>4. ASSUME NEW x \in WebRequests
      PROVE  RequestAllowed(x, request'[x]) /\ WorkAllowed(x, request'[x])
  BY <1>2, <1>3, RequestStays DEF RequestKept
<1>5. ASSUME NEW x \in WebRequests
      PROVE  /\ IsRequest(request'[x]) /\ request'[x].s \cup request'[x].done \subseteq born' /\ request'[x].status \in Statuses
             /\ AboutOne(request'[x]) => request'[x].s = {Of(x)'}
  <2>1. CASE x = r
    <3>1. IsRequest(q) /\ q.s \cup q.done \subseteq born' /\ q.status \in Statuses
      BY DEF RequestKept
    <3>2. ASSUME AboutOne(q)
          PROVE  q.s = {CHOOSE s \in q.s : TRUE}
      BY <3>2 DEF RequestKept
    <3> QED BY <1>2, <2>1, <3>1, <3>2 DEF Of
  <2>2. CASE x # r
    <3>1. request'[x] = request[x]
      BY <1>3, <2>2
    <3>2. /\ IsRequest(request[x]) /\ request[x].s \cup request[x].done \subseteq born /\ request[x].status \in Statuses
          /\ AboutOne(request[x]) => request[x].s = {Of(x)}
      BY DEF LInv, Shapes
    <3> QED BY <3>1, <3>2 DEF Of, RowsKept
  <2> QED BY <2>1, <2>2
<1>6. Shapes'
  BY <1>2, <1>5, AnsweredBorn DEF Shapes, RowsKept, CollabKept
<1>7. RequestsAllowed
  BY <1>3, <1>4 DEF RequestsAllowed
<1> QED BY <1>6, <1>7, AllowedStep DEF RowsKept, CollabKept

\* A step of no request.
LEMMA NoRequest ==
  ASSUME LInv, RowsKept, CollabKept, UNCHANGED request
  PROVE  LInv'
<1>1. Shapes'
  BY AnsweredBorn DEF LInv, Shapes, RowsKept, CollabKept, Of
<1>2. RequestsAllowed
  BY RequestStays DEF RequestsAllowed
<1> QED BY <1>1, <1>2, AllowedStep DEF RowsKept, CollabKept

LEMMA RowsSame ==
  ASSUME LInv, UNCHANGED <<rows, born, reopened, answered>>, unclosed \subseteq unclosed'
  PROVE  RowsKept
  BY DEF LInv, Shapes, RowsKept, RowsAllowed, AnswersAllowed, GoneAllowed

LEMMA RowsDeleted ==
  ASSUME LInv, NEW gone, DeleteRows(gone), UNCHANGED <<born, reopened, answered, unclosed>>,
         \A s \in gone \cap answered : (\E r \in WebRequests : s \in request[r].done) \/ ToClose(s)'
  PROVE  RowsKept
<1>1. DOMAIN rows' = DOMAIN rows \ gone /\ \A s \in DOMAIN rows' : rows'[s] = rows[s]
  BY DEF DeleteRows
<1>2. AnswersAllowed /\ GoneAllowed
  BY <1>1 DEF AnswersAllowed, GoneAllowed
<1>3. RowsAllowed
  BY <1>1 DEF RowsAllowed
<1> QED BY <1>1, <1>2, <1>3 DEF LInv, Shapes, RowsKept

LEMMA CollabSame ==
  ASSUME LInv, UNCHANGED <<collab, moving, overtaken>>
  PROVE  CollabKept
  BY DEF LInv, Shapes, CollabKept, CollabAllowed

\* A change of status that the collab server admits is not written yet.
LEMMA CollabAsked ==
  ASSUME LInv, NEW r \in WebRequests, NEW s \in Sessions, NEW status \in Statuses, Asked(r, s, status)
  PROVE  CollabKept
<1>1. <<r, s, status>> \in WebRequests \X Sessions \X Statuses
  OBVIOUS
<1>2. moving' \subseteq WebRequests \X Sessions \X Statuses
  BY <1>1 DEF Asked, LInv, Shapes
<1> QED BY <1>2 DEF Asked, LInv, Shapes, CollabKept, CollabAllowed

\* Registering a session, by a request about that session.
LEMMA CollabRegisters ==
  ASSUME LInv, NEW r \in WebRequests, NEW s \in Sessions, s \in request[r].s,
         request[r].op \in Registering, collab[s] # "closed",
         collab' = [collab EXCEPT ![s] = IF @ = "absent" THEN "active" ELSE @],
         UNCHANGED <<moving, overtaken>>
  PROVE  CollabKept
<1>1. collab \in [Sessions -> Statuses \cup {"absent"}]
  BY DEF LInv, Shapes
<1>2. ~Safe(s)
  BY DEF Safe
<1>3. collab' \in [Sessions -> Statuses \cup {"absent"}]
  BY <1>1 DEF Statuses
<1>4. CollabAllowed
  BY <1>1, <1>2 DEF CollabAllowed
<1> QED BY <1>3, <1>4 DEF CollabKept, LInv, Shapes

\* What a request has done grows in two of the steps only.
LEMMA WorkSame ==
  ASSUME LInv, RowsKept, NEW r \in WebRequests, NEW q, request[r].op # "delete", q.done \subseteq request[r].done
  PROVE  WorkAllowed(r, q) /\ q.done \subseteq born'
<1>1. request[r].done \subseteq born'
  BY DEF LInv, Shapes, RowsKept
<1> QED BY <1>1 DEF WorkAllowed, Stands

LEMMA Returns ==
  ASSUME NEW r, WorkAllowed(r, IdleRequest)
  PROVE  RequestKept(r, IdleRequest)
  BY DEF RequestKept, RequestAllowed, IsRequest, IdleRequest, AboutOne, Statuses

LEMMA ReturnStep ==
  ASSUME LInv, RowsKept, CollabKept, NEW r \in WebRequests, Return(r), request[r].op # "delete"
  PROVE  LInv'
<1>1. IdleRequest.done \subseteq request[r].done
  BY DEF IdleRequest
<1> QED BY <1>1, OneRequest, Returns, WorkSame DEF Return

\* A request goes on with sessions it had; a status request has learnt nothing new.
LEMMA Proceeds ==
  ASSUME LInv, RowsKept, NEW r \in WebRequests, NEW q, IsRequest(q),
         q.op = request[r].op, q.s \subseteq request[r].s, q.kind = request[r].kind,
         q.status = request[r].status, q.op = "status" => q.at \in {"answer", "revoke"},
         q.op = "create" => q.at = "undo" \/ \A s \in q.s : collab'[s] # "absent",
         WorkAllowed(r, q), q.done \subseteq born',
         AboutOne(q) => q.s = request[r].s /\ AboutOne(request[r])
  PROVE  RequestKept(r, q)
<1>1. /\ request[r].s \subseteq born /\ request[r].status \in Statuses
      /\ AboutOne(request[r]) => request[r].s = {Of(r)}
  BY DEF LInv, Shapes
<1>2. \A s \in request[r].s : s \in DOMAIN rows' => s \in DOMAIN rows /\ rows'[s].kind = rows[s].kind
  BY <1>1 DEF RowsKept, RowsAllowed
<1>3. \A s \in request[r].s \cap DOMAIN rows : request[r].op = "status" => request[r].kind = rows[s].kind
  BY DEF LInv, RequestsKnow
<1>4. RequestAllowed(r, q)
  BY <1>2, <1>3 DEF RequestAllowed
<1>5. q.s \subseteq born'
  BY <1>1 DEF RowsKept
<1> QED BY <1>1, <1>4, <1>5 DEF RequestKept

\* A request that learns nothing goes to its next await.
LEMMA ContinueStep ==
  ASSUME LInv, RowsKept, CollabKept, NEW r \in WebRequests, NEW at, Continue(r, at),
         request[r].op = "status" => at \in {"answer", "revoke"}, AboutOne(request[r])  \/ request[r].op # "create",
         request[r].op = "create" => at = "undo" \/ \A s \in request[r].s : collab'[s] # "absent",
         request[r].op # "delete"
  PROVE  LInv'
<1> DEFINE q == [request[r] EXCEPT !.at = at]
<1>1. IsRequest(request[r]) /\ DOMAIN request = WebRequests
  BY DEF LInv, Shapes
<1>2. request[r] = [op |-> request[r].op, at |-> request[r].at, s |-> request[r].s, kind |-> request[r].kind,
                    path |-> request[r].path, sha |-> request[r].sha, content |-> request[r].content,
                    saw |-> request[r].saw, status |-> request[r].status, done |-> request[r].done]
  BY <1>1 DEF IsRequest
<1>3. q = [op |-> request[r].op, at |-> at, s |-> request[r].s, kind |-> request[r].kind,
           path |-> request[r].path, sha |-> request[r].sha, content |-> request[r].content,
           saw |-> request[r].saw, status |-> request[r].status, done |-> request[r].done]
  BY <1>2
<1>4. request' = [request EXCEPT ![r] = q]
  BY <1>1 DEF Continue
<1> HIDE DEF q
<1>5. IsRequest(q)
  BY <1>3 DEF IsRequest
<1>6. /\ q.op = request[r].op /\ q.s = request[r].s /\ q.kind = request[r].kind
      /\ q.status = request[r].status /\ q.at = at /\ q.done = request[r].done
  BY <1>3
<1>7. AboutOne(q) => AboutOne(request[r])
  BY <1>6 DEF AboutOne
<1>8. RequestKept(r, q)
  BY <1>5, <1>6, <1>7, Proceeds, WorkSame
<1> QED BY <1>4, <1>8, OneRequest

\* The fields of a request, for the steps that change some of them.
LEMMA RequestFields ==
  ASSUME LInv, NEW r \in WebRequests
  PROVE  /\ request[r] = [op |-> request[r].op, at |-> request[r].at, s |-> request[r].s,
                          kind |-> request[r].kind, path |-> request[r].path, sha |-> request[r].sha,
                          content |-> request[r].content, saw |-> request[r].saw,
                          status |-> request[r].status, done |-> request[r].done]
         /\ request[r].s \subseteq born /\ request[r].s \subseteq Sessions
         /\ request[r].status \in Statuses /\ DOMAIN request = WebRequests
         /\ AboutOne(request[r]) => Of(r) \in Sessions /\ request[r].s = {Of(r)} /\ Of(r) \in request[r].s
<1>1. /\ IsRequest(request[r]) /\ request[r].s \subseteq born /\ request[r].status \in Statuses
      /\ AboutOne(request[r]) => request[r].s = {Of(r)}
      /\ born \subseteq Sessions /\ DOMAIN request = WebRequests
  BY DEF LInv, Shapes
<1>2. request[r].s \subseteq Sessions
  BY <1>1
<1>3. AboutOne(request[r]) => Of(r) \in Sessions /\ Of(r) \in request[r].s
  BY <1>1, <1>2
<1> QED BY <1>1, <1>2, <1>3 DEF IsRequest

\* A new request about a session that has a row.
LEMMA BeginsOn ==
  ASSUME LInv, RowsKept, NEW r \in WebRequests, NEW s \in DOMAIN rows, NEW q, IsRequest(q), q.s = {s},
         q.done = {}, q.op \notin {"purge", "create"}, q.status \in Statuses, request[r] = IdleRequest,
         q.op \in Registering => ~Ended(s) \/ rows[s].kind # "adhoc",
         q.op = "status" => q.kind = rows[s].kind /\ q.at = "collab"
  PROVE  RequestKept(r, q)
<1>1. s \in DOMAIN rows' => rows'[s].kind = rows[s].kind
  BY DEF RowsKept, RowsAllowed
<1>2. s \in born'
  BY DEF LInv, Shapes, RowsKept
<1>3. RequestAllowed(r, q)
  BY <1>1 DEF RequestAllowed
<1>4. WorkAllowed(r, q)
  BY WorkSame DEF IdleRequest
<1> QED BY <1>2, <1>3, <1>4 DEF RequestKept

\* A new request, and a request with what an await has changed of it, field by field.
New(op, at, s, kind, path, sha, content, saw, status) ==
  [op |-> op, at |-> at, s |-> s, kind |-> kind, path |-> path, sha |-> sha,
   content |-> content, saw |-> saw, status |-> status, done |-> {}]
Now(q, at, s, sha, content, saw, done) ==
  [op |-> q.op, at |-> at, s |-> s, kind |-> q.kind, path |-> q.path, sha |-> sha,
   content |-> content, saw |-> saw, status |-> q.status, done |-> done]

LEMMA NewRequest ==
  ASSUME NEW op, NEW at, NEW s, NEW kind, NEW path, NEW sha, NEW content, NEW saw, NEW status
  PROVE  LET q == New(op, at, s, kind, path, sha, content, saw, status)
         IN  IsRequest(q) /\ q.op = op /\ q.at = at /\ q.s = s /\ q.kind = kind /\ q.status = status /\ q.done = {}
  BY DEF New, IsRequest

LEMMA NowRequest ==
  ASSUME NEW old, NEW at, NEW s, NEW sha, NEW content, NEW saw, NEW done
  PROVE  LET q == Now(old, at, s, sha, content, saw, done)
         IN  /\ IsRequest(q) /\ q.op = old.op /\ q.at = at /\ q.s = s /\ q.kind = old.kind
             /\ q.status = old.status /\ q.done = done
  BY DEF Now, IsRequest
-----------------------------------------------------------------------------
(* POST sessions.                                                          *)

LEMMA StepCreateOpen ==
  ASSUME LInv, NEW r \in WebRequests, NEW kind, NEW path, CreateOpen(r, kind, path)
  PROVE  LInv'
<1> DEFINE q == [IdleRequest EXCEPT !.op = "create", !.at = "insert", !.kind = kind,
       !.path = path, !.sha = Sha(kind, path), !.content = Stored(kind, path).content,
       !.saw = BoardOf(kind, path)]
<1>1. RowsKept /\ CollabKept
  BY RowsSame, CollabSame DEF CreateOpen, collabVars
<1>2. request' = [request EXCEPT ![r] = q] /\ request[r] = IdleRequest
  BY DEF CreateOpen, Begin, Free
<1>a. q = [IdleRequest EXCEPT !.op = "create", !.at = "insert", !.kind = kind,
           !.path = path, !.sha = Sha(kind, path), !.content = Stored(kind, path).content,
           !.saw = BoardOf(kind, path)]
  OBVIOUS
<1> HIDE DEF q
<1>3. q = New("create", "insert", {}, kind, path, Sha(kind, path), Stored(kind, path).content,
             BoardOf(kind, path), "active")
  BY <1>a DEF New, IdleRequest
<1>4. IsRequest(q) /\ q.s = {} /\ q.op = "create" /\ q.at = "insert" /\ q.status = "active" /\ q.done = {}
  BY <1>3, NewRequest
<1>5. RequestKept(r, q)
  BY <1>1, <1>2, <1>4, WorkSame DEF RequestKept, RequestAllowed, AboutOne, Statuses, IdleRequest
<1> QED BY <1>1, <1>2, <1>5, OneRequest

LEMMA StepCreateUpload ==
  ASSUME LInv, NEW r \in WebRequests, NEW content, CreateUpload(r, content)
  PROVE  LInv'
<1> DEFINE q == [IdleRequest EXCEPT !.op = "create", !.at = "insert", !.content = content]
<1>1. RowsKept /\ CollabKept
  BY RowsSame, CollabSame DEF CreateUpload, collabVars
<1>2. request' = [request EXCEPT ![r] = q] /\ request[r] = IdleRequest
  BY DEF CreateUpload, Begin, Free
<1>a. q = [IdleRequest EXCEPT !.op = "create", !.at = "insert", !.content = content]
  OBVIOUS
<1> HIDE DEF q
<1>3. q = New("create", "insert", {}, "adhoc", <<>>, NoSha, content, <<>>, "active")
  BY <1>a DEF New, IdleRequest
<1>4. IsRequest(q) /\ q.s = {} /\ q.op = "create" /\ q.at = "insert" /\ q.status = "active" /\ q.done = {}
  BY <1>3, NewRequest
<1>5. RequestKept(r, q)
  BY <1>1, <1>2, <1>4, WorkSame DEF RequestKept, RequestAllowed, AboutOne, Statuses, IdleRequest
<1> QED BY <1>1, <1>2, <1>5, OneRequest

LEMMA StepCreateInsert ==
  ASSUME LInv, NEW r \in WebRequests, NEW s \in Sessions, CreateInsert(r, s)
  PROVE  LInv'
<1> DEFINE q == [request[r] EXCEPT !.at = "register", !.s = {s}]
<1>1. CollabKept /\ s \notin born /\ born' = born \cup {s} /\ UNCHANGED <<reopened, answered, unclosed>> /\ request[r].op = "create"
  BY CollabSame DEF CreateInsert, collabVars, Stands
<1>2. PICK base \in {request[r].sha, NoSha} :
        InsertRow(s, [kind |-> request[r].kind, path |-> request[r].path, status |-> "active", base |-> base,
                      expiry |-> IF request[r].kind = "adhoc" THEN "ahead" ELSE "none",
                      purge |-> "unset", saw |-> <<request[r].saw, request[r].content>>])
  BY DEF CreateInsert
<1> DEFINE row == [kind |-> request[r].kind, path |-> request[r].path, status |-> "active", base |-> base,
                   expiry |-> IF request[r].kind = "adhoc" THEN "ahead" ELSE "none",
                   purge |-> "unset", saw |-> <<request[r].saw, request[r].content>>]
<1>3. /\ IsRow(row) /\ row.purge = "unset" /\ row.status = "active"
      /\ row.expiry # "none" => row.kind = "adhoc"
  BY DEF IsRow
<1>4. InsertRow(s, row)
  BY <1>2
<1> HIDE DEF row
<1>5. DOMAIN rows' = DOMAIN rows \cup {s} /\ rows'[s] = row /\ \A x \in DOMAIN rows' \ {s} : rows'[x] = rows[x]
  BY <1>4 DEF InsertRow
<1>6. DOMAIN rows \subseteq born /\ born \subseteq Sessions /\ s \notin DOMAIN rows
      /\ \A x \in DOMAIN rows : IsRow(rows[x])
  BY <1>1 DEF LInv, Shapes
<1>7. RowsAllowed
  BY <1>1, <1>3, <1>5, <1>6 DEF RowsAllowed
<1>8. RowsKept
  BY <1>1, <1>3, <1>5, <1>6, <1>7 DEF RowsKept, AnswersAllowed, GoneAllowed
<1>9. request' = [request EXCEPT ![r] = q]
  BY RequestFields DEF CreateInsert
<1>a. q = [request[r] EXCEPT !.at = "register", !.s = {s}]
  OBVIOUS
<1>b. request[r] = [op |-> request[r].op, at |-> request[r].at, s |-> request[r].s, kind |-> request[r].kind,
                      path |-> request[r].path, sha |-> request[r].sha, content |-> request[r].content,
                      saw |-> request[r].saw, status |-> request[r].status, done |-> request[r].done]
  BY RequestFields
<1> HIDE DEF q
<1>10. q = Now(request[r], "register", {s}, request[r].sha, request[r].content, request[r].saw, request[r].done)
  BY <1>a, <1>b DEF Now
<1>11. IsRequest(q) /\ q.s = {s} /\ q.op = "create" /\ q.at = "register" /\ q.status \in Statuses
       /\ q.done = request[r].done
  <2>1. request[r].status \in Statuses
    BY RequestFields
  <2> QED BY <1>1, <1>10, <2>1, NowRequest
<1>12. RequestKept(r, q)
  BY <1>1, <1>8, <1>11, WorkSame DEF RequestKept, RequestAllowed
<1> QED BY <1>1, <1>8, <1>9, <1>12, OneRequest

LEMMA StepCreateRegister ==
  ASSUME LInv, NEW r \in WebRequests, CreateRegister(r)
  PROVE  LInv'
<1>1. RowsKept
  BY RowsSame DEF CreateRegister
<1>2. Of(r) \in Sessions /\ Of(r) \in request[r].s /\ AboutOne(request[r]) /\ request[r].op = "create"
  BY RequestFields DEF CreateRegister, Stands, AboutOne
<1>3. CollabKept
  BY <1>2, CollabSame, CollabRegisters DEF CreateRegister, Registered, Registers, collabVars, Registering
<1>4. request[r].s = {Of(r)}
  BY <1>2, RequestFields
<1>5. PICK at : Continue(r, at) /\ (at = "undo" \/ Registered(Of(r), request[r].content))
  BY DEF CreateRegister
<1>6. Registered(Of(r), request[r].content) => collab'[Of(r)] # "absent"
  BY <1>2 DEF Registered, LInv, Shapes
<1> QED BY <1>1, <1>2, <1>3, <1>4, <1>5, <1>6, ContinueStep

LEMMA StepCreateUndo ==
  ASSUME LInv, NEW r \in WebRequests, CreateUndo(r)
  PROVE  LInv'
<1>1. request[r].op = "create" /\ request[r].s \cap answered = {}
  BY DEF CreateUndo, Stands, LInv, CreatesApart
<1>2. RowsKept
  BY <1>1, RowsDeleted DEF CreateUndo
<1> QED BY <1>1, <1>2, CollabSame, ReturnStep DEF CreateUndo, collabVars

LEMMA StepCreateInvites ==
  ASSUME LInv, NEW r \in WebRequests, CreateInvites(r)
  PROVE  LInv'
<1>1. /\ Stands(r, "create", "invites") /\ Return(r) /\ UNCHANGED <<rows, born, reopened, unclosed>>
      /\ request[r].op = "create" /\ CollabKept
  BY CollabSame DEF CreateInvites, Stands, collabVars
<1>2. request[r].s = {Of(r)} /\ DOMAIN request = WebRequests
  BY <1>1, RequestFields DEF AboutOne, Stands
<1>3. request'[r] = IdleRequest
  BY <1>1, <1>2 DEF Return
<1>4. \A s \in answered' \ answered : s = Of(r) /\ s \in DOMAIN rows
  BY DEF CreateInvites
<1>5. AnswersAllowed
  BY <1>1, <1>2, <1>3, <1>4 DEF AnswersAllowed
<1>6. RowsKept
  BY <1>1, <1>5 DEF RowsKept, RowsAllowed, GoneAllowed, LInv, Shapes
<1> QED BY <1>1, <1>6, ReturnStep

-----------------------------------------------------------------------------
(* POST save.                                                              *)

LEMMA StepSaveRead ==
  ASSUME LInv, NEW r \in WebRequests, NEW s \in Sessions, SaveRead(r, s)
  PROVE  LInv'
<1> DEFINE q == [On("save", "snapshot", s) EXCEPT !.sha = rows[s].base, !.saw = rows[s].saw]
<1>1. RowsKept /\ CollabKept /\ s \in DOMAIN rows
  BY RowsSame, CollabSame DEF SaveRead, collabVars
<1>2. request' = [request EXCEPT ![r] = q] /\ request[r] = IdleRequest
  BY DEF SaveRead, Begin, Free
<1>a. q = [On("save", "snapshot", s) EXCEPT !.sha = rows[s].base, !.saw = rows[s].saw]
  OBVIOUS
<1> HIDE DEF q
<1>3. q = New("save", "snapshot", {s}, rows[s].kind, rows[s].path, rows[s].base, NoDoc, rows[s].saw, "active")
  BY <1>a DEF New, IdleRequest, On
<1>4. IsRequest(q) /\ q.s = {s} /\ q.op = "save" /\ q.status = "active" /\ q.done = {}
  BY <1>3, NewRequest
<1>5. RequestKept(r, q)
  BY <1>1, <1>2, <1>4, BeginsOn DEF Statuses, Registering
<1> QED BY <1>1, <1>2, <1>5, OneRequest

LEMMA StepSaveSnapshot ==
  ASSUME LInv, NEW r \in WebRequests, SaveSnapshot(r)
  PROVE  LInv'
<1> DEFINE q == [request[r] EXCEPT !.at = IF request[r].sha = NoSha THEN "open" ELSE "commit", !.content = doc[Of(r)]]
<1>1. RowsKept /\ CollabKept /\ request[r].op = "save"
  BY RowsSame, CollabSame DEF SaveSnapshot, collabVars, Stands
<1>2. CASE Return(r)
  BY <1>1, <1>2, ReturnStep
<1>3. CASE ~Return(r)
  <2>1. request' = [request EXCEPT ![r] = q]
    BY <1>3, RequestFields DEF SaveSnapshot
  <2>a. q = [request[r] EXCEPT !.at = IF request[r].sha = NoSha THEN "open" ELSE "commit", !.content = doc[Of(r)]]
    OBVIOUS
  <2>b. request[r] = [op |-> request[r].op, at |-> request[r].at, s |-> request[r].s, kind |-> request[r].kind,
                        path |-> request[r].path, sha |-> request[r].sha, content |-> request[r].content,
                        saw |-> request[r].saw, status |-> request[r].status, done |-> request[r].done]
    BY RequestFields
  <2> HIDE DEF q
  <2>2. q = Now(request[r], IF request[r].sha = NoSha THEN "open" ELSE "commit", request[r].s,
               request[r].sha, doc[Of(r)], request[r].saw, request[r].done)
    BY <2>a, <2>b DEF Now
  <2>3. IsRequest(q) /\ q.s = request[r].s /\ q.op = "save" /\ q.status = request[r].status /\ q.kind = request[r].kind
        /\ q.done = request[r].done
    BY <1>1, <2>2, NowRequest
  <2>4. RequestKept(r, q)
    BY <1>1, <2>3, Proceeds, WorkSame DEF AboutOne
  <2> QED BY <1>1, <2>1, <2>4, OneRequest
<1> QED BY <1>2, <1>3

LEMMA StepSaveOpen ==
  ASSUME LInv, NEW r \in WebRequests, SaveOpen(r)
  PROVE  LInv'
<1> DEFINE q == [request[r] EXCEPT !.at = "commit", !.sha = Sha(request[r].kind, request[r].path),
                  !.saw = <<BoardOf(request[r].kind, request[r].path),
                            Stored(request[r].kind, request[r].path).content>>]
<1>1. RowsKept /\ CollabKept /\ request[r].op = "save"
  BY RowsSame, CollabSame DEF SaveOpen, collabVars, Stands
<1>2. CASE Return(r)
  BY <1>1, <1>2, ReturnStep
<1>3. CASE ~Return(r)
  <2>1. request' = [request EXCEPT ![r] = q]
    BY <1>3, RequestFields DEF SaveOpen
  <2>a. q = [request[r] EXCEPT !.at = "commit", !.sha = Sha(request[r].kind, request[r].path),
             !.saw = <<BoardOf(request[r].kind, request[r].path),
             Stored(request[r].kind, request[r].path).content>>]
    OBVIOUS
  <2>b. request[r] = [op |-> request[r].op, at |-> request[r].at, s |-> request[r].s, kind |-> request[r].kind,
                        path |-> request[r].path, sha |-> request[r].sha, content |-> request[r].content,
                        saw |-> request[r].saw, status |-> request[r].status, done |-> request[r].done]
    BY RequestFields
  <2> HIDE DEF q
  <2>2. q = Now(request[r], "commit", request[r].s, Sha(request[r].kind, request[r].path), request[r].content,
               <<BoardOf(request[r].kind, request[r].path),
                 Stored(request[r].kind, request[r].path).content>>, request[r].done)
    BY <2>a, <2>b DEF Now
  <2>3. IsRequest(q) /\ q.s = request[r].s /\ q.op = "save" /\ q.status = request[r].status /\ q.kind = request[r].kind
        /\ q.done = request[r].done
    BY <1>1, <2>2, NowRequest
  <2>4. RequestKept(r, q)
    BY <1>1, <2>3, Proceeds, WorkSame DEF AboutOne
  <2> QED BY <1>1, <2>1, <2>4, OneRequest
<1> QED BY <1>2, <1>3

LEMMA StepSaveCommit ==
  ASSUME LInv, NEW r \in WebRequests, SaveCommit(r)
  PROVE  LInv'
<1> DEFINE q == [request[r] EXCEPT !.at = "status",
                   !.sha = ShaAfter(request[r].kind, request[r].path, request[r].content),
                   !.saw = <<BoardOf(request[r].kind, request[r].path), request[r].content>>]
<1>1. RowsKept /\ CollabKept /\ request[r].op = "save"
  BY RowsSame, CollabSame DEF SaveCommit, collabVars, Stands
<1>2. CASE Return(r)
  BY <1>1, <1>2, ReturnStep
<1>3. CASE ~Return(r)
  <2>1. request' = [request EXCEPT ![r] = q]
    BY <1>3, RequestFields DEF SaveCommit
  <2>a. q = [request[r] EXCEPT !.at = "status",
             !.sha = ShaAfter(request[r].kind, request[r].path, request[r].content),
             !.saw = <<BoardOf(request[r].kind, request[r].path), request[r].content>>]
    OBVIOUS
  <2>b. request[r] = [op |-> request[r].op, at |-> request[r].at, s |-> request[r].s, kind |-> request[r].kind,
                        path |-> request[r].path, sha |-> request[r].sha, content |-> request[r].content,
                        saw |-> request[r].saw, status |-> request[r].status, done |-> request[r].done]
    BY RequestFields
  <2> HIDE DEF q
  <2>2. q = Now(request[r], "status", request[r].s, ShaAfter(request[r].kind, request[r].path, request[r].content),
               request[r].content, <<BoardOf(request[r].kind, request[r].path), request[r].content>>, request[r].done)
    BY <2>a, <2>b DEF Now
  <2>3. IsRequest(q) /\ q.s = request[r].s /\ q.op = "save" /\ q.status = request[r].status /\ q.kind = request[r].kind
        /\ q.done = request[r].done
    BY <1>1, <2>2, NowRequest
  <2>4. RequestKept(r, q)
    BY <1>1, <2>3, Proceeds, WorkSame DEF AboutOne
  <2> QED BY <1>1, <2>1, <2>4, OneRequest
<1> QED BY <1>2, <1>3

LEMMA StepSaveStatus ==
  ASSUME LInv, NEW r \in WebRequests, SaveStatus(r)
  PROVE  LInv'
<1>1. RowsKept /\ request[r].op = "save" /\ Continue(r, "base")
  BY RowsSame DEF SaveStatus, Stands
<1>2. CollabKept
  <2>1. Of(r) \in Sessions
    BY <1>1, RequestFields DEF AboutOne
  <2> QED BY <2>1, CollabSame, CollabAsked DEF SaveStatus, collabVars, Statuses
<1> QED BY <1>1, <1>2, ContinueStep

\* One row changes in fields that are not its status.
LEMMA RowChanged ==
  ASSUME LInv, NEW s \in DOMAIN rows, NEW row, IsRow(row), UNCHANGED <<born, reopened, answered, unclosed>>,
         rows' = [rows EXCEPT ![s] = row], row.kind = rows[s].kind, row.status = rows[s].status,
         row.expiry # "none" => rows[s].expiry # "none",
         rows[s].expiry = "past" => row.expiry = "past",
         row.purge # "unset" =>
           rows[s].purge # "unset" \/ (rows[s].kind = "adhoc" /\ (s \in reopened \/ Ended(s))),
         row.purge = "due" => rows[s].purge = "due" \/ Safe(s),
         rows[s].purge # "unset" => row.purge # "unset"
  PROVE  RowsKept
<1>1. DOMAIN rows' = DOMAIN rows /\ rows'[s] = row /\ \A x \in DOMAIN rows' \ {s} : rows'[x] = rows[x]
  OBVIOUS
<1>2. DOMAIN rows \subseteq born /\ born \subseteq Sessions /\ \A x \in DOMAIN rows : IsRow(rows[x])
  BY DEF LInv, Shapes
<1>3. RowsAllowed
  BY <1>1 DEF RowsAllowed
<1> QED BY <1>1, <1>2, <1>3 DEF RowsKept, AnswersAllowed, GoneAllowed

\* The fields of a row, for the steps that change some of them.
LEMMA RowFields ==
  ASSUME LInv, NEW s \in DOMAIN rows
  PROVE  rows[s] = [kind |-> rows[s].kind, path |-> rows[s].path, status |-> rows[s].status,
                    base |-> rows[s].base, expiry |-> rows[s].expiry, purge |-> rows[s].purge,
                    saw |-> rows[s].saw]
  BY DEF LInv, Shapes, IsRow

\* A row with what a statement has changed of it.
Row(row, status, base, expiry, purge, saw) ==
  [kind |-> row.kind, path |-> row.path, status |-> status, base |-> base,
   expiry |-> expiry, purge |-> purge, saw |-> saw]

LEMMA RowRow ==
  ASSUME NEW old, NEW status, NEW base, NEW expiry, NEW purge, NEW saw
  PROVE  LET row == Row(old, status, base, expiry, purge, saw)
         IN  IsRow(row) /\ row.kind = old.kind /\ row.status = status /\ row.expiry = expiry /\ row.purge = purge
  BY DEF Row, IsRow

LEMMA StepSaveBase ==
  ASSUME LInv, NEW r \in WebRequests, SaveBase(r)
  PROVE  LInv'
<1>1. CollabKept /\ request[r].op = "save" /\ UNCHANGED <<born, reopened, answered, unclosed>>
  BY CollabSame DEF SaveBase, collabVars, Stands
<1>2. CASE Of(r) \notin DOMAIN rows
  BY <1>1, <1>2, RowsSame, ReturnStep DEF SaveBase
<1>3. CASE Of(r) \in DOMAIN rows
  <2> DEFINE s == Of(r)
             row == [rows[s] EXCEPT !.base = request[r].sha, !.saw = request[r].saw]
  <2>1. Continue(r, "row") /\ rows' = [rows EXCEPT ![s] = row]
    BY <1>3 DEF SaveBase
  <2>2. rows[s] = [kind |-> rows[s].kind, path |-> rows[s].path, status |-> rows[s].status,
                   base |-> rows[s].base, expiry |-> rows[s].expiry, purge |-> rows[s].purge, saw |-> rows[s].saw]
    BY <1>3, RowFields
  <2>3. row = [rows[s] EXCEPT !.base = request[r].sha, !.saw = request[r].saw]
    OBVIOUS
  <2> HIDE DEF s, row
  <2>4. row = Row(rows[s], rows[s].status, request[r].sha, rows[s].expiry, rows[s].purge, request[r].saw)
    BY <2>2, <2>3 DEF Row
  <2>5. IsRow(row) /\ row.kind = rows[s].kind /\ row.status = rows[s].status /\ row.expiry = rows[s].expiry
        /\ row.purge = rows[s].purge
    BY <2>4, RowRow
  <2>6. RowsKept
    BY <1>1, <1>3, <2>1, <2>5, RowChanged DEF s
  <2> QED BY <1>1, <2>1, <2>6, ContinueStep
<1> QED BY <1>2, <1>3

\* updateSessionStatus, by a request that knows that the session has ended if it closes the row.
LEMMA StatusSet ==
  ASSUME LInv, NEW s, NEW status, SetStatus(s, status), UNCHANGED <<born, answered, unclosed>>,
         status = "closed" /\ s \in DOMAIN rows => s \in reopened \/ EndedThere(s)
  PROVE  RowsKept
<1>1. CASE s \notin DOMAIN rows
  BY <1>1, RowsSame DEF SetStatus
<1>2. CASE s \in DOMAIN rows
  <2> DEFINE row == [rows[s] EXCEPT !.status = status]
  <2>1. rows' = [rows EXCEPT ![s] = row]
    BY <1>2 DEF SetStatus
  <2>2. rows[s] = [kind |-> rows[s].kind, path |-> rows[s].path, status |-> rows[s].status,
                   base |-> rows[s].base, expiry |-> rows[s].expiry, purge |-> rows[s].purge, saw |-> rows[s].saw]
    BY <1>2, RowFields
  <2>3. row = [rows[s] EXCEPT !.status = status]
    OBVIOUS
  <2> HIDE DEF row
  <2>4. row = Row(rows[s], status, rows[s].base, rows[s].expiry, rows[s].purge, rows[s].saw)
    BY <2>2, <2>3 DEF Row
  <2>5. IsRow(row) /\ row.kind = rows[s].kind /\ row.status = status /\ row.expiry = rows[s].expiry
        /\ row.purge = rows[s].purge
    BY <2>4, RowRow
  <2>6. DOMAIN rows' = DOMAIN rows /\ rows'[s] = row /\ \A x \in DOMAIN rows' \ {s} : rows'[x] = rows[x]
    BY <1>2, <2>1
  <2>7. /\ reopened \subseteq reopened'
        /\ rows[s].status = "closed" => status = "closed" \/ s \in reopened'
    BY <1>2 DEF SetStatus
  <2>8. RowsAllowed
    BY <1>2, <2>5, <2>6, <2>7 DEF RowsAllowed
  <2> QED BY <2>5, <2>6, <2>8 DEF LInv, Shapes, RowsKept, AnswersAllowed, GoneAllowed
<1> QED BY <1>1, <1>2

LEMMA StepSaveRow ==
  ASSUME LInv, NEW r \in WebRequests, SaveRow(r)
  PROVE  LInv'
<1>1. RowsKept
  BY StatusSet DEF SaveRow
<1> QED BY <1>1, CollabSame, ReturnStep DEF SaveRow, Stands, collabVars

-----------------------------------------------------------------------------
(* PATCH status.                                                           *)

LEMMA StepStatusRead ==
  ASSUME LInv, NEW r \in WebRequests, NEW s \in Sessions, NEW status \in Statuses, StatusRead(r, s, status)
  PROVE  LInv'
<1> DEFINE q == [On("status", "collab", s) EXCEPT !.status = status]
<1>1. RowsKept /\ CollabKept /\ s \in DOMAIN rows
  BY RowsSame, CollabSame DEF StatusRead, collabVars
<1>2. request' = [request EXCEPT ![r] = q] /\ request[r] = IdleRequest
  BY DEF StatusRead, Begin, Free
<1>a. q = [[IdleRequest EXCEPT !.op = "status", !.at = "collab", !.s = {s},
                               !.kind = rows[s].kind, !.path = rows[s].path] EXCEPT !.status = status]
  BY DEF On
<1> HIDE DEF q
<1>3. q = New("status", "collab", {s}, rows[s].kind, rows[s].path, NoSha, NoDoc, <<>>, status)
  BY <1>a DEF New, IdleRequest
<1>4. IsRequest(q) /\ q.s = {s} /\ q.op = "status" /\ q.at = "collab" /\ q.kind = rows[s].kind /\ q.status = status /\ q.done = {}
  BY <1>3, NewRequest
<1>5. RequestKept(r, q)
  BY <1>1, <1>2, <1>4, BeginsOn DEF Registering
<1> QED BY <1>1, <1>2, <1>5, OneRequest

\* A request goes to the await at.
LEMMA ContinuesTo ==
  ASSUME LInv, NEW r \in WebRequests, NEW at, Continue(r, at)
  PROVE  \E q : /\ request' = [request EXCEPT ![r] = q] /\ IsRequest(q) /\ q.at = at
                /\ q.op = request[r].op /\ q.s = request[r].s /\ q.kind = request[r].kind
                /\ q.status = request[r].status /\ q.done = request[r].done
<1> DEFINE q == [request[r] EXCEPT !.at = at]
<1>1. request' = [request EXCEPT ![r] = q]
  BY RequestFields DEF Continue
<1>2. request[r] = [op |-> request[r].op, at |-> request[r].at, s |-> request[r].s, kind |-> request[r].kind,
                    path |-> request[r].path, sha |-> request[r].sha, content |-> request[r].content,
                    saw |-> request[r].saw, status |-> request[r].status, done |-> request[r].done]
  BY RequestFields
<1>3. q = [request[r] EXCEPT !.at = at]
  OBVIOUS
<1> HIDE DEF q
<1>4. q = Now(request[r], at, request[r].s, request[r].sha, request[r].content, request[r].saw, request[r].done)
  BY <1>2, <1>3 DEF Now
<1>5. /\ IsRequest(q) /\ q.at = at /\ q.op = request[r].op /\ q.s = request[r].s
      /\ q.kind = request[r].kind /\ q.status = request[r].status /\ q.done = request[r].done
  BY <1>4, NowRequest
<1> QED BY <1>1, <1>5

LEMMA StepStatusCollab ==
  ASSUME LInv, NEW r \in WebRequests, StatusCollab(r)
  PROVE  LInv'
<1>1. /\ RowsKept /\ request[r].op = "status"
      /\ Of(r) \in Sessions /\ request[r].status \in Statuses
  BY RowsSame, RequestFields DEF StatusCollab, Stands, AboutOne
<1>2. CollabKept
  BY <1>1, CollabSame, CollabAsked DEF StatusCollab, collabVars
<1>3. CASE Return(r)
  BY <1>1, <1>2, <1>3, ReturnStep
<1>4. CASE Continue(r, "answer")
  BY <1>1, <1>2, <1>4, ContinueStep
<1> QED BY <1>3, <1>4 DEF StatusCollab

\* The collab server writes a change that it has admitted; the row of the web
\* application may only be written once it has answered that.
LEMMA StepMoveEnds ==
  ASSUME LInv, NEW r \in WebRequests, NEW s \in Sessions, NEW status \in Statuses, MoveEnds(r, s, status)
  PROVE  LInv'
<1> DEFINE Writes == /\ collab[s] # "absent" /\ collab' = [collab EXCEPT ![s] = status]
                     /\ overtaken' = IF status = "closed" THEN overtaken \ {s}
                          ELSE IF collab[s] = "closed" THEN overtaken \cup {s} ELSE overtaken
                     /\ unclosed' = IF status = "closed" THEN unclosed \ {s} ELSE unclosed
           Fails == UNCHANGED <<collab, overtaken, unclosed>>
<1>1. /\ UNCHANGED <<rows, born, reopened, answered>> /\ moving' \subseteq moving
      /\ Writes \/ Fails
  BY DEF MoveEnds
<1>2. Writes => collab'[s] = status
  BY DEF LInv, Shapes
<1>3. GoneAllowed
  BY <1>1, <1>2 DEF GoneAllowed
<1>4. RowsKept
  BY <1>1, <1>3 DEF LInv, Shapes, RowsKept, RowsAllowed, AnswersAllowed
<1>5. CollabKept
  <2>1. CollabAllowed /\ collab' \in [Sessions -> Statuses \cup {"absent"}]
    <3>1. CASE Fails
      BY <3>1 DEF CollabAllowed, LInv, Shapes
    <3>2. CASE Writes
      <4>1. collab' \in [Sessions -> Statuses \cup {"absent"}]
        BY <3>2 DEF LInv, Shapes
      <4>2. \A x \in Sessions \ {s} : collab'[x] = collab[x]
        BY <3>2 DEF LInv, Shapes
      <4>3. status # "absent"
        BY DEF Statuses
      <4>4. collab'[s] = collab[s] \/ collab[s] # "closed" \/ s \in overtaken'
        BY <1>2, <3>2
      <4>5. \A x \in overtaken \ overtaken' : collab'[x] = "closed"
        BY <1>2, <3>2
      <4> QED BY <1>2, <3>2, <4>1, <4>2, <4>3, <4>4, <4>5 DEF CollabAllowed
    <3> QED BY <1>1, <3>1, <3>2
  <2> QED BY <1>1, <2>1 DEF CollabKept, LInv, Shapes
<1>6. CASE ~Awaits(r, s, status)
  BY <1>4, <1>5, <1>6, NoRequest DEF MoveEnds
<1>7. CASE Awaits(r, s, status) /\ Return(r)
  BY <1>4, <1>5, <1>7, ReturnStep DEF Awaits, Stands
<1>8. CASE Awaits(r, s, status) /\ Continue(r, "row") /\ collab' = [collab EXCEPT ![s] = status]
  <2>1. request[r].op = "status" /\ request[r].s = {s} /\ request[r].status = status
    BY <1>8 DEF Awaits, Stands
  <2>2. collab'[s] = status
    BY <1>8 DEF LInv, Shapes
  <2>3. PICK q : /\ request' = [request EXCEPT ![r] = q] /\ IsRequest(q) /\ q.at = "row"
                 /\ q.op = request[r].op /\ q.s = request[r].s /\ q.kind = request[r].kind
                 /\ q.status = request[r].status /\ q.done = request[r].done
    BY <1>8, ContinuesTo
  <2>4. s \in DOMAIN rows' => request[r].kind = rows'[s].kind
    BY <1>1, <2>1 DEF LInv, RequestsKnow
  <2>5. RequestAllowed(r, q)
    BY <2>1, <2>2, <2>3, <2>4 DEF RequestAllowed, Registering
  <2>6. RequestKept(r, q)
    BY <1>4, <2>1, <2>3, <2>5, WorkSame DEF RequestKept, LInv, Shapes, RowsKept
  <2> QED BY <1>4, <1>5, <2>3, <2>6, OneRequest
<1> QED BY <1>6, <1>7, <1>8 DEF MoveEnds, Return, Continue

LEMMA StepStatusRow ==
  ASSUME LInv, NEW r \in WebRequests, StatusRow(r)
  PROVE  LInv'
<1> DEFINE s == Of(r)
           status == request[r].status
<1>1. /\ request[r].op = "status" /\ Stands(r, "status", "row") /\ SetStatus(s, status)
      /\ UNCHANGED <<born, answered, unclosed>> /\ CollabKept
  BY CollabSame DEF StatusRow, Stands, collabVars
<1>2. request[r].s = {s} /\ status \in Statuses
  BY <1>1, RequestFields DEF AboutOne
<1>3. s \in DOMAIN rows => request[r].kind = rows[s].kind /\ (status = "closed" => s \in reopened \/ EndedThere(s))
  BY <1>1, <1>2 DEF LInv, RequestsKnow
<1>4. RowsKept
  BY <1>1, <1>3, StatusSet
<1>5. CASE status # "closed"
  BY <1>1, <1>4, <1>5, ReturnStep DEF StatusRow
<1>6. CASE status = "closed" /\ request[r].kind # "adhoc"
  <2>1. Continue(r, "revoke")
    BY <1>6 DEF StatusRow
  <2> QED BY <1>1, <1>4, <2>1, ContinueStep
<1>7. CASE status = "closed" /\ request[r].kind = "adhoc"
  <2>1. Continue(r, "purge")
    BY <1>7 DEF StatusRow
  <2>2. PICK q : /\ request' = [request EXCEPT ![r] = q] /\ IsRequest(q) /\ q.at = "purge"
                 /\ q.op = request[r].op /\ q.s = request[r].s /\ q.kind = request[r].kind
                 /\ q.status = request[r].status /\ q.done = request[r].done
    BY <2>1, ContinuesTo
  <2>3. s \in DOMAIN rows' => rows'[s].status = "closed" /\ rows'[s].kind = "adhoc"
    <3>1. s \in DOMAIN rows' => s \in DOMAIN rows
      BY <1>1 DEF SetStatus
    <3>2. ASSUME s \in DOMAIN rows
          PROVE  rows' = [rows EXCEPT ![s].status = status]
      BY <1>1, <3>2 DEF SetStatus
    <3>3. s \in DOMAIN rows' => rows'[s].kind = rows[s].kind
      BY <1>4, <3>1 DEF RowsKept, RowsAllowed
    <3>4. ASSUME s \in DOMAIN rows
          PROVE  rows'[s].status = "closed"
      BY <1>7, <3>2, <3>4, RowFields
    <3> QED BY <1>3, <1>7, <3>1, <3>3, <3>4
  <2>4. RequestAllowed(r, q)
    BY <1>1, <1>2, <1>7, <2>2, <2>3 DEF RequestAllowed, Registering
  <2>5. RequestKept(r, q)
    BY <1>1, <1>2, <1>4, <2>2, <2>4, WorkSame DEF RequestKept, LInv, Shapes
  <2> QED BY <1>1, <1>4, <2>2, <2>5, OneRequest
<1> QED BY <1>5, <1>6, <1>7

LEMMA StepStatusPurge ==
  ASSUME LInv, NEW r \in WebRequests, StatusPurge(r)
  PROVE  LInv'
<1> DEFINE s == Of(r)
           row == [rows[s] EXCEPT !.purge = "set"]
<1>1. /\ request[r].op = "status" /\ Stands(r, "status", "purge") /\ Continue(r, "revoke")
      /\ UNCHANGED <<born, reopened, answered, unclosed>> /\ CollabKept
  BY CollabSame DEF StatusPurge, Stands, collabVars
<1>2. RowsKept
  <2>1. CASE s \notin DOMAIN rows
    BY <1>1, <2>1, RowsSame DEF StatusPurge
  <2>2. CASE s \in DOMAIN rows
    <3>1. rows' = [rows EXCEPT ![s] = row]
      BY <2>2 DEF StatusPurge
    <3>2. rows[s] = [kind |-> rows[s].kind, path |-> rows[s].path, status |-> rows[s].status,
                     base |-> rows[s].base, expiry |-> rows[s].expiry, purge |-> rows[s].purge, saw |-> rows[s].saw]
      BY <2>2, RowFields
    <3>3. row = [rows[s] EXCEPT !.purge = "set"]
      OBVIOUS
    <3>4. s \in request[r].s
      BY <1>1, RequestFields DEF AboutOne
    <3>5. rows[s].kind = "adhoc" /\ (s \in reopened \/ Ended(s))
      BY <1>1, <2>2, <3>4 DEF LInv, RequestsKnow, Ended
    <3> HIDE DEF s, row
    <3>6. row = Row(rows[s], rows[s].status, rows[s].base, rows[s].expiry, "set", rows[s].saw)
      BY <3>2, <3>3 DEF Row
    <3>7. IsRow(row) /\ row.kind = rows[s].kind /\ row.status = rows[s].status /\ row.expiry = rows[s].expiry
          /\ row.purge = "set"
      BY <3>6, RowRow
    <3> QED BY <1>1, <2>2, <3>1, <3>5, <3>7, RowChanged
  <2> QED BY <2>1, <2>2
<1> QED BY <1>1, <1>2, ContinueStep

LEMMA StepStatusRevoke ==
  ASSUME LInv, NEW r \in WebRequests, StatusRevoke(r)
  PROVE  LInv'
  BY RowsSame, CollabSame, ReturnStep DEF StatusRevoke, Stands, collabVars

-----------------------------------------------------------------------------
(* GET sessions, DELETE session, GET and PATCH state, an edit, an expiry.  *)

LEMMA StepListRead ==
  ASSUME LInv, NEW r \in WebRequests, NEW s \in Sessions, ListRead(r, s)
  PROVE  LInv'
<1> DEFINE q == On("list", "invites", s)
<1>1. RowsKept /\ CollabKept /\ s \in DOMAIN rows
  BY RowsSame, CollabSame DEF ListRead, collabVars
<1>2. request' = [request EXCEPT ![r] = q] /\ request[r] = IdleRequest
  BY DEF ListRead, Begin, Free
<1>a. q = [IdleRequest EXCEPT !.op = "list", !.at = "invites", !.s = {s},
                              !.kind = rows[s].kind, !.path = rows[s].path]
  BY DEF On
<1> HIDE DEF q
<1>3. q = New("list", "invites", {s}, rows[s].kind, rows[s].path, NoSha, NoDoc, <<>>, "active")
  BY <1>a DEF New, IdleRequest
<1>4. IsRequest(q) /\ q.s = {s} /\ q.op = "list" /\ q.status = "active" /\ q.done = {}
  BY <1>3, NewRequest
<1>5. RequestKept(r, q)
  BY <1>1, <1>2, <1>4, BeginsOn DEF Statuses, Registering
<1> QED BY <1>1, <1>2, <1>5, OneRequest

LEMMA StepListInvites ==
  ASSUME LInv, NEW r \in WebRequests, ListInvites(r)
  PROVE  LInv'
  BY RowsSame, CollabSame, ReturnStep DEF ListInvites, Stands, collabVars

LEMMA StepDeleteRow ==
  ASSUME LInv, NEW r \in WebRequests, NEW s \in Sessions, DeleteRow(r, s)
  PROVE  LInv'
<1> DEFINE q == On("delete", "close", s)
<1>1. CollabKept /\ s \in DOMAIN rows
  BY CollabSame DEF DeleteRow, collabVars
<1>2. request' = [request EXCEPT ![r] = q] /\ request[r] = IdleRequest
  BY DEF DeleteRow, Begin, Free
<1>a. q = [IdleRequest EXCEPT !.op = "delete", !.at = "close", !.s = {s},
                              !.kind = rows[s].kind, !.path = rows[s].path]
  BY DEF On
<1> HIDE DEF q
<1>3. q = New("delete", "close", {s}, rows[s].kind, rows[s].path, NoSha, NoDoc, <<>>, "active")
  BY <1>a DEF New, IdleRequest
<1>4. IsRequest(q) /\ q.s = {s} /\ q.op = "delete" /\ q.at = "close" /\ q.status = "active" /\ q.done = {}
  BY <1>3, NewRequest
<1>5. ToClose(s)'
  <2>1. request'[r] = q
    BY <1>2, RequestFields
  <2> QED BY <1>4, <2>1 DEF ToClose, Stands
<1>6. RowsKept
  BY <1>5, RowsDeleted DEF DeleteRow
<1>7. RequestKept(r, q)
  BY <1>1, <1>2, <1>4, <1>6, BeginsOn DEF Statuses, Registering
<1> QED BY <1>1, <1>2, <1>6, <1>7, OneRequest

LEMMA StepDeleteClose ==
  ASSUME LInv, NEW r \in WebRequests, DeleteClose(r)
  PROVE  LInv'
<1>1. RowsKept /\ Return(r) /\ request[r].op = "delete"
  BY RowsSame DEF DeleteClose, Stands
<1>2. Of(r) \in Sessions
  BY <1>1, RequestFields DEF AboutOne
<1>3. CollabKept
  BY <1>2, CollabSame, CollabAsked DEF DeleteClose, collabVars, Statuses
<1>4. request[r].s = {Of(r)}
  BY <1>1, RequestFields DEF AboutOne
<1>5. Of(r) \in unclosed'
  BY <1>4 DEF DeleteClose
<1>6. WorkAllowed(r, IdleRequest)
  BY <1>4, <1>5 DEF WorkAllowed, IdleRequest
<1> QED BY <1>1, <1>3, <1>6, OneRequest, Returns DEF Return

LEMMA StepEnsureRead ==
  ASSUME LInv, NEW r \in WebRequests, NEW s \in Sessions, EnsureRead(r, s)
  PROVE  LInv'
<1> DEFINE q == [On("ensure", "register", s) EXCEPT !.content = Stored(rows[s].kind, rows[s].path).content]
<1>1. RowsKept /\ CollabKept /\ s \in DOMAIN rows /\ rows[s].kind # "adhoc"
  BY RowsSame, CollabSame DEF EnsureRead, collabVars
<1>2. request' = [request EXCEPT ![r] = q] /\ request[r] = IdleRequest
  BY DEF EnsureRead, Begin, Free
<1>a. q = [[IdleRequest EXCEPT !.op = "ensure", !.at = "register", !.s = {s},
                               !.kind = rows[s].kind, !.path = rows[s].path]
             EXCEPT !.content = Stored(rows[s].kind, rows[s].path).content]
  BY DEF On
<1> HIDE DEF q
<1>3. q = New("ensure", "register", {s}, rows[s].kind, rows[s].path, NoSha,
              Stored(rows[s].kind, rows[s].path).content, <<>>, "active")
  BY <1>a DEF New, IdleRequest
<1>4. IsRequest(q) /\ q.s = {s} /\ q.op = "ensure" /\ q.status = "active" /\ q.done = {}
  BY <1>3, NewRequest
<1>5. RequestKept(r, q)
  BY <1>1, <1>2, <1>4, BeginsOn DEF Statuses, Registering
<1> QED BY <1>1, <1>2, <1>5, OneRequest

LEMMA StepEnsureRegister ==
  ASSUME LInv, NEW r \in WebRequests, EnsureRegister(r)
  PROVE  LInv'
<1>1. RowsKept /\ Return(r) /\ request[r].op = "ensure"
  BY RowsSame DEF EnsureRegister, Stands
<1>2. Of(r) \in Sessions /\ Of(r) \in request[r].s
  BY <1>1, RequestFields DEF AboutOne
<1>3. CollabKept
  BY <1>1, <1>2, CollabSame, CollabRegisters DEF EnsureRegister, Registered, Registers, collabVars, Registering
<1> QED BY <1>1, <1>3, ReturnStep

LEMMA StepWriteRead ==
  ASSUME LInv, NEW r \in WebRequests, NEW s \in Sessions, NEW content, WriteRead(r, s, content)
  PROVE  LInv'
<1> DEFINE q == [On("write", "upsert", s) EXCEPT !.content = content]
<1>1. RowsKept /\ CollabKept /\ s \in DOMAIN rows /\ ~Ended(s)
  BY RowsSame, CollabSame DEF WriteRead, collabVars
<1>2. request' = [request EXCEPT ![r] = q] /\ request[r] = IdleRequest
  BY DEF WriteRead, Begin, Free
<1>a. q = [[IdleRequest EXCEPT !.op = "write", !.at = "upsert", !.s = {s},
                               !.kind = rows[s].kind, !.path = rows[s].path] EXCEPT !.content = content]
  BY DEF On
<1> HIDE DEF q
<1>3. q = New("write", "upsert", {s}, rows[s].kind, rows[s].path, NoSha, content, <<>>, "active")
  BY <1>a DEF New, IdleRequest
<1>4. IsRequest(q) /\ q.s = {s} /\ q.op = "write" /\ q.status = "active" /\ q.done = {}
  BY <1>3, NewRequest
<1>5. RequestKept(r, q)
  BY <1>1, <1>2, <1>4, BeginsOn DEF Statuses, Registering
<1> QED BY <1>1, <1>2, <1>5, OneRequest

LEMMA StepWriteUpsert ==
  ASSUME LInv, NEW r \in WebRequests, WriteUpsert(r)
  PROVE  LInv'
<1>1. RowsKept /\ Return(r) /\ request[r].op = "write"
  BY RowsSame DEF WriteUpsert, Stands
<1>2. Of(r) \in Sessions /\ Of(r) \in request[r].s
  BY <1>1, RequestFields DEF AboutOne
<1>3. CollabKept
  BY <1>1, <1>2, CollabSame, CollabRegisters DEF WriteUpsert, collabVars, Registering
<1> QED BY <1>1, <1>3, ReturnStep

LEMMA StepEdit ==
  ASSUME LInv, NEW s \in Sessions, NEW content, Edit(s, content)
  PROVE  LInv'
  BY RowsSame, CollabSame, NoRequest DEF Edit, webVars

LEMMA StepExpire ==
  ASSUME LInv, NEW s \in Sessions, Expire(s)
  PROVE  LInv'
<1> DEFINE row == [rows[s] EXCEPT !.expiry = "past"]
<1>1. /\ s \in DOMAIN rows /\ rows[s].expiry = "ahead" /\ rows' = [rows EXCEPT ![s] = row]
      /\ UNCHANGED <<born, reopened, answered, unclosed, request>> /\ CollabKept
  BY CollabSame DEF Expire, collabVars
<1>2. rows[s] = [kind |-> rows[s].kind, path |-> rows[s].path, status |-> rows[s].status,
                 base |-> rows[s].base, expiry |-> rows[s].expiry, purge |-> rows[s].purge, saw |-> rows[s].saw]
  BY <1>1, RowFields
<1>3. row = [rows[s] EXCEPT !.expiry = "past"]
  OBVIOUS
<1> HIDE DEF row
<1>4. row = Row(rows[s], rows[s].status, rows[s].base, "past", rows[s].purge, rows[s].saw)
  BY <1>2, <1>3 DEF Row
<1>5. IsRow(row) /\ row.kind = rows[s].kind /\ row.status = rows[s].status /\ row.expiry = "past"
      /\ row.purge = rows[s].purge
  BY <1>4, RowRow
<1>6. RowsKept
  BY <1>1, <1>5, RowChanged
<1> QED BY <1>1, <1>6, NoRequest

\* The retention is over; no request is about the session any more.
LEMMA StepElapse ==
  ASSUME LInv, NEW s \in Sessions, Elapse(s)
  PROVE  LInv'
<1> DEFINE row == [rows[s] EXCEPT !.purge = "due"]
<1>1. /\ s \in DOMAIN rows /\ rows[s].purge = "set" /\ rows' = [rows EXCEPT ![s] = row] /\ Safe(s)
      /\ UNCHANGED <<born, reopened, answered, unclosed, request>> /\ CollabKept
  BY CollabSame DEF Elapse, collabVars, Safe
<1>2. rows[s] = [kind |-> rows[s].kind, path |-> rows[s].path, status |-> rows[s].status,
                 base |-> rows[s].base, expiry |-> rows[s].expiry, purge |-> rows[s].purge, saw |-> rows[s].saw]
  BY <1>1, RowFields
<1>3. row = [rows[s] EXCEPT !.purge = "due"]
  OBVIOUS
<1> HIDE DEF row
<1>4. row = Row(rows[s], rows[s].status, rows[s].base, rows[s].expiry, "due", rows[s].saw)
  BY <1>2, <1>3 DEF Row
<1>5. IsRow(row) /\ row.kind = rows[s].kind /\ row.status = rows[s].status /\ row.expiry = rows[s].expiry
      /\ row.purge = "due"
  BY <1>4, RowRow
<1>6. RowsKept
  BY <1>1, <1>5, RowChanged
<1> QED BY <1>1, <1>6, NoRequest

-----------------------------------------------------------------------------
(* The purge.                                                              *)

LEMMA StepPurgeList ==
  ASSUME LInv, NEW r \in WebRequests, PurgeList(r)
  PROVE  LInv'
<1> DEFINE due == {s \in DOMAIN rows : rows[s].purge = "due"}
           Marked(s) == rows[s].purge = "unset" /\ rows[s].expiry = "past"
           q == [IdleRequest EXCEPT !.op = "purge", !.at = "collab", !.s = due]
<1>1. /\ rows' = [s \in DOMAIN rows |-> IF Marked(s) THEN [rows[s] EXCEPT !.purge = "set"] ELSE rows[s]]
      /\ UNCHANGED <<born, reopened, answered, unclosed>> /\ CollabKept
  BY CollabSame DEF PurgeList, collabVars
<1>2. ASSUME NEW s \in DOMAIN rows, Marked(s)
      PROVE  /\ IsRow(rows'[s]) /\ rows'[s].kind = rows[s].kind /\ rows'[s].status = rows[s].status
             /\ rows'[s].expiry = rows[s].expiry /\ rows'[s].purge = "set"
  <2> DEFINE row == rows'[s]
  <2>1. row = [rows[s] EXCEPT !.purge = "set"]
    BY <1>1, <1>2
  <2>2. rows[s] = [kind |-> rows[s].kind, path |-> rows[s].path, status |-> rows[s].status,
                   base |-> rows[s].base, expiry |-> rows[s].expiry, purge |-> rows[s].purge, saw |-> rows[s].saw]
    BY RowFields
  <2> HIDE DEF row
  <2>3. row = Row(rows[s], rows[s].status, rows[s].base, rows[s].expiry, "set", rows[s].saw)
    BY <2>1, <2>2 DEF Row
  <2>4. IsRow(row) /\ row.kind = rows[s].kind /\ row.status = rows[s].status /\ row.expiry = rows[s].expiry
        /\ row.purge = "set"
    BY <2>3, RowRow
  <2> QED BY <2>4 DEF row
<1>3. \A s \in DOMAIN rows : ~Marked(s) => rows'[s] = rows[s]
  BY <1>1
<1>4. DOMAIN rows' = DOMAIN rows
  BY <1>1
<1>5. ASSUME NEW s \in DOMAIN rows
      PROVE  /\ IsRow(rows'[s]) /\ rows'[s].kind = rows[s].kind /\ rows'[s].status = rows[s].status
             /\ rows'[s].expiry = rows[s].expiry
             /\ rows'[s].purge = rows[s].purge \/ (rows'[s].purge = "set" /\ rows[s].expiry = "past")
  BY <1>2, <1>3 DEF LInv, Shapes
<1> HIDE DEF Marked
<1>6. \A s \in DOMAIN rows : rows[s].expiry = "past" => rows[s].kind = "adhoc"
  BY DEF LInv, PurgesEnded
<1>7. RowsAllowed
  BY <1>1, <1>4, <1>5, <1>6 DEF RowsAllowed, Ended
<1>8. RowsKept
  BY <1>1, <1>4, <1>5, <1>7 DEF RowsKept, LInv, Shapes, AnswersAllowed, GoneAllowed
<1>9. CASE due = {}
  <2>1. UNCHANGED request
    BY <1>9 DEF PurgeList
  <2> QED BY <1>1, <1>8, <2>1, NoRequest
<1>10. CASE due # {}
  <2>1. request' = [request EXCEPT ![r] = q]
    BY <1>10 DEF PurgeList, Begin
  <2>2. q = [IdleRequest EXCEPT !.op = "purge", !.at = "collab", !.s = due]
    OBVIOUS
  <2>3. due \subseteq DOMAIN rows /\ \A s \in due : rows[s].purge = "due"
    OBVIOUS
  <2> HIDE DEF q, due
  <2>4. q = New("purge", "collab", due, "adhoc", <<>>, NoSha, NoDoc, <<>>, "active")
    BY <2>2 DEF New, IdleRequest
  <2>5. IsRequest(q) /\ q.done = {} /\ q.s = due /\ q.op = "purge" /\ q.at = "collab" /\ q.status = "active"
    BY <2>4, NewRequest
  <2>6. RequestAllowed(r, q)
    BY <2>3, <2>5 DEF RequestAllowed, Registering
  <2>7. due \subseteq born'
    BY <1>1, <2>3 DEF LInv, Shapes
  <2>8. request[r] = IdleRequest
    BY <1>10 DEF PurgeList, Begin, Free
  <2>9. RequestKept(r, q)
    BY <1>8, <2>5, <2>6, <2>7, <2>8, WorkSame DEF RequestKept, AboutOne, Statuses, IdleRequest
  <2> QED BY <1>1, <1>8, <2>1, <2>9, OneRequest
<1> QED BY <1>9, <1>10

LEMMA StepPurgeCollab ==
  ASSUME LInv, NEW r \in WebRequests, NEW s \in Sessions, PurgeCollab(r, s)
  PROVE  LInv'
<1>1. RowsKept /\ request[r].op = "purge" /\ s \in request[r].s
  BY RowsSame DEF PurgeCollab, Stands
<1>2. CollabKept
  <2>0. UNCHANGED <<moving, overtaken>>
    BY DEF PurgeCollab, collabVars
  <2>1. CASE UNCHANGED collab
    BY <2>0, <2>1, CollabSame
  <2>2. CASE collab' = [collab EXCEPT ![s] = "absent"]
    BY <2>0, <1>1, <2>2 DEF CollabKept, CollabAllowed, LInv, Shapes
  <2> QED BY <2>1, <2>2 DEF PurgeCollab, collabVars
<1>3. \E done : /\ request' = [request EXCEPT ![r] = [request[r] EXCEPT !.s = @ \ {s}, !.done = done]]
                /\ done \subseteq request[r].done \/ (done \subseteq request[r].done \cup {s} /\ collab'[s] = "absent")
  <2>f. DOMAIN request = WebRequests
    BY RequestFields
  <2>g. request[r] = [op |-> request[r].op, at |-> request[r].at, s |-> request[r].s, kind |-> request[r].kind,
                      path |-> request[r].path, sha |-> request[r].sha, content |-> request[r].content,
                      saw |-> request[r].saw, status |-> request[r].status, done |-> request[r].done]
    BY RequestFields
  <2>1. CASE request' = [request EXCEPT ![r].s = @ \ {s}]
    <3>1. [request[r] EXCEPT !.s = @ \ {s}] = [request[r] EXCEPT !.s = @ \ {s}, !.done = request[r].done]
      BY <2>g
    <3> QED BY <2>1, <2>f, <3>1
  <2>2. CASE /\ \E done \in {{}, {s}} : request' = [request EXCEPT ![r].s = @ \ {s}, ![r].done = @ \cup done]
             /\ collab' = [collab EXCEPT ![s] = "absent"]
    <3>1. collab'[s] = "absent"
      BY <2>2 DEF LInv, Shapes
    <3>2. PICK done \in {{}, {s}} : request' = [request EXCEPT ![r].s = @ \ {s}, ![r].done = @ \cup done]
      BY <2>2
    <3>3. request' = [request EXCEPT ![r] = [request[r] EXCEPT !.s = @ \ {s}, !.done = request[r].done \cup done]]
      BY <2>f, <3>2
    <3>4. request[r].done \cup done \subseteq request[r].done \cup {s}
      OBVIOUS
    <3> QED BY <3>1, <3>3, <3>4
  <2> QED BY <2>1, <2>2 DEF PurgeCollab
<1>4. PICK done : /\ request' = [request EXCEPT ![r] = [request[r] EXCEPT !.s = @ \ {s}, !.done = done]]
                  /\ done \subseteq request[r].done \/ (done \subseteq request[r].done \cup {s} /\ collab'[s] = "absent")
  BY <1>3
<1> DEFINE q == [request[r] EXCEPT !.s = @ \ {s}, !.done = done]
<1>5. q = [request[r] EXCEPT !.s = @ \ {s}, !.done = done]
  OBVIOUS
<1>6. request[r] = [op |-> request[r].op, at |-> request[r].at, s |-> request[r].s, kind |-> request[r].kind,
                    path |-> request[r].path, sha |-> request[r].sha, content |-> request[r].content,
                    saw |-> request[r].saw, status |-> request[r].status, done |-> request[r].done]
  BY RequestFields
<1>7. request' = [request EXCEPT ![r] = q]
  BY <1>4
<1> HIDE DEF q
<1>8. q = Now(request[r], request[r].at, request[r].s \ {s}, request[r].sha, request[r].content,
              request[r].saw, done)
  BY <1>5, <1>6 DEF Now
<1>9. IsRequest(q) /\ q.s = request[r].s \ {s} /\ q.op = "purge" /\ q.status = request[r].status /\ q.kind = request[r].kind
      /\ q.done = done
  BY <1>1, <1>8, NowRequest
<1>10. WorkAllowed(r, q)
  BY <1>1, <1>4, <1>9 DEF WorkAllowed, Stands
<1>11. q.done \subseteq born'
  <2>1. request[r].s \cup request[r].done \subseteq born'
    BY <1>1 DEF LInv, Shapes, RowsKept
  <2> QED BY <1>1, <1>4, <1>9, <2>1
<1>12. RequestKept(r, q)
  BY <1>1, <1>9, <1>10, <1>11, Proceeds DEF AboutOne
<1> QED BY <1>1, <1>2, <1>7, <1>12, OneRequest

LEMMA StepPurgeRows ==
  ASSUME LInv, NEW r \in WebRequests, PurgeRows(r)
  PROVE  LInv'
<1>1. RowsKept
  BY RowsDeleted DEF PurgeRows
<1> QED BY <1>1, CollabSame, ReturnStep DEF PurgeRows, Stands, collabVars

-----------------------------------------------------------------------------
(* Workspace boards, a request that is cut short, and everything else.     *)

LEMMA StepRenameRead ==
  ASSUME LInv, NEW r \in WebRequests, NEW b, RenameRead(r, b)
  PROVE  LInv'
<1> DEFINE q == [IdleRequest EXCEPT !.op = "rename", !.at = "rename", !.saw = <<b>>]
<1>1. RowsKept /\ CollabKept
  BY RowsSame, CollabSame DEF RenameRead, collabVars
<1>2. request' = [request EXCEPT ![r] = q] /\ request[r] = IdleRequest
  BY DEF RenameRead, Begin, Free
<1>a. q = [IdleRequest EXCEPT !.op = "rename", !.at = "rename", !.saw = <<b>>]
  OBVIOUS
<1> HIDE DEF q
<1>3. q = New("rename", "rename", {}, "adhoc", <<>>, NoSha, NoDoc, <<b>>, "active")
  BY <1>a DEF New, IdleRequest
<1>4. IsRequest(q) /\ q.s = {} /\ q.op = "rename" /\ q.status = "active" /\ q.done = {}
  BY <1>3, NewRequest
<1>5. RequestKept(r, q)
  BY <1>1, <1>2, <1>4, WorkSame DEF RequestKept, RequestAllowed, AboutOne, Statuses, IdleRequest
<1> QED BY <1>1, <1>2, <1>5, OneRequest

LEMMA StepRenameWrite ==
  ASSUME LInv, NEW r \in WebRequests, NEW title, RenameWrite(r, title)
  PROVE  LInv'
  BY RowsSame, CollabSame, ReturnStep DEF RenameWrite, Stands, collabVars

LEMMA StepDeleteBoardRead ==
  ASSUME LInv, NEW r \in WebRequests, NEW b, DeleteBoardRead(r, b)
  PROVE  LInv'
<1> DEFINE q == [IdleRequest EXCEPT !.op = "deleteBoard", !.at = "sessions",
                                    !.s = SessionsAt(b), !.saw = <<b>>]
<1>1. RowsKept /\ CollabKept /\ UNCHANGED born
  BY RowsSame, CollabSame DEF DeleteBoardRead, collabVars
<1>2. request' = [request EXCEPT ![r] = q] /\ request[r] = IdleRequest
  BY DEF DeleteBoardRead, Begin, Free
<1>a. q = [IdleRequest EXCEPT !.op = "deleteBoard", !.at = "sessions", !.s = SessionsAt(b), !.saw = <<b>>]
  OBVIOUS
<1> HIDE DEF q
<1>3. q = New("deleteBoard", "sessions", SessionsAt(b), "adhoc", <<>>, NoSha, NoDoc, <<b>>, "active")
  BY <1>a DEF New, IdleRequest
<1>4. IsRequest(q) /\ q.s = SessionsAt(b) /\ q.op = "deleteBoard" /\ q.status = "active" /\ q.done = {}
  BY <1>3, NewRequest
<1>5. SessionsAt(b) \subseteq born'
  BY <1>1 DEF SessionsAt, LInv, Shapes
<1>6. WorkAllowed(r, q) /\ q.done \subseteq born'
  BY <1>1, <1>2, <1>4, WorkSame DEF IdleRequest
<1>7. RequestKept(r, q)
  BY <1>4, <1>5, <1>6 DEF RequestKept, RequestAllowed, AboutOne, Statuses, Registering
<1> QED BY <1>1, <1>2, <1>7, OneRequest

LEMMA StepDeleteBoardClose ==
  ASSUME LInv, NEW r \in WebRequests, NEW s \in Sessions, DeleteBoardClose(r, s)
  PROVE  LInv'
<1> DEFINE q == [request[r] EXCEPT !.at = "row", !.done = {s}]
<1>1. RowsKept /\ request[r].op = "deleteBoard" /\ s \in request[r].s
  BY RowsSame DEF DeleteBoardClose, Stands
<1>2. CollabKept
  BY CollabSame, CollabAsked DEF DeleteBoardClose, collabVars, Statuses
<1>3. request' = [request EXCEPT ![r] = q]
  BY RequestFields DEF DeleteBoardClose
<1>a. q = [request[r] EXCEPT !.at = "row", !.done = {s}]
  OBVIOUS
<1>b. request[r] = [op |-> request[r].op, at |-> request[r].at, s |-> request[r].s, kind |-> request[r].kind,
                    path |-> request[r].path, sha |-> request[r].sha, content |-> request[r].content,
                    saw |-> request[r].saw, status |-> request[r].status, done |-> request[r].done]
  BY RequestFields
<1> HIDE DEF q
<1>4. q = Now(request[r], "row", request[r].s, request[r].sha, request[r].content, request[r].saw, {s})
  BY <1>a, <1>b DEF Now
<1>5. IsRequest(q) /\ q.s = request[r].s /\ q.op = "deleteBoard" /\ q.status = request[r].status
      /\ q.kind = request[r].kind /\ q.done = {s}
  BY <1>1, <1>4, NowRequest
<1>6. s \in unclosed'
  BY DEF DeleteBoardClose
<1>7. WorkAllowed(r, q)
  BY <1>1, <1>5, <1>6 DEF WorkAllowed, Stands
<1>8. q.done \subseteq born'
  BY <1>1, <1>5 DEF LInv, Shapes, RowsKept
<1>9. RequestKept(r, q)
  BY <1>1, <1>5, <1>7, <1>8, Proceeds DEF AboutOne
<1> QED BY <1>1, <1>2, <1>3, <1>9, OneRequest

LEMMA StepDeleteBoardRow ==
  ASSUME LInv, NEW r \in WebRequests, DeleteBoardRow(r)
  PROVE  LInv'
<1> DEFINE q == [request[r] EXCEPT !.at = "sessions", !.s = @ \ request[r].done, !.done = {}]
<1>1. RowsKept /\ CollabKept /\ request[r].op = "deleteBoard"
  BY RowsDeleted, CollabSame DEF DeleteBoardRow, Stands, collabVars
<1>2. request' = [request EXCEPT ![r] = q]
  BY RequestFields DEF DeleteBoardRow
<1>a. q = [request[r] EXCEPT !.at = "sessions", !.s = @ \ request[r].done, !.done = {}]
  OBVIOUS
<1>b. request[r] = [op |-> request[r].op, at |-> request[r].at, s |-> request[r].s, kind |-> request[r].kind,
                    path |-> request[r].path, sha |-> request[r].sha, content |-> request[r].content,
                    saw |-> request[r].saw, status |-> request[r].status, done |-> request[r].done]
  BY RequestFields
<1> HIDE DEF q
<1>3. q = Now(request[r], "sessions", request[r].s \ request[r].done, request[r].sha, request[r].content,
              request[r].saw, {})
  BY <1>a, <1>b DEF Now
<1>4. IsRequest(q) /\ q.s = request[r].s \ request[r].done /\ q.op = "deleteBoard" /\ q.status = request[r].status
      /\ q.kind = request[r].kind /\ q.done = {}
  BY <1>1, <1>3, NowRequest
<1>5. RequestKept(r, q)
  BY <1>1, <1>4, Proceeds, WorkSame DEF AboutOne
<1> QED BY <1>1, <1>2, <1>5, OneRequest

LEMMA StepDeleteBoardDrop ==
  ASSUME LInv, NEW r \in WebRequests, DeleteBoardDrop(r)
  PROVE  LInv'
  BY RowsSame, CollabSame, ReturnStep DEF DeleteBoardDrop, Stands, collabVars

LEMMA StepAbort ==
  ASSUME LInv, NEW r \in WebRequests, Abort(r)
  PROVE  LInv'
<1>1. RowsKept /\ CollabKept /\ Return(r)
  BY RowsSame, CollabSame DEF Abort, collabVars
<1>2. WorkAllowed(r, IdleRequest)
  BY DEF Abort, Abandons, Stands, WorkAllowed, IdleRequest
<1> QED BY <1>1, <1>2, OneRequest, Returns DEF Return

LEMMA StepChangeDrawing ==
  ASSUME LInv, ChangeDrawing
  PROVE  LInv'
  BY RowsSame, CollabSame, NoRequest DEF ChangeDrawing, webVars, collabVars

-----------------------------------------------------------------------------
(* The invariant and what it says of sessions that have ended.             *)

LEMMA LInvInit == LifecycleInit => LInv
<1> SUFFICES ASSUME LifecycleInit
             PROVE  LInv
  OBVIOUS
<1>1. rows = <<>> /\ DOMAIN rows = {} /\ born = {} /\ request = [r \in WebRequests |-> IdleRequest]
  BY DEF LifecycleInit
<1>2. IsRequest(IdleRequest) /\ IdleRequest.s = {} /\ IdleRequest.done = {} /\ IdleRequest.status = "active" /\ ~AboutOne(IdleRequest)
  BY DEF IsRequest, IdleRequest, AboutOne
<1>3. Shapes
  BY <1>1, <1>2 DEF Shapes, LifecycleInit, Statuses
<1>4. PurgesEnded /\ RequestsKnow /\ ClosedHasEnded
  BY <1>1 DEF PurgesEnded, RequestsKnow, ClosedHasEnded
<1>5. answered = {} /\ IdleRequest.done = {} /\ IdleRequest.op = "none"
  BY DEF LifecycleInit, IdleRequest
<1>6. WorkKnown /\ CreatesApart /\ AnsweredListed /\ AnsweredGone
  BY <1>1, <1>5 DEF WorkKnown, CreatesApart, AnsweredListed, AnsweredGone
<1> QED BY <1>3, <1>4, <1>6 DEF LInv

LEMMA LInvNext ==
  ASSUME LInv, [LifecycleNext]_lifecycleVars
  PROVE  LInv'
<1>1. ASSUME NEW r \in WebRequests, CreateStep(r)
      PROVE  LInv'
  BY <1>1, StepCreateOpen, StepCreateUpload, StepCreateInsert, StepCreateRegister, StepCreateUndo,
     StepCreateInvites DEF CreateStep
<1>2. ASSUME NEW r \in WebRequests, SaveStep(r)
      PROVE  LInv'
  BY <1>2, StepSaveRead, StepSaveSnapshot, StepSaveOpen, StepSaveCommit, StepSaveStatus,
     StepSaveBase, StepSaveRow DEF SaveStep
<1>3. ASSUME NEW r \in WebRequests, StatusStep(r)
      PROVE  LInv'
  BY <1>3, StepStatusRead, StepStatusCollab, StepStatusRow, StepStatusPurge, StepStatusRevoke DEF StatusStep
<1>4. ASSUME NEW r \in WebRequests, StateStep(r)
      PROVE  LInv'
  BY <1>4, StepListRead, StepDeleteRow, StepEnsureRead, StepWriteRead, StepListInvites,
     StepDeleteClose, StepEnsureRegister, StepWriteUpsert DEF StateStep
<1>5. ASSUME NEW r \in WebRequests, PurgeStep(r)
      PROVE  LInv'
  BY <1>5, StepPurgeList, StepPurgeRows, StepPurgeCollab DEF PurgeStep
<1>6. ASSUME NEW r \in WebRequests, BoardStep(r)
      PROVE  LInv'
  BY <1>6, StepRenameRead, StepDeleteBoardRead, StepRenameWrite, StepDeleteBoardClose,
     StepDeleteBoardRow, StepDeleteBoardDrop DEF BoardStep
<1>9. ASSUME NEW r \in WebRequests, CollabStep(r)
      PROVE  LInv'
  BY <1>9, StepMoveEnds DEF CollabStep
<1>7. ASSUME NEW s \in Sessions, Expire(s) \/ Elapse(s) \/ \E c \in Contents : Edit(s, c)
      PROVE  LInv'
  BY <1>7, StepExpire, StepElapse, StepEdit
<1>8. CASE UNCHANGED lifecycleVars
  BY <1>8, RowsSame, CollabSame, NoRequest DEF lifecycleVars, webVars, collabVars
<1> QED BY <1>1, <1>2, <1>3, <1>4, <1>5, <1>6, <1>7, <1>8, <1>9, StepAbort, StepChangeDrawing DEF LifecycleNext

\* The invariant holds in every state, for any number of sessions and requests.
THEOREM LifecycleHolds == LifecycleSpec => []LInv
<1>1. LifecycleInit => LInv
  BY LInvInit
<1>2. LInv /\ [LifecycleNext]_lifecycleVars => LInv'
  BY LInvNext
<1> QED BY <1>1, <1>2, PTL DEF LifecycleSpec

\* A session that the web application shows as ended has ended on the collab server,
\* or the purge has removed it there, whatever requests and changes of status cross
\* and wherever they are cut short: updateSessionStatus runs after the collab server's
\* answer, and by the time of the purge no request is left that would register the
\* session again.  Only a change that the collab server admitted before it closed the
\* session opens it there again (overtaken), until it is closed once more.
THEOREM EndedSessionsHaveEnded == LifecycleSpec => []EndedIsEndedEverywhere
<1>1. LInv => EndedIsEndedEverywhere
  BY DEF LInv, ClosedHasEnded, EndedThere, EndedIsEndedEverywhere
<1> QED BY <1>1, LifecycleHolds, PTL

\* A session that was announced to its owner is known to the collab server for as
\* long as it is listed, until the purge is at it: the invitations are made after the
\* registration, and a row leaves only after its close or in the undo of a creation
\* that nobody was told of.
THEOREM AnnouncedSessionsAreRegistered == LifecycleSpec => []AnnouncedIsRegistered
<1>1. LInv => AnnouncedIsRegistered
  BY DEF LInv, AnsweredListed, Listed, AnnouncedIsRegistered
<1> QED BY <1>1, LifecycleHolds, PTL

\* A session that was announced and is gone from the web application is closed on
\* the collab server, or a deletion is about to close it, unless its close was not
\* carried out, its row had been opened again, or the collab server wrote over the
\* close a change of status that it had admitted before.
THEOREM GoneSessionsAreClosed == LifecycleSpec => []GoneIsClosed
<1>1. LInv => GoneIsClosed
  <2> SUFFICES ASSUME LInv, NEW s \in answered \ (DOMAIN rows \cup unclosed \cup reopened \cup overtaken)
               PROVE  Works(s) \/ collab[s] \in {"closed", "absent"}
    BY DEF GoneIsClosed
  <2>1. Out(s) \/ ToClose(s)
    BY DEF LInv, AnsweredGone
  <2>2. ToClose(s) => Works(s)
    BY DEF ToClose, Works
  <2> QED BY <2>1, <2>2 DEF Out
<1> QED BY <1>1, LifecycleHolds, PTL
=============================================================================
