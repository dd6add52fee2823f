-------------------------- MODULE SessionLifecycle --------------------------
(***************************************************************************)
(* The life of collaboration sessions as the web application drives it:    *)
(* its own row of a session, the collab server's row, the drawing storage, *)
(* and the API routes that change them.  A route is a request that stands  *)
(* at one of its awaits; a database transaction, or a call of the collab   *)
(* server and its answer, is one step, except for a change of status, which *)
(* the collab server admits in one step and writes in another.  The three  *)
(* share no transaction: a request may end at any await (Abort: a crash, a *)
(* database error, a call that is not answered), and a call that is        *)
(* reported as unreachable may have taken effect, or take effect later.    *)
(***************************************************************************)
EXTENDS DrawingStorage

CONSTANTS
  Sessions,       \* session ids, each used once
  WebRequests,    \* requests the web process serves at a time
  NoSha,          \* a legacy row without base_sha
  NoDoc           \* a collab session without a snapshot

ASSUME LifecycleAssumption == Somebody \notin Sessions

VARIABLES
  rows,       \* app_sessions, by id
  invited,    \* sessions with invitation links that are neither revoked nor expired
  collab,     \* status of the collab_sessions row
  doc,        \* the board of the collab session
  moving,     \* changes of status that the collab server has admitted and not written
  overtaken,  \* history: sessions that such a change opened again on the collab server
  request,    \* the requests
  born,       \* session ids that have been given out
  answered,   \* history: sessions whose creation was answered with success
  torn,       \* history: sessions with a save whose record of the commit is missing or late
  reopened,   \* history: sessions whose row has left "closed"
  unclosed    \* history: sessions with a close that the collab server has not carried out

webVars == <<rows, invited, request, born, answered, torn, reopened, unclosed>>
collabVars == <<collab, doc, moving, overtaken>>
lifecycleVars == <<webVars, collabVars, storageVars>>

Kinds == {"instance", "github", "adhoc"}
Statuses == {"active", "saved", "closed"}

\* sha, content and saw: what a request read of the drawing, and of which board.
IdleRequest ==
  [op |-> "none", at |-> "none", s |-> {}, kind |-> "adhoc", path |-> <<>>, sha |-> NoSha,
   content |-> NoDoc, saw |-> <<>>, status |-> "active", done |-> {}]

LifecycleTypes ==
  /\ StorageTypes
  /\ DOMAIN rows \subseteq born /\ born \subseteq Sessions /\ invited \subseteq DOMAIN rows
  /\ \A s \in DOMAIN rows :
       /\ rows[s].kind \in Kinds /\ rows[s].status \in Statuses
       /\ rows[s].expiry \in {"none", "ahead", "past"} /\ rows[s].purge \in {"unset", "set", "due"}
  /\ collab \in [Sessions -> Statuses \cup {"absent"}]
  /\ doc \in [Sessions -> Contents \cup {NoDoc}]
  /\ moving \subseteq WebRequests \X Sessions \X Statuses /\ overtaken \subseteq Sessions
  /\ answered \cup torn \cup reopened \cup unclosed \subseteq born

LifecycleInit ==
  /\ StorageInit
  /\ rows = <<>> /\ invited = {} /\ born = {}
  /\ collab = [s \in Sessions |-> "absent"] /\ doc = [s \in Sessions |-> NoDoc]
  /\ moving = {} /\ overtaken = {}
  /\ request = [r \in WebRequests |-> IdleRequest]
  /\ answered = {} /\ torn = {} /\ reopened = {} /\ unclosed = {}

-----------------------------------------------------------------------------
(* Requests, rows and calls.                                               *)

\* A request and the handling of its calls are one of those served at a time.
Free(r) == request[r] = IdleRequest /\ \A m \in moving : m[1] # r
Stands(r, op, at) == request[r].op = op /\ request[r].at = at
Of(r) == CHOOSE s \in request[r].s : TRUE

\* A page issues a request, without waiting for those of other pages.
Begin(r, fields) == Free(r) /\ request' = [request EXCEPT ![r] = fields]
Continue(r, at) == request' = [request EXCEPT ![r].at = at]
Return(r) == request' = [request EXCEPT ![r] = IdleRequest]

On(op, at, s) == [IdleRequest EXCEPT !.op = op, !.at = at, !.s = {s},
                                     !.kind = rows[s].kind, !.path = rows[s].path]

\* updateSessionStatus: an unconditional write.
SetStatus(s, status) ==
  /\ rows' = IF s \in DOMAIN rows THEN [rows EXCEPT ![s].status = status] ELSE rows
  /\ reopened' = IF s \in DOMAIN rows /\ rows[s].status = "closed" /\ status # "closed"
                   THEN reopened \cup {s} ELSE reopened

\* isSessionClosed: ended, or past its expiry.
Ended(s) == rows[s].status = "closed" \/ rows[s].expiry = "past"

InsertRow(s, row) == rows' = [x \in DOMAIN rows \cup {s} |-> IF x = s THEN row ELSE rows[x]]
\* Invitations go with the row (ON DELETE CASCADE).
DeleteRows(gone) ==
  /\ rows' = [x \in DOMAIN rows \ gone |-> rows[x]]
  /\ invited' = invited \ gone

\* The collab server refuses to leave "closed", of the row that it reads first.
Admits(s, status) == collab[s] = "closed" => status = "closed"
Asked(r, s, status) ==
  /\ Admits(s, status) /\ moving' = moving \cup {<<r, s, status>>}
  /\ UNCHANGED <<collab, doc, overtaken>>

\* It then writes what it has admitted, whatever the row says by now; the write may
\* fail, and it finds no row of an absent session.
Awaits(r, s, status) ==
  Stands(r, "status", "answer") /\ request[r].s = {s} /\ request[r].status = status
MoveEnds(r, s, status) ==
  /\ <<r, s, status>> \in moving /\ moving' = moving \ {<<r, s, status>>}
  /\ \/ /\ collab[s] # "absent" /\ collab' = [collab EXCEPT ![s] = status]
        /\ request' = IF Awaits(r, s, status) THEN [request EXCEPT ![r].at = "row"] ELSE request
        /\ overtaken' = IF status = "closed" THEN overtaken \ {s}
                        ELSE IF collab[s] = "closed" THEN overtaken \cup {s} ELSE overtaken
        /\ unclosed' = IF status = "closed" THEN unclosed \ {s} ELSE unclosed
     \/ /\ request' = IF Awaits(r, s, status) THEN [request EXCEPT ![r] = IdleRequest] ELSE request
        /\ UNCHANGED <<collab, overtaken, unclosed>>
  /\ UNCHANGED <<doc, rows, invited, born, answered, torn, reopened, storageVars>>

\* register keeps the row and the snapshot that exist; it refuses a closed session.
Registers(s) == collab[s] # "closed"
Registered(s, content) ==
  /\ collab' = [collab EXCEPT ![s] = IF @ = "absent" THEN "active" ELSE @]
  /\ doc' = [doc EXCEPT ![s] = IF @ = NoDoc THEN content ELSE @]
  /\ UNCHANGED <<moving, overtaken>>

\* History: which board a drawing was when it was opened or saved.
BoardOf(kind, path) == IF kind = "github" THEN <<>> ELSE <<BoardAt(path)>>

Tears(r) == request[r].op = "save" /\ request[r].at \in {"status", "base"}
Abandons(r) == IF request[r].op \in {"delete", "deleteBoard"} THEN request[r].s ELSE {}

\* The request ends at an await: the process crashed or a query failed.
Abort(r) ==
  /\ request[r] # IdleRequest /\ Return(r)
  /\ torn' = IF Tears(r) THEN torn \cup request[r].s ELSE torn
  /\ unclosed' = unclosed \cup Abandons(r)
  /\ UNCHANGED <<rows, invited, born, answered, reopened, collabVars, storageVars>>

-----------------------------------------------------------------------------
(* POST sessions and adhoc-sessions.                                       *)

CreateOpen(r, kind, path) ==
  /\ Exists(kind, path)
  /\ Begin(r, [IdleRequest EXCEPT !.op = "create", !.at = "insert", !.kind = kind,
       !.path = path, !.sha = Sha(kind, path), !.content = Stored(kind, path).content,
       !.saw = BoardOf(kind, path)])
  /\ UNCHANGED <<rows, invited, born, answered, torn, reopened, unclosed, collabVars, storageVars>>

\* An uploaded board; its session expires.
CreateUpload(r, content) ==
  /\ Begin(r, [IdleRequest EXCEPT !.op = "create", !.at = "insert", !.content = content])
  /\ UNCHANGED <<rows, invited, born, answered, torn, reopened, unclosed, collabVars, storageVars>>

\* base and saw are those of the drawing that was opened; a row of an old version
\* has no base.
CreateInsert(r, s) ==
  LET q == request[r]
  IN  /\ Stands(r, "create", "insert") /\ s \notin born
      /\ \E base \in {q.sha, NoSha} :
           InsertRow(s, [kind |-> q.kind, path |-> q.path, status |-> "active", base |-> base,
                         expiry |-> IF q.kind = "adhoc" THEN "ahead" ELSE "none",
                         purge |-> "unset", saw |-> <<q.saw, q.content>>])
      /\ born' = born \cup {s}
      /\ request' = [request EXCEPT ![r].at = "register", ![r].s = {s}]
      /\ UNCHANGED <<invited, answered, torn, reopened, unclosed, collabVars, storageVars>>

\* Mutant: a registration that failed is not undone.
RegisterUnchecked(r) ==
  /\ Stands(r, "create", "register")
  /\ \/ Registers(Of(r)) /\ Registered(Of(r), request[r].content)
     \/ UNCHANGED collabVars
  /\ Continue(r, "invites")
  /\ UNCHANGED <<rows, invited, born, answered, torn, reopened, unclosed, storageVars>>

CreateRegister(r) ==
  /\ Stands(r, "create", "register")
  /\ \/ Registers(Of(r)) /\ Registered(Of(r), request[r].content)
        /\ \E at \in {"invites", "undo"} : Continue(r, at)
     \/ UNCHANGED collabVars /\ Continue(r, "undo")
  /\ UNCHANGED <<rows, invited, born, answered, torn, reopened, unclosed, storageVars>>

CreateUndo(r) ==
  /\ Stands(r, "create", "undo")
  /\ DeleteRows(request[r].s) /\ Return(r)
  /\ UNCHANGED <<born, answered, torn, reopened, unclosed, collabVars, storageVars>>

\* ensureSessionInvites; without the row the insert fails.
CreateInvites(r) ==
  LET s == Of(r)
  IN  /\ Stands(r, "create", "invites") /\ Return(r)
      /\ IF s \in DOMAIN rows
           THEN invited' = invited \cup {s} /\ answered' = answered \cup {s}
           ELSE UNCHANGED <<invited, answered>>
      /\ UNCHANGED <<rows, born, torn, reopened, unclosed, collabVars, storageVars>>

-----------------------------------------------------------------------------
(* POST save.                                                              *)

SaveRead(r, s) ==
  /\ s \in DOMAIN rows /\ rows[s].kind # "adhoc"
  /\ Begin(r, [On("save", "snapshot", s) EXCEPT !.sha = rows[s].base, !.saw = rows[s].saw])
  /\ UNCHANGED <<rows, invited, born, answered, torn, reopened, unclosed, collabVars, storageVars>>

SaveSnapshot(r) ==
  /\ Stands(r, "save", "snapshot")
  /\ IF doc[Of(r)] = NoDoc
       THEN Return(r)
       ELSE request' = [request EXCEPT
              ![r].at = IF request[r].sha = NoSha THEN "open" ELSE "commit",
              ![r].content = doc[Of(r)]]
  /\ UNCHANGED <<rows, invited, born, answered, torn, reopened, unclosed, collabVars, storageVars>>

\* Only a legacy session takes the sha of the moment.
SaveOpen(r) ==
  LET q == request[r]
  IN  /\ Stands(r, "save", "open")
      /\ IF Exists(q.kind, q.path)
           THEN request' = [request EXCEPT ![r].at = "commit", ![r].sha = Sha(q.kind, q.path),
                  ![r].saw = <<BoardOf(q.kind, q.path), Stored(q.kind, q.path).content>>]
           ELSE Return(r)
      /\ UNCHANGED <<rows, invited, born, answered, torn, reopened, unclosed, collabVars, storageVars>>

\* saveDrawing: a conflict ends the request; so does an answer that is lost.
SaveCommit(r) ==
  LET q == request[r]
  IN  /\ Stands(r, "save", "commit")
      /\ IF Accepts(q.kind, q.path, q.sha)
           THEN /\ Write(q.kind, q.path, q.content, Of(r))
                /\ \/ /\ request' = [request EXCEPT ![r].at = "status",
                           ![r].sha = ShaAfter(q.kind, q.path, q.content),
                           ![r].saw = <<BoardOf(q.kind, q.path), q.content>>]
                      /\ torn' = IF \E other \in WebRequests : Tears(other) /\ q.s = request[other].s
                                   THEN torn \cup q.s ELSE torn
                   \/ Return(r) /\ torn' = torn \cup q.s
           ELSE Return(r) /\ UNCHANGED <<boards, versions, file, torn>>
      /\ UNCHANGED <<rows, invited, born, answered, reopened, unclosed, collabVars, spent>>

\* The answer of updateCollabSessionStatus is not looked at, nor that it is missing.
SaveStatus(r) ==
  /\ Stands(r, "save", "status") /\ Continue(r, "base")
  /\ Asked(r, Of(r), "saved") \/ UNCHANGED collabVars
  /\ UNCHANGED <<rows, invited, born, answered, torn, reopened, unclosed, storageVars>>

\* Mutant: the base stays the one recorded at the start.
SaveKeepsBase(r) ==
  /\ Stands(r, "save", "base") /\ Continue(r, "row")
  /\ UNCHANGED <<rows, invited, born, answered, torn, reopened, unclosed, collabVars, storageVars>>

\* upsertSessionSnapshot fails without the row; updateSessionBaseSha.
SaveBase(r) ==
  LET s == Of(r)
  IN  /\ Stands(r, "save", "base")
      /\ IF s \in DOMAIN rows
           THEN /\ rows' = [rows EXCEPT ![s].base = request[r].sha, ![s].saw = request[r].saw]
                /\ Continue(r, "row")
           ELSE UNCHANGED rows /\ Return(r)
      /\ UNCHANGED <<invited, born, answered, torn, reopened, unclosed, collabVars, storageVars>>

\* updateSessionStatus writes "saved" over any status.
SaveRow(r) ==
  /\ Stands(r, "save", "row") /\ Return(r) /\ SetStatus(Of(r), "saved")
  /\ UNCHANGED <<invited, born, answered, torn, unclosed, collabVars, storageVars>>

-----------------------------------------------------------------------------
(* PATCH status.                                                           *)

StatusRead(r, s, status) ==
  /\ s \in DOMAIN rows
  /\ Begin(r, [On("status", "collab", s) EXCEPT !.status = status])
  /\ UNCHANGED <<rows, invited, born, answered, torn, reopened, unclosed, collabVars, storageVars>>

\* Mutant: a collab server that cannot be reached is ignored.
StatusAnyway(r) ==
  /\ Stands(r, "status", "collab") /\ Continue(r, "row")
  /\ Asked(r, Of(r), request[r].status) \/ UNCHANGED collabVars
  /\ UNCHANGED <<rows, invited, born, answered, torn, reopened, unclosed, storageVars>>

\* It goes on when the collab server answers that it has written (MoveEnds).
StatusCollab(r) ==
  /\ Stands(r, "status", "collab")
  /\ \/ Asked(r, Of(r), request[r].status) /\ Continue(r, "answer")
     \/ UNCHANGED collabVars /\ Return(r)
  /\ UNCHANGED <<rows, invited, born, answered, torn, reopened, unclosed, storageVars>>

\* The row, then, of an ad-hoc session that ends, its purge date.
StatusRow(r) ==
  /\ Stands(r, "status", "row") /\ SetStatus(Of(r), request[r].status)
  /\ IF request[r].status # "closed" THEN Return(r)
       ELSE Continue(r, IF request[r].kind = "adhoc" THEN "purge" ELSE "revoke")
  /\ UNCHANGED <<invited, born, answered, torn, unclosed, collabVars, storageVars>>

StatusPurge(r) ==
  LET s == Of(r)
  IN  /\ Stands(r, "status", "purge") /\ Continue(r, "revoke")
      /\ rows' = IF s \in DOMAIN rows THEN [rows EXCEPT ![s].purge = "set"] ELSE rows
      /\ UNCHANGED <<invited, born, answered, torn, reopened, unclosed, collabVars, storageVars>>

StatusRevoke(r) ==
  /\ Stands(r, "status", "revoke") /\ Return(r)
  /\ invited' = invited \ request[r].s
  /\ UNCHANGED <<rows, born, answered, torn, reopened, unclosed, collabVars, storageVars>>

-----------------------------------------------------------------------------
(* GET sessions, DELETE session, GET and PATCH state.                      *)

\* The list provides the sessions it read as open with invitations.
ListRead(r, s) ==
  /\ s \in DOMAIN rows /\ ~Ended(s) /\ s \notin invited
  /\ Begin(r, On("list", "invites", s))
  /\ UNCHANGED <<rows, invited, born, answered, torn, reopened, unclosed, collabVars, storageVars>>

ListInvites(r) ==
  /\ Stands(r, "list", "invites") /\ Return(r)
  /\ invited' = invited \cup (request[r].s \cap DOMAIN rows)
  /\ UNCHANGED <<rows, born, answered, torn, reopened, unclosed, collabVars, storageVars>>

DeleteRow(r, s) ==
  /\ s \in DOMAIN rows
  /\ Begin(r, On("delete", "close", s)) /\ DeleteRows({s})
  /\ UNCHANGED <<born, answered, torn, reopened, unclosed, collabVars, storageVars>>

\* Mutant: the collab session is left as it is.
DeleteOnlyRow(r) ==
  /\ Stands(r, "delete", "close") /\ Return(r)
  /\ UNCHANGED <<rows, invited, born, answered, torn, reopened, unclosed, collabVars, storageVars>>

\* closeCollabSession of a deleted session: its failure is only reported.
DeleteClose(r) ==
  /\ Stands(r, "delete", "close") /\ Return(r)
  /\ unclosed' = unclosed \cup request[r].s
  /\ Asked(r, Of(r), "closed") \/ UNCHANGED collabVars
  /\ UNCHANGED <<rows, invited, born, answered, torn, reopened, storageVars>>

\* ensureSessionSnapshot: the owner of a repository session without a snapshot
\* opens the drawing and registers the session again.
EnsureRead(r, s) ==
  /\ s \in DOMAIN rows /\ rows[s].kind # "adhoc" /\ doc[s] = NoDoc
  /\ Exists(rows[s].kind, rows[s].path)
  /\ Begin(r, [On("ensure", "register", s) EXCEPT
       !.content = Stored(rows[s].kind, rows[s].path).content])
  /\ UNCHANGED <<rows, invited, born, answered, torn, reopened, unclosed, collabVars, storageVars>>

EnsureRegister(r) ==
  /\ Stands(r, "ensure", "register") /\ Return(r)
  /\ \/ Registers(Of(r)) /\ Registered(Of(r), request[r].content)
     \/ UNCHANGED collabVars
  /\ UNCHANGED <<rows, invited, born, answered, torn, reopened, unclosed, storageVars>>

\* PATCH state, authorised while the session is open.
WriteRead(r, s, content) ==
  /\ s \in DOMAIN rows /\ ~Ended(s)
  /\ Begin(r, [On("write", "upsert", s) EXCEPT !.content = content])
  /\ UNCHANGED <<rows, invited, born, answered, torn, reopened, unclosed, collabVars, storageVars>>

WriteUpsert(r) ==
  LET s == Of(r)
  IN  /\ Stands(r, "write", "upsert") /\ Return(r)
      /\ \/ /\ collab[s] # "closed"
            /\ collab' = [collab EXCEPT ![s] = IF @ = "absent" THEN "active" ELSE @]
            /\ doc' = [doc EXCEPT ![s] = request[r].content] /\ UNCHANGED <<moving, overtaken>>
         \/ UNCHANGED collabVars
      /\ UNCHANGED <<rows, invited, born, answered, torn, reopened, unclosed, storageVars>>

\* Somebody in the room edits the board.
Edit(s, content) ==
  /\ collab[s] \in {"active", "saved"} /\ doc[s] # NoDoc /\ doc' = [doc EXCEPT ![s] = content]
  /\ UNCHANGED <<webVars, collab, moving, overtaken, storageVars>>

-----------------------------------------------------------------------------
(* The purge of ad-hoc sessions.                                           *)

Expire(s) ==
  /\ s \in DOMAIN rows /\ rows[s].expiry = "ahead"
  /\ rows' = [rows EXCEPT ![s].expiry = "past"]
  /\ UNCHANGED <<invited, request, born, answered, torn, reopened, unclosed, collabVars, storageVars>>

\* The retention of a session is over.  No request or call lasts that long.
Elapse(s) ==
  /\ s \in DOMAIN rows /\ rows[s].purge = "set"
  /\ (\A r \in WebRequests : s \notin request[r].s) /\ \A m \in moving : m[2] # s
  /\ rows' = [rows EXCEPT ![s].purge = "due"]
  /\ UNCHANGED <<invited, request, born, answered, torn, reopened, unclosed, collabVars, storageVars>>

\* markExpiredAdhocSessionsForPurge and listPurgeableAdhocSessions.
PurgeList(r) ==
  LET due == {s \in DOMAIN rows : rows[s].purge = "due"}
  IN  /\ rows' = [s \in DOMAIN rows |->
           IF rows[s].purge = "unset" /\ rows[s].expiry = "past"
             THEN [rows[s] EXCEPT !.purge = "set"] ELSE rows[s]]
      /\ IF due = {} THEN Free(r) /\ rows' # rows /\ UNCHANGED request
                     ELSE Begin(r, [IdleRequest EXCEPT !.op = "purge", !.at = "collab", !.s = due])
      /\ UNCHANGED <<invited, born, answered, torn, reopened, unclosed, collabVars, storageVars>>

\* One session after another; a failure is left to the next run.
PurgeCollab(r, s) ==
  /\ Stands(r, "purge", "collab") /\ s \in request[r].s
  /\ \/ /\ collab' = [collab EXCEPT ![s] = "absent"] /\ doc' = [doc EXCEPT ![s] = NoDoc]
        /\ UNCHANGED <<moving, overtaken>>
        /\ \E done \in {{}, {s}} :
             request' = [request EXCEPT ![r].s = @ \ {s}, ![r].done = @ \cup done]
     \/ UNCHANGED collabVars /\ request' = [request EXCEPT ![r].s = @ \ {s}]
  /\ UNCHANGED <<rows, invited, born, answered, torn, reopened, unclosed, storageVars>>

PurgeRows(r) ==
  /\ Stands(r, "purge", "collab") /\ request[r].s = {}
  /\ DeleteRows(request[r].done) /\ Return(r)
  /\ UNCHANGED <<born, answered, torn, reopened, unclosed, collabVars, storageVars>>

-----------------------------------------------------------------------------
(* Workspace boards: POST, PATCH, DELETE and restore.                      *)

SessionsAt(b) == {s \in DOMAIN rows : rows[s].kind = "instance" /\ rows[s].path = boards[b].path}

\* The board and the sessions of its path, then the rename.
RenameRead(r, b) ==
  /\ b \in DOMAIN boards /\ SessionsAt(b) = {}
  /\ Begin(r, [IdleRequest EXCEPT !.op = "rename", !.at = "rename", !.saw = <<b>>])
  /\ UNCHANGED <<rows, invited, born, answered, torn, reopened, unclosed, collabVars, storageVars>>

RenameWrite(r, title) ==
  LET b == request[r].saw[1]
  IN  /\ Stands(r, "rename", "rename") /\ Return(r)
      /\ IF b \in DOMAIN boards THEN RenameTo(b, title) ELSE UNCHANGED boards
      /\ UNCHANGED <<rows, invited, born, answered, torn, reopened, unclosed, collabVars,
                     versions, file, spent>>

DeleteBoardRead(r, b) ==
  /\ b \in DOMAIN boards
  /\ Begin(r, [IdleRequest EXCEPT !.op = "deleteBoard", !.at = "sessions",
                                  !.s = SessionsAt(b), !.saw = <<b>>])
  /\ UNCHANGED <<rows, invited, born, answered, torn, reopened, unclosed, collabVars, storageVars>>

\* Each session is closed, reached or not, and then its row deleted.
DeleteBoardClose(r, s) ==
  /\ Stands(r, "deleteBoard", "sessions") /\ s \in request[r].s
  /\ request' = [request EXCEPT ![r].at = "row", ![r].done = {s}]
  /\ unclosed' = unclosed \cup {s}
  /\ Asked(r, s, "closed") \/ UNCHANGED collabVars
  /\ UNCHANGED <<rows, invited, born, answered, torn, reopened, storageVars>>

DeleteBoardRow(r) ==
  /\ Stands(r, "deleteBoard", "row")
  /\ DeleteRows(request[r].done)
  /\ request' = [request EXCEPT ![r].at = "sessions", ![r].s = @ \ request[r].done, ![r].done = {}]
  /\ UNCHANGED <<born, answered, torn, reopened, unclosed, collabVars, storageVars>>

DeleteBoardDrop(r) ==
  /\ Stands(r, "deleteBoard", "sessions") /\ request[r].s = {} /\ Return(r)
  /\ DropBoard(request[r].saw[1])
  /\ UNCHANGED <<rows, invited, born, answered, torn, reopened, unclosed, collabVars, file, spent>>

\* What one transaction does: create, restore, the editor's save, and a commit
\* somebody pushes to GitHub.
ChangeDrawing ==
  /\ \/ \E b \in Boards, t \in Titles, c \in Contents : CreateBoard(b, t, c)
     \/ \E b \in Boards, n \in Revisions : RestoreVersion(b, n)
     \/ \E k \in {"instance", "github"} : \E p \in PathsOf(k), c \in Contents : SaveDrawing(k, p, c)
  /\ UNCHANGED <<webVars, collabVars>>

-----------------------------------------------------------------------------

CreateStep(r) ==
  \/ \E k \in {"instance", "github"} : \E p \in PathsOf(k) : CreateOpen(r, k, p)
  \/ \E c \in Contents : CreateUpload(r, c)
  \/ \E s \in Sessions : CreateInsert(r, s)
  \/ CreateRegister(r) \/ CreateUndo(r) \/ CreateInvites(r)

SaveStep(r) ==
  \/ \E s \in Sessions : SaveRead(r, s)
  \/ SaveSnapshot(r) \/ SaveOpen(r) \/ SaveCommit(r)
  \/ SaveStatus(r) \/ SaveBase(r) \/ SaveRow(r)

StatusStep(r) ==
  \/ \E s \in Sessions, status \in Statuses : StatusRead(r, s, status)
  \/ StatusCollab(r) \/ StatusRow(r) \/ StatusPurge(r) \/ StatusRevoke(r)

StateStep(r) ==
  \/ \E s \in Sessions : ListRead(r, s) \/ DeleteRow(r, s) \/ EnsureRead(r, s)
  \/ \E s \in Sessions, c \in Contents : WriteRead(r, s, c)
  \/ ListInvites(r) \/ DeleteClose(r) \/ EnsureRegister(r) \/ WriteUpsert(r)

PurgeStep(r) == PurgeList(r) \/ PurgeRows(r) \/ \E s \in Sessions : PurgeCollab(r, s)

BoardStep(r) ==
  \/ \E b \in Boards : RenameRead(r, b) \/ DeleteBoardRead(r, b)
  \/ \E t \in Titles : RenameWrite(r, t)
  \/ \E s \in Sessions : DeleteBoardClose(r, s)
  \/ DeleteBoardRow(r) \/ DeleteBoardDrop(r)

CollabStep(r) == \E s \in Sessions, status \in Statuses : MoveEnds(r, s, status)

LifecycleNext ==
  \/ \E r \in WebRequests :
       \/ CreateStep(r) \/ SaveStep(r) \/ StatusStep(r)
       \/ StateStep(r) \/ PurgeStep(r) \/ BoardStep(r) \/ CollabStep(r) \/ Abort(r)
  \/ \E s \in Sessions : Expire(s) \/ Elapse(s) \/ \E c \in Contents : Edit(s, c)
  \/ ChangeDrawing

LifecycleSpec == LifecycleInit /\ [][LifecycleNext]_lifecycleVars

-----------------------------------------------------------------------------
(* Properties.                                                             *)

Works(s) == \E r \in WebRequests : s \in request[r].s \cup request[r].done

\* A session the web application shows as ended is ended on the collab server too:
\* nobody goes on working in it, whatever requests cross and however often the
\* collab server cannot be reached.  Only the purge removes it there.  Left out are a
\* row that was opened again, and a session that the collab server opened again,
\* until it is closed there: a change of status that it had admitted before the close.
EndedIsEndedEverywhere ==
  \A s \in DOMAIN rows \ (reopened \cup overtaken) : rows[s].status = "closed" =>
    collab[s] = "closed" \/ (collab[s] = "absent" /\ rows[s].kind = "adhoc")

\* Optimistic concurrency: what a session's save replaces is what the session had
\* opened or saved itself, if the board at its path is still that one.
SaveReplacesWhatItSaw ==
  [][\A r \in WebRequests :
       LET q == request[r]
       IN  Stands(r, "save", "commit") /\ <<boards, file>>' # <<boards, file>>
             /\ request'[r] # q
             /\ q.saw[1] = BoardOf(q.kind, q.path)
           => Stored(q.kind, q.path).content = q.saw[2]]_lifecycleVars

\* A session is not in conflict with its own save, unless that save was cut short
\* between the commit and the record of it, another save of the session crossed it, or
\* another board has taken its path since.
OwnSaveIsNoConflict ==
  \A s \in DOMAIN rows \ torn :
    LET row == rows[s]
    IN  (/\ row.kind # "adhoc" /\ Exists(row.kind, row.path)
         /\ Stored(row.kind, row.path).by = s /\ row.saw[1] = BoardOf(row.kind, row.path)
         /\ \A r \in WebRequests : ~(Tears(r) /\ s \in request[r].s))
        => row.base = Sha(row.kind, row.path)

\* A session that was announced to its owner is known to the collab server for as
\* long as it is listed, until its purge.
AnnouncedIsRegistered ==
  \A s \in answered \cap DOMAIN rows : collab[s] = "absent" => rows[s].kind = "adhoc" /\ rows[s].purge # "unset"

\* A session that is gone from the web application is closed on the collab server
\* when no request works on it, unless its close was not carried out (yet), its row
\* had been opened again, or the collab server opened it again after the close.
GoneIsClosed ==
  \A s \in answered \ (DOMAIN rows \cup unclosed \cup reopened \cup overtaken) :
    Works(s) \/ collab[s] \in {"closed", "absent"}
=============================================================================
