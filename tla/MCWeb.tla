------------------------------- MODULE MCWeb -------------------------------
(***************************************************************************)
(* The components of the web application on small instances.  They share   *)
(* no variable, so one of them runs at a time: scope says which, and which *)
(* of its operations cross each other.                                     *)
(***************************************************************************)
EXTENDS SessionLifecycle, SessionAccess, LocalAccounts, Repositories, BoardEditor,
        LiveCanvas, Facilitation, TLC

CONSTANTS b1, b2, t1, k1, k2, d1, r1, r2,   \* drawing storage and sessions
          o1, u1, g1, s1, s2, s3,         \* access
          a0, a1, l1, l2, l3, w1, w2, v1, v2,        \* accounts
          m1, m2, p1, p2,                  \* repositories
          A, B,                            \* editor
          pa, pb, ea, eb, va, vb           \* live canvas, facilitation

VARIABLE scope

webScope == <<lifecycleVars, accessVars, accountVars, reposVars, editorVars, liveVars, facilitationVars, scope>>

Holders == s1 :> u1 @@ s2 :> u1 @@ s3 :> g1

-----------------------------------------------------------------------------
(* Sessions and drawing storage.                                           *)

LifecycleScopes == {"sessions", "saves", "commits", "purge", "boards"}

OperationsOf ==
  [sessions |-> {"none", "create", "status", "delete", "list", "ensure", "write"},
   saves |-> {"none", "create", "save"}, commits |-> {"none", "create", "save"},
   purge |-> {"none", "create", "status", "purge", "write"},
   boards |-> {"none", "create", "rename", "deleteBoard"}]
KindsOf ==
  [sessions |-> {"github", "adhoc"}, saves |-> {"instance"}, commits |-> {"github"},
   purge |-> {"adhoc"}, boards |-> {"instance"}]

\* Those of the steps of LifecycleNext that a scope lets cross each other.
LifecycleStep ==
  \/ \E r \in WebRequests :
       \/ CreateStep(r) \/ CollabStep(r) \/ Abort(r)
       \/ scope \in {"saves", "commits"} /\ SaveStep(r)
       \/ scope \in {"sessions", "purge"} /\ (StatusStep(r) \/ StateStep(r) \/ PurgeStep(r))
       \/ scope = "boards" /\ BoardStep(r)
  \/ \E s \in Sessions : Expire(s) \/ Elapse(s) \/ \E c \in Contents : Edit(s, c)
  \/ scope \in {"saves", "commits", "boards"} /\ ChangeDrawing

InLifecycleScope ==
  /\ \A r \in WebRequests :
       /\ request'[r].op \in OperationsOf[scope]
       /\ request'[r].op = "create" => request'[r].kind \in KindsOf[scope]
  /\ scope = "saves" => /\ spent' \subseteq {b1} /\ file' = file
                        /\ \A b \in DOMAIN boards' : boards'[b].revision = 1 => boards'[b].content = k1
  /\ scope = "commits" => boards' = <<>>
  /\ scope \notin {"saves", "commits"} => doc' \in [Sessions -> {k1, NoDoc}] /\ file'.content = k1
  /\ scope = "purge" => \A r \in WebRequests : request'[r].status # "saved"
  /\ scope = "boards" => \A b \in DOMAIN boards' : boards'[b].content = k1 /\ boards'[b].revision = 1

-----------------------------------------------------------------------------
(* Access.                                                                 *)

AccessScopes == {"guests", "removal", "links"}

TasksOf(t) ==
  CASE scope = "guests"  -> IF t = r1 THEN {"token"} ELSE {"settings"}
    [] scope = "removal" -> IF t = r1 THEN {"token", "claim"} ELSE {"remove"}
    [] scope = "links"   -> IF t = r1 THEN {"token", "claim", "remove"} ELSE {}

MayAct == CASE scope = "guests" -> {g1} [] scope = "removal" -> {u1} [] scope = "links" -> {g1, o1}

InAccessScope ==
  /\ \A t \in AccessTasks :
       task'[t].op \in TasksOf(t) \cup {"none"} /\ task'[t].who \in MayAct \cup {Nobody}
  /\ \A p \in People \ MayAct : ticket'[p] = 0
  /\ scope # "links" => link' = link
  /\ IF scope = "guests" THEN ticket'[g1] >= ticket[g1] /\ Len(updates') <= 1 ELSE clock' = clock
  /\ scope = "links" => link'["collaborator"] = link["collaborator"]

\* A guest whose link was claimed, or nobody yet.
AccessStart ==
  IF scope = "guests"
    THEN /\ link = [r \in Roles |-> [n |-> 1, valid |-> TRUE]]
         /\ known = {g1} /\ removed = {} /\ allowGuests = TRUE
         /\ grant = [p \in People |-> <<"viewer", IF p = g1 THEN 1 ELSE 0>>]
         /\ ticket = [p \in People |-> 0] /\ task = [t \in AccessTasks |-> Idle]
         /\ socket = [s \in Sockets |-> Unconnected]
         /\ policy = NoPolicy /\ trail = NoPolicy /\ excluded = {} /\ updates = <<>>
         /\ clock = 1 /\ out = {} /\ slipped = {} /\ confirmed = TRUE /\ off = 0
    ELSE AccessInit /\ allowGuests

-----------------------------------------------------------------------------
(* Accounts.                                                               *)

AccountScopes == {"passwords", "github", "setup"}

VisitsOf(v) ==
  CASE scope = "passwords" -> IF v = v1 THEN {"login", "password"}
                              ELSE {"login", "reset", "disable", "activate", "logout"}
    [] scope = "github" -> IF v = v1 THEN {"start", "callback"} ELSE {"login", "logout"}
    [] scope = "setup" -> {"setup", "create", "login", "logout"}

InAccountScope ==
  /\ \A v \in Visits :
       /\ visit'[v].op \in VisitsOf(v) \cup {"none"}
       /\ scope = "github" => visit'[v].browser = NoVisit.browser
       /\ scope = "setup" /\ visit'[v].op # "setup" => visit'[v].browser = NoVisit.browser
       /\ scope = "passwords" /\ visit'[v].op \in {"login", "password"} =>
            visit'[v].who = a1 /\ visit'[v].browser = w2
  /\ scope # "passwords" => Cardinality(DOMAIN logins') < 3

\* Both accounts exist, and the owner is logged in; or an instance that is not set up.
AccountsStart ==
  LET member == [NewAccount("user") EXCEPT !.must = FALSE]
      both == [a \in {a0, a1} |-> IF a = a0 THEN NewAccount("instance_owner") ELSE member]
  IN  IF scope = "setup" THEN AccountsInit ELSE
      /\ accounts = both
      /\ logins = IF scope = "github" THEN <<>>
                  ELSE l1 :> [user |-> a0, password |-> 1, live |-> TRUE, late |-> FALSE]
      /\ cookie = [w \in Browsers |-> IF scope = "passwords" /\ w = w1
                     THEN [NoCookies EXCEPT !.login = l1] ELSE NoCookies]
      /\ visit = [v \in Visits |-> NoVisit]

-----------------------------------------------------------------------------
(* Repositories.                                                           *)

RepositoryScopes == {"two", "one", "scan"}

InRepositoryScope ==
  /\ \A r \in RepoRequests :
       scope # "scan" => step'[r].op # "scan"
  /\ scope = "two"  => /\ inUse' = {} /\ identity' = identity /\ \A id \in DOMAIN records' : id[1] # p2
                       /\ step'[r1].u # m2 /\ step'[r2].u # m1
  /\ scope = "one"  => inUse' \subseteq {<<p1, Default>>} /\ \A id \in DOMAIN records' : records'[id].by = m1
  /\ scope = "one"  => \A r \in RepoRequests : step'[r].u # m2
  /\ scope = "scan" => /\ inUse' = {} /\ identity' = identity /\ \A id \in DOMAIN records' : id[1] # p2
                       /\ step'[r1].op \in {"none", "scan"} /\ step'[r2].op \in {"none", "connect"}
  /\ scope # "scan" => \A id \in DOMAIN records' : records'[id].fresh

-----------------------------------------------------------------------------
(* The live canvas.                                                        *)

CanvasScopes == {"canvas", "checkpoints"}

\* Drawing while updates arrive, one page staying; or checkpoints and saves of
\* two pages that stay and draw one at a time, no change being held.
InCanvasScope ==
  CASE scope = "canvas" ->
         /\ push' = push /\ saving' = saving
         /\ at'[pa] # "closed" /\ (at[pa] = "joined" => at'[pa] = "joined") /\ client'[pb] # 1
    [] scope = "checkpoints" ->
         /\ held' = held /\ (at'[pb] # "closed" => at'[pa] # "closed")
         /\ \A p \in Pages :
              /\ hand'[p] # "late" /\ (quiet'[p] => hand'[p] = "up")
              /\ client'[p] \in {0, IF p = pa THEN 1 ELSE 2}
              /\ (at'[p] = "closed" => at[p] = "closed") /\ (at'[p] = "open" => at[p] # "joined")
              /\ hand'[p] = "down" => /\ at'[p] = "joined"
                                     /\ \A q \in Pages \ {p} : hand'[q] = "up" /\ ~quiet'[q]

-----------------------------------------------------------------------------
(* Facilitation.                                                           *)

FacilitationScopes == {"follow", "votes", "switches"}

IdentityOf == pa :> o1 @@ pb :> g1

ChangesOf ==
  CASE scope = "follow"   -> {"follow"}
    [] scope = "votes"    -> {"vote limit", "stop voting", "reset"}
    [] scope = "switches" -> {"locked", "timer"}

\* The host switches "follow me" and scrolls; or it stays in the room and runs
\* votes of a participant with one vote; or it locks and starts timers.
InFacilitationScope ==
  /\ \A p \in Participants : \A i \in DOMAIN outbox'[p] :
       LET m == outbox'[p][i]
       IN  CASE m.kind = "moderate" -> m.change.field \in ChangesOf
             [] m.kind = "viewport" -> scope = "follow"
             [] m.kind = "vote" -> scope = "votes" /\ p # Moderator
  /\ Len(outbox'[Moderator]) + Len(mail'[Moderator]) <= 2
  /\ scope # "follow" =>
       /\ place' = place /\ (stage[Moderator] = "in" => stage'[Moderator] = "in")
       /\ \A p \in Participants : Len(outbox'[p]) <= 1

-----------------------------------------------------------------------------

EditorScopes == {"editor"}

WebInit ==
  /\ scope \in LifecycleScopes \cup AccessScopes \cup AccountScopes \cup RepositoryScopes \cup EditorScopes
            \cup CanvasScopes \cup FacilitationScopes
  /\ LifecycleInit /\ file.content = k1
  /\ AccessStart /\ AccountsStart /\ RepositoriesInit
  /\ LiveInit /\ FacilitationInit /\ (scope # "follow" => place[pa] = va)
  /\ EditorInit /\ (scope # "editor" => active = A /\ remote = [r \in EditRepos |-> k1])

WebNext ==
  \/ /\ scope \in LifecycleScopes /\ LifecycleStep /\ InLifecycleScope
     /\ UNCHANGED <<accessVars, accountVars, reposVars, editorVars, liveVars, facilitationVars, scope>>
  \/ /\ scope \in AccessScopes /\ AccessNext /\ InAccessScope
     /\ UNCHANGED <<lifecycleVars, accountVars, reposVars, editorVars, liveVars, facilitationVars, scope>>
  \/ /\ scope \in AccountScopes /\ AccountsNext /\ InAccountScope
     /\ UNCHANGED <<lifecycleVars, accessVars, reposVars, editorVars, liveVars, facilitationVars, scope>>
  \/ /\ scope \in RepositoryScopes /\ RepositoriesNext /\ InRepositoryScope
     /\ UNCHANGED <<lifecycleVars, accessVars, accountVars, editorVars, liveVars, facilitationVars, scope>>
  \/ /\ scope \in EditorScopes /\ EditorNext
     /\ UNCHANGED <<lifecycleVars, accessVars, accountVars, reposVars, liveVars, facilitationVars, scope>>
  \/ /\ scope \in CanvasScopes /\ LiveNext /\ InCanvasScope
     /\ UNCHANGED <<lifecycleVars, accessVars, accountVars, reposVars, editorVars, facilitationVars, scope>>
  \/ /\ scope \in FacilitationScopes /\ FacilitationNext /\ InFacilitationScope
     /\ UNCHANGED <<lifecycleVars, accessVars, accountVars, reposVars, editorVars, liveVars, scope>>

\* The editor without its history "again", which no property of this run reads.
EditorView ==
  <<remote, active, shown, listed, state, canvas, reported, switching, refresh, save,
    IF drawing = Absent THEN <<>> ELSE <<drawing.content>>,
    IF load = Absent THEN <<>> ELSE <<load.content>>>>

\* What a state differs by: the other components keep the one state they start with.
ScopeView ==
  <<scope,
    CASE scope \in LifecycleScopes    -> lifecycleVars
      [] scope \in AccessScopes       -> accessVars
      [] scope \in AccountScopes      -> accountVars
      [] scope \in RepositoryScopes   -> reposVars
      [] scope \in EditorScopes       -> EditorView
      [] scope \in CanvasScopes       -> liveVars
      [] scope \in FacilitationScopes -> facilitationVars>>

WebSpec == WebInit /\ [][WebNext]_webScope

\* Every variable of every component has a value it is meant to have.
WebTypes ==
  /\ scope \in LifecycleScopes => LifecycleTypes
  /\ scope \in AccessScopes => AccessTypes
  /\ scope \in AccountScopes => AccountTypes
  /\ scope \in RepositoryScopes => RepositoryTypes
  /\ scope \in EditorScopes => EditorTypes
  /\ scope \in CanvasScopes => LiveTypes
  /\ scope \in FacilitationScopes => FacilitationTypes
=============================================================================
