---------------------------- MODULE Repositories ----------------------------
(***************************************************************************)
(* The repositories each local user connects, and which of them is active. *)
(* A record belongs to the user who connected it; two users may connect    *)
(* the same GitHub repository, the second under a record id of its own.    *)
(* A transaction reads what is committed and waits for the rows another    *)
(* one has changed, so it is one step, except where a value it has read    *)
(* may be out of date when it writes.                                      *)
(***************************************************************************)
EXTENDS Naturals

CONSTANTS
  Members,        \* local users
  GitHubRepos,    \* repositories on GitHub both may write to
  RepoRequests,   \* requests the web process serves at a time
  MaxIdentities,  \* bound: GitHub identities a member has had
  Instance,       \* the instance workspace, as the repository of a record id
  Default         \* as the owner in a record id: github-<n> without a suffix

ASSUME RepositoriesAssumption ==
  MaxIdentities \in Nat /\ Instance \notin GitHubRepos /\ Default \notin Members

VARIABLES
  records,     \* app_repositories, by id: who connected it, whether its scan is up to date
  selections,  \* app_user_repositories, by user and record
  identity,    \* app_user_github_identities
  inUse,       \* records sessions of their user depend on
  step,        \* the requests
  crossed      \* history: members with two disconnections, or a first connection of the
               \* same repository by another member, under way at the same time

reposVars == <<records, selections, identity, inUse, step, crossed>>

\* selectRepositoryRecordId: github-<n>, github-<n>-<user>; and the instance workspace's.
RecordIds == (GitHubRepos \X (Members \cup {Default})) \cup ({Instance} \X Members)
Waiting == [op |-> "none", at |-> "none", u |-> Default, id |-> <<Instance, Default>>, github |-> 0,
            was |-> FALSE, next |-> {}]

RepositoryTypes ==
  /\ DOMAIN records \subseteq RecordIds
  /\ DOMAIN selections \subseteq Members \X DOMAIN records
  /\ \A id \in DOMAIN records : records[id].by \in Members /\ records[id].fresh \in BOOLEAN
  /\ \A x \in DOMAIN selections : selections[x].active \in BOOLEAN
  /\ inUse \subseteq DOMAIN records /\ crossed \subseteq Members

RepositoriesInit ==
  /\ records = <<>> /\ selections = <<>> /\ inUse = {} /\ crossed = {}
  /\ identity = [u \in Members |-> 1]
  /\ step = [r \in RepoRequests |-> Waiting]

-----------------------------------------------------------------------------

Doing(r, op, at) == step[r].op = op /\ step[r].at = at
Take(r, fields) == step[r] = Waiting /\ step' = [step EXCEPT ![r] = fields]
Done(r) == step' = [step EXCEPT ![r] = Waiting]

SelectionsOf(u) == {x \in DOMAIN selections : x[1] = u}
Owned(u, id) == id \in DOMAIN records /\ records[id].by = u
With(f, x, value) == [y \in DOMAIN f \cup {x} |-> IF y = x THEN value ELSE f[y]]

\* Rows of the user another transaction has changed and not yet committed.
Locked(u) == \E r \in RepoRequests : step[r].u = u /\ step[r].op = "disconnect" /\ step[r].at = "promote"

\* getActiveRepository: selected, and connected by the user.
ActiveRepository(u) == {id \in DOMAIN records :
  <<u, id>> \in DOMAIN selections /\ selections[<<u, id>>].active /\ records[id].by = u}

\* The only active selection of a user.
Activate(u, x, selection) ==
  selections' = [y \in DOMAIN selections \cup {x} |->
    IF y = x THEN selection
    ELSE IF y[1] = u THEN [selections[y] EXCEPT !.active = FALSE] ELSE selections[y]]

\* ensureInstanceRepository, for every user who lists their repositories.
EnsureInstance(u) ==
  LET id == <<Instance, u>>
  IN  /\ <<u, id>> \notin DOMAIN selections
      /\ records' = With(records, id, [by |-> u, fresh |-> TRUE])
      /\ selections' = With(selections, <<u, id>>,
           [active |-> \A x \in SelectionsOf(u) : ~selections[x].active, github |-> 0])
      /\ crossed' = IF Locked(u) THEN crossed \cup {u} ELSE crossed
      /\ UNCHANGED <<identity, inUse, step>>

\* POST repositories: the identity is read and GitHub answers.
ConnectRead(r, u, g) ==
  /\ Take(r, [Waiting EXCEPT !.op = "connect", !.at = "choose", !.u = u, !.id = <<g, Default>>,
                             !.github = identity[u]])
  /\ UNCHANGED <<records, selections, identity, inUse, crossed>>

\* GET drawings: the repository that was active is listed on GitHub and saved as the
\* active one again, as a new connection would be.
ListDrawings(r, u) ==
  /\ \E id \in ActiveRepository(u) : id[1] # Instance
       /\ Take(r, [Waiting EXCEPT !.op = "connect", !.at = "choose", !.u = u,
                                  !.id = <<id[1], Default>>, !.github = identity[u]])
  /\ UNCHANGED <<records, selections, identity, inUse, crossed>>

\* saveActiveRepository looks for the user's record, then for the default one's owner.
ConnectChoose(r) ==
  LET u   == step[r].u
      g   == step[r].id[1]
      own == {id \in DOMAIN records : id[1] = g /\ records[id].by = u}
      default == <<g, Default>>
  IN  /\ Doing(r, "connect", "choose")
      /\ step' = [step EXCEPT ![r].at = "save", ![r].id =
           IF own # {} THEN CHOOSE id \in own : TRUE
           ELSE IF default \notin DOMAIN records THEN default ELSE <<g, u>>]
      /\ UNCHANGED <<records, selections, identity, inUse, crossed>>

\* Mutant: a record of somebody else is taken over.
ConnectTakesOver(r) ==
  LET q == step[r]
  IN  /\ Doing(r, "connect", "save") /\ ~Locked(q.u) /\ Done(r)
      /\ records' = With(records, q.id, [by |-> q.u, fresh |-> TRUE])
      /\ Activate(q.u, <<q.u, q.id>>, [active |-> TRUE, github |-> q.github])
      /\ UNCHANGED <<identity, inUse, crossed>>

\* The record is written unless it is another user's, which is not noticed; the unique
\* index of user and record refuses a selection made under another GitHub identity.
ConnectSave(r) ==
  LET q == step[r]
      x == <<q.u, q.id>>
      theirs == q.id \in DOMAIN records /\ records[q.id].by # q.u
  IN  /\ Doing(r, "connect", "save") /\ ~Locked(q.u) /\ Done(r)
      /\ IF x \in DOMAIN selections /\ selections[x].github # q.github
           THEN UNCHANGED <<records, selections, crossed>>
           ELSE /\ records' = IF theirs THEN records ELSE With(records, q.id, [by |-> q.u, fresh |-> TRUE])
                /\ Activate(q.u, x, [active |-> TRUE, github |-> q.github])
                /\ crossed' = IF theirs THEN crossed \cup {q.u} ELSE crossed
      /\ UNCHANGED <<identity, inUse>>

\* PATCH repositories/[repositoryId].
ActivateOwned(u, id) ==
  /\ Owned(u, id) /\ <<u, id>> \in DOMAIN selections /\ ~selections[<<u, id>>].active /\ ~Locked(u)
  /\ Activate(u, <<u, id>>, [selections[<<u, id>>] EXCEPT !.active = TRUE])
  /\ UNCHANGED <<records, identity, inUse, step, crossed>>

\* DELETE repositories/[repositoryId]: no session depends on it, the selection goes.
DisconnectDelete(r, u, id) ==
  /\ id[1] # Instance /\ <<u, id>> \in DOMAIN selections
  /\ ~(Owned(u, id) /\ id \in inUse)
  /\ \A x \in RepoRequests : ~(Doing(x, "disconnect", "promote") /\ step[x].u = u
                                /\ (step[x].id = id \/ step[x].next = {id}))
  /\ \E next \in {{}} \cup {{x[2]} : x \in SelectionsOf(u) \ {<<u, id>>}} :
       /\ (next = {}) <=> (~selections[<<u, id>>].active \/ SelectionsOf(u) = {<<u, id>>})
       /\ Take(r, [Waiting EXCEPT !.op = "disconnect", !.at = "promote", !.u = u, !.id = id,
                                  !.was = selections[<<u, id>>].active, !.next = next])
  /\ UNCHANGED <<records, selections, identity, inUse, crossed>>

\* The record too (and whoever selected it, by ON DELETE CASCADE); the selection that
\* was chosen next becomes active, if no other disconnection has removed it meanwhile.
DisconnectPromote(r) ==
  LET q == step[r]
      gone == {id \in {q.id} : Owned(q.u, id)}
      left == {x \in DOMAIN selections : x # <<q.u, q.id>> /\ x[2] \notin gone}
      late == q.next # {} /\ \A x \in left : ~(x[1] = q.u /\ x[2] \in q.next)
  IN  /\ Doing(r, "disconnect", "promote") /\ Done(r)
      /\ \A o \in RepoRequests \ {r} : ~(Doing(o, "disconnect", "promote") /\ step[o].u = q.u
                                          /\ step[o].id \in q.next)
      /\ records' = [id \in DOMAIN records \ gone |-> records[id]]
      /\ selections' = [x \in left |->
           IF x[1] = q.u /\ x[2] \in q.next THEN [selections[x] EXCEPT !.active = TRUE] ELSE selections[x]]
      /\ crossed' = (IF late THEN crossed \cup {q.u} ELSE crossed)
      /\ inUse' = inUse \ gone
      /\ UNCHANGED identity

(* POST scan: the record is read, GitHub scanned, the result written under *)
(* the id the scan gives it, github-<n>.                                   *)

ScanRead(r, u, id) ==
  /\ Owned(u, id) /\ id[1] # Instance
  /\ Take(r, [Waiting EXCEPT !.op = "scan", !.at = "github", !.u = u, !.id = id])
  /\ UNCHANGED <<records, selections, identity, inUse, crossed>>

ScanAnswered(r) ==
  /\ Doing(r, "scan", "github") /\ step' = [step EXCEPT ![r].at = "write"]
  /\ UNCHANGED <<records, selections, identity, inUse, crossed>>

\* updateOwnedRepositoryScan; without such a record of the user the request fails.
ScanWrite(r) ==
  LET scanned == <<step[r].id[1], Default>>
  IN  /\ Doing(r, "scan", "write") /\ Done(r)
      /\ records' = IF Owned(step[r].u, scanned) THEN [records EXCEPT ![scanned].fresh = TRUE] ELSE records
      /\ UNCHANGED <<selections, identity, inUse, crossed>>

\* GitHub changes; the member links another identity; a session is created or deleted.
Outdate(id) ==
  /\ id \in DOMAIN records /\ id[1] # Instance /\ records[id].fresh
  /\ records' = [records EXCEPT ![id].fresh = FALSE]
  /\ UNCHANGED <<selections, identity, inUse, step, crossed>>
Relink(u) ==
  /\ identity[u] < MaxIdentities /\ identity' = [identity EXCEPT ![u] = @ + 1]
  /\ UNCHANGED <<records, selections, inUse, step, crossed>>
Depend(id) ==
  /\ id \in DOMAIN records
  /\ inUse' = IF id \in inUse THEN inUse \ {id} ELSE inUse \cup {id}
  /\ UNCHANGED <<records, selections, identity, step, crossed>>

RequestFails(r) ==
  /\ step[r] # Waiting /\ ~Doing(r, "scan", "write") /\ Done(r)
  /\ UNCHANGED <<records, selections, identity, inUse, crossed>>

RepositoriesNext ==
  \/ \E u \in Members : EnsureInstance(u) \/ Relink(u) \/ \E id \in RecordIds : ActivateOwned(u, id)
  \/ \E r \in RepoRequests :
       \/ \E u \in Members : ListDrawings(r, u)
       \/ \E u \in Members, g \in GitHubRepos : ConnectRead(r, u, g)
       \/ \E u \in Members, id \in RecordIds : DisconnectDelete(r, u, id) \/ ScanRead(r, u, id)
       \/ ConnectChoose(r) \/ ConnectSave(r) \/ DisconnectPromote(r) \/ ScanAnswered(r) \/ ScanWrite(r)
       \/ RequestFails(r)
  \/ \E id \in RecordIds : Outdate(id) \/ Depend(id)

RepositoriesSpec == RepositoriesInit /\ [][RepositoriesNext]_reposVars

-----------------------------------------------------------------------------
(* Properties.                                                             *)

\* "Exactly one repository is the active work context": a member who has any has one
\* active, which the member connected; and nobody's record passes to somebody else.
\* Left out are the members in crossed.
OneActiveOwn ==
  \A u \in Members \ crossed : SelectionsOf(u) # {} =>
    \E id \in ActiveRepository(u) : \A x \in SelectionsOf(u) : selections[x].active <=> x = <<u, id>>
=============================================================================
