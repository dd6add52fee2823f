---------------------------- MODULE LocalAccounts ----------------------------
(***************************************************************************)
(* Local accounts of the web application: first-run setup, the accounts    *)
(* the instance owner manages, passwords, login sessions and the GitHub    *)
(* connection of a browser.  A request stands at one of its awaits; it was *)
(* sent with the cookies of that moment, and the cookies it sets arrive    *)
(* with its answer, in any order with other answers.                       *)
(***************************************************************************)
EXTENDS Naturals

CONSTANTS
  Accounts,      \* account ids
  Logins,        \* login session ids, each used once
  Browsers,
  Visits,        \* requests the web process serves at a time
  MaxPasswords,  \* bound: passwords an account has had
  NoAccount,
  NoLogin

ASSUME AccountsAssumption ==
  MaxPasswords \in Nat \ {0} /\ NoAccount \notin Accounts /\ NoLogin \notin Logins

VARIABLES
  accounts,   \* app_users, by id; a password is the number of its replacement
  logins,     \* app_user_sessions; as history, the password each was opened with, and
              \* whether the account had changed since the request had read it
  cookie,     \* of a browser: its login, its OAuth state, whose GitHub token it holds
  visit       \* the requests

accountVars == <<accounts, logins, cookie, visit>>

NoCookies == [login |-> NoLogin, oauth |-> FALSE, token |-> NoAccount]
NoVisit == [op |-> "none", at |-> "none", browser |-> CHOOSE w \in Browsers : TRUE,
            sent |-> NoLogin, who |-> NoAccount, saw |-> 0, new |-> NoLogin]

AccountTypes ==
  /\ DOMAIN accounts \subseteq Accounts /\ DOMAIN logins \subseteq Logins
  /\ \A a \in DOMAIN accounts :
       /\ accounts[a].role \in {"instance_owner", "user"} /\ accounts[a].status \in {"active", "disabled"}
       /\ accounts[a].password \in 1 .. MaxPasswords /\ accounts[a].must \in BOOLEAN
       /\ accounts[a].github \in BOOLEAN
  /\ \A l \in DOMAIN logins : logins[l].user \in DOMAIN accounts /\ logins[l].live \in BOOLEAN
  /\ \A w \in Browsers : cookie[w].login \in DOMAIN logins \cup {NoLogin}

AccountsInit ==
  /\ accounts = <<>> /\ logins = <<>>
  /\ cookie = [w \in Browsers |-> NoCookies]
  /\ visit = [v \in Visits |-> NoVisit]

-----------------------------------------------------------------------------

Here(v, op, at) == visit[v].op = op /\ visit[v].at = at
Arrive(v, fields) == visit[v] = NoVisit /\ visit' = [visit EXCEPT ![v] = fields]
From(w, op, at) == [NoVisit EXCEPT !.op = op, !.at = at, !.browser = w, !.sent = cookie[w].login]
StepTo(v, at) == visit' = [visit EXCEPT ![v].at = at]
Leave(v) == visit' = [visit EXCEPT ![v] = NoVisit]

\* getCurrentOwner: the login is live and its account is active.
CurrentOwner(login) ==
  IF /\ login \in DOMAIN logins /\ logins[login].live
     /\ accounts[logins[login].user].status = "active"
    THEN logins[login].user ELSE NoAccount

\* requireInstanceOwnerApiAuth.
IsInstanceOwner(login) ==
  LET a == CurrentOwner(login)
  IN  a # NoAccount /\ accounts[a].role = "instance_owner" /\ ~accounts[a].must

Holds(a, record) == accounts' = [x \in DOMAIN accounts \cup {a} |-> IF x = a THEN record ELSE accounts[x]]
NewAccount(role) == [role |-> role, status |-> "active", password |-> 1, must |-> role = "user",
                     github |-> FALSE]

\* setOwnerAuthCookie.
OpenLogin(l, a, password) ==
  /\ l \notin DOMAIN logins
  /\ logins' = [x \in DOMAIN logins \cup {l} |->
       IF x = l THEN [user |-> a, password |-> password, live |-> TRUE,
                      late |-> accounts[a].password # password \/ accounts[a].status # "active"]
                ELSE logins[x]]

EndLogins(which) == logins' = [l \in DOMAIN logins |->
  IF l \in which THEN [logins[l] EXCEPT !.live = FALSE] ELSE logins[l]]
LoginsOf(a) == {l \in DOMAIN logins : logins[l].user = a}

ReplacePassword(a, must) ==
  /\ accounts[a].password < MaxPasswords
  /\ accounts' = [accounts EXCEPT ![a].password = @ + 1, ![a].must = must]

-----------------------------------------------------------------------------
(* POST setup.                                                             *)

SetupRead(v, w) ==
  /\ \A a \in DOMAIN accounts : accounts[a].role # "instance_owner"
  /\ Arrive(v, From(w, "setup", "create"))
  /\ UNCHANGED <<accounts, logins, cookie>>

\* Mutant: no unique index, only the look before.
SetupTwice(v, a) ==
  /\ Here(v, "setup", "create")
  /\ a \notin DOMAIN accounts /\ Holds(a, NewAccount("instance_owner"))
  /\ visit' = [visit EXCEPT ![v].at = "open", ![v].who = a, ![v].saw = 1]
  /\ UNCHANGED <<logins, cookie>>

\* The unique index lets one of two setups through.
SetupCreate(v, a) ==
  /\ Here(v, "setup", "create")
  /\ IF \A x \in DOMAIN accounts : accounts[x].role # "instance_owner"
       THEN /\ a \notin DOMAIN accounts /\ Holds(a, NewAccount("instance_owner"))
            /\ visit' = [visit EXCEPT ![v].at = "open", ![v].who = a, ![v].saw = 1]
       ELSE UNCHANGED accounts /\ Leave(v)
  /\ UNCHANGED <<logins, cookie>>

(* POST login.                                                             *)

LoginRead(v, w, a) ==
  /\ a \in DOMAIN accounts /\ accounts[a].status = "active"
  /\ Arrive(v, [From(w, "login", "verify") EXCEPT !.who = a, !.saw = accounts[a].password])
  /\ UNCHANGED <<accounts, logins, cookie>>

\* scrypt; a wrong password, or a full queue of derivations, ends the request.
LoginVerify(v) ==
  /\ Here(v, "login", "verify") /\ (StepTo(v, "open") \/ Leave(v))
  /\ UNCHANGED <<accounts, logins, cookie>>

\* The login of a setup, a login or a password change.
Open(v, l) ==
  /\ visit[v].at = "open" /\ OpenLogin(l, visit[v].who, visit[v].saw)
  /\ visit' = [visit EXCEPT ![v].at = "answer", ![v].new = l]
  /\ UNCHANGED <<accounts, cookie>>

\* A login clears what another account left in the browser; a setup its GitHub token.
AnswerLogin(v) ==
  LET q == visit[v]
  IN  /\ q.at = "answer" /\ q.op \in {"setup", "login", "password"} /\ Leave(v)
      /\ cookie' = [cookie EXCEPT ![q.browser].login = q.new,
           ![q.browser].oauth = IF q.op = "login" THEN FALSE ELSE @,
           ![q.browser].token = IF q.op = "password" THEN @ ELSE NoAccount]
      /\ UNCHANGED <<accounts, logins>>

(* POST logout.                                                            *)

LogoutRevoke(v, w) ==
  /\ cookie[w].login # NoLogin
  /\ Arrive(v, From(w, "logout", "answer"))
  /\ EndLogins({cookie[w].login})
  /\ UNCHANGED <<accounts, cookie>>

AnswerLogout(v) ==
  /\ Here(v, "logout", "answer") /\ Leave(v)
  /\ cookie' = [cookie EXCEPT ![visit[v].browser] = NoCookies]
  /\ UNCHANGED <<accounts, logins>>

(* POST password.                                                          *)

PasswordRead(v, w) ==
  LET a == CurrentOwner(cookie[w].login)
  IN  /\ a # NoAccount
      /\ Arrive(v, [From(w, "password", "verify") EXCEPT !.who = a, !.saw = accounts[a].password])
      /\ UNCHANGED <<accounts, logins, cookie>>

PasswordVerify(v) ==
  /\ Here(v, "password", "verify") /\ (StepTo(v, "replace") \/ Leave(v))
  /\ UNCHANGED <<accounts, logins, cookie>>

\* Mutant: the other logins of the account stay.
PasswordKeepsLogins(v) ==
  LET a == visit[v].who
  IN  /\ Here(v, "password", "replace") /\ ReplacePassword(a, FALSE)
      /\ visit' = [visit EXCEPT ![v].at = "open", ![v].saw = accounts[a].password + 1]
      /\ UNCHANGED <<logins, cookie>>

\* One transaction: the password and the end of every login of the account.
PasswordReplace(v) ==
  LET a == visit[v].who
  IN  /\ Here(v, "password", "replace") /\ ReplacePassword(a, FALSE)
      /\ EndLogins(LoginsOf(a))
      /\ visit' = [visit EXCEPT ![v].at = "open", ![v].saw = accounts[a].password + 1]
      /\ UNCHANGED cookie

-----------------------------------------------------------------------------
(* Account management by the instance owner: one transaction each, after   *)
(* the request was authorised and the account read.                        *)

ManageRead(v, w, op, a) ==
  /\ IsInstanceOwner(cookie[w].login) /\ op \in {"create", "reset", "disable", "activate"}
  /\ IF op = "create" THEN a \notin DOMAIN accounts
                      ELSE a \in DOMAIN accounts /\ accounts[a].role = "user"
  /\ Arrive(v, [From(w, op, "write") EXCEPT !.who = a])
  /\ UNCHANGED <<accounts, logins, cookie>>

CreateUser(v) ==
  LET a == visit[v].who
  IN  /\ Here(v, "create", "write") /\ Leave(v)
      /\ IF a \in DOMAIN accounts THEN UNCHANGED accounts ELSE Holds(a, NewAccount("user"))
      /\ UNCHANGED <<logins, cookie>>

ResetPassword(v) ==
  LET a == visit[v].who
  IN  /\ Here(v, "reset", "write") /\ Leave(v)
      /\ ReplacePassword(a, TRUE) /\ EndLogins(LoginsOf(a))
      /\ UNCHANGED cookie

SetAccountStatus(v) ==
  LET a  == visit[v].who
      op == visit[v].op
  IN  /\ visit[v].at = "write" /\ op \in {"disable", "activate"} /\ Leave(v)
      /\ accounts' = [accounts EXCEPT ![a].status = IF op = "disable" THEN "disabled" ELSE "active"]
      /\ IF op = "disable" THEN EndLogins(LoginsOf(a)) ELSE UNCHANGED logins
      /\ UNCHANGED cookie

-----------------------------------------------------------------------------
(* Connecting GitHub: start, then the callback GitHub redirects to.        *)

ConnectStart(v, w) ==
  /\ CurrentOwner(cookie[w].login) # NoAccount
  /\ Arrive(v, From(w, "start", "answer"))
  /\ UNCHANGED <<accounts, logins, cookie>>

AnswerStart(v) ==
  /\ Here(v, "start", "answer") /\ Leave(v)
  /\ cookie' = [cookie EXCEPT ![visit[v].browser].oauth = TRUE]
  /\ UNCHANGED <<accounts, logins>>

\* The state of the request's cookie; then the code is exchanged at GitHub.
Callback(v, w) ==
  /\ cookie[w].oauth /\ Arrive(v, From(w, "callback", "exchange"))
  /\ UNCHANGED <<accounts, logins, cookie>>

\* The account of the login that was sent is linked to the GitHub identity; without
\* one the connection fails.
CallbackLink(v) ==
  LET a == CurrentOwner(visit[v].sent)
  IN  /\ Here(v, "callback", "exchange")
      /\ visit' = [visit EXCEPT ![v].at = "answer", ![v].who = a]
      /\ accounts' = IF a = NoAccount THEN accounts ELSE [accounts EXCEPT ![a].github = TRUE]
      /\ UNCHANGED <<logins, cookie>>

\* The OAuth state is consumed either way.
AnswerCallback(v) ==
  LET q == visit[v]
  IN  /\ Here(v, "callback", "answer") /\ Leave(v)
      /\ cookie' = [cookie EXCEPT ![q.browser].oauth = FALSE,
           ![q.browser].token = IF q.who = NoAccount THEN @ ELSE q.who]
      /\ UNCHANGED <<accounts, logins>>

\* A login runs out after eight hours; a request fails.
LoginExpires(l) ==
  /\ l \in DOMAIN logins /\ logins[l].live /\ EndLogins({l})
  /\ UNCHANGED <<accounts, cookie, visit>>
VisitFails(v) ==
  /\ visit[v] # NoVisit /\ Leave(v) /\ UNCHANGED <<accounts, logins, cookie>>

-----------------------------------------------------------------------------

AccountsNext ==
  \/ \E v \in Visits :
       \/ \E w \in Browsers :
            \/ SetupRead(v, w) \/ LogoutRevoke(v, w) \/ PasswordRead(v, w)
            \/ ConnectStart(v, w) \/ Callback(v, w)
            \/ \E a \in Accounts : LoginRead(v, w, a)
            \/ \E a \in Accounts, op \in {"create", "reset", "disable", "activate"} : ManageRead(v, w, op, a)
       \/ \E a \in Accounts : SetupCreate(v, a)
       \/ \E l \in Logins : Open(v, l)
       \/ LoginVerify(v) \/ AnswerLogin(v) \/ AnswerLogout(v)
       \/ PasswordVerify(v) \/ PasswordReplace(v)
       \/ CreateUser(v) \/ ResetPassword(v) \/ SetAccountStatus(v)
       \/ AnswerStart(v) \/ CallbackLink(v) \/ AnswerCallback(v) \/ VisitFails(v)
  \/ \E l \in Logins : LoginExpires(l)

AccountsSpec == AccountsInit /\ [][AccountsNext]_accountVars

-----------------------------------------------------------------------------
(* Properties.                                                             *)

\* A new password, a reset or the end of an account ends what was opened before it:
\* every login that is live was opened with the present password of an account that
\* is active, unless the account had changed between the request's look at it and
\* the opening of the login.
LoginsFollowPassword ==
  \A l \in DOMAIN logins : logins[l].live /\ ~logins[l].late =>
    /\ logins[l].password = accounts[logins[l].user].password
    /\ accounts[logins[l].user].status = "active"

\* Set up once: crossing setups leave one instance owner, who stays active whatever
\* is done to the accounts, so that the instance can always be managed.
OneOwnerRemains ==
  LET owners == {a \in DOMAIN accounts : accounts[a].role = "instance_owner"}
  IN  /\ \A a, b \in owners : a = b
      /\ \A a \in owners : accounts[a].status = "active"
      /\ \A v \in Visits : visit[v].op = "setup" /\ visit[v].at = "open" => owners = {visit[v].who}
=============================================================================
