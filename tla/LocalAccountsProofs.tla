-------------------------- MODULE LocalAccountsProofs --------------------------
(***************************************************************************)
(* Local accounts for any number of accounts, logins, browsers and         *)
(* requests: logins end with the password they were opened with, and there *)
(* is one owner.  What a request has read may be out of date when it       *)
(* writes, but never in the parts that do not change: accounts stay, with  *)
(* their roles.  And the repositories the members connect: each member has *)
(* one active, because what a disconnection has read stays true until it   *)
(* deletes.  The types of both follow from the same invariants.            *)
(***************************************************************************)
EXTENDS LocalAccounts, Repositories, TLAPS

Account == [role: {"instance_owner", "user"}, status: {"active", "disabled"},
            password: 1 .. MaxPasswords, must: BOOLEAN, github: BOOLEAN]
Login == [user: Accounts, password: Nat, live: BOOLEAN, late: BOOLEAN]
Cookies == [login: Logins \cup {NoLogin}, oauth: BOOLEAN, token: Accounts \cup {NoAccount}]
Operations == {"none", "setup", "login", "logout", "password", "create", "reset", "disable",
               "activate", "start", "callback"}
Awaits == {"none", "create", "open", "verify", "answer", "replace", "write", "exchange"}
AnyBrowser == CHOOSE w \in Browsers : TRUE
Visit == [op: Operations, at: Awaits, browser: Browsers \cup {AnyBrowser},
          sent: Logins \cup {NoLogin}, who: Accounts \cup {NoAccount}, saw: Nat,
          new: Logins \cup {NoLogin}]

AccountsHold == DOMAIN accounts \subseteq Accounts /\ \A a \in DOMAIN accounts : accounts[a] \in Account
LoginsHold == /\ DOMAIN logins \subseteq Logins
              /\ \A l \in DOMAIN logins : logins[l] \in Login /\ logins[l].user \in DOMAIN accounts
CookiesHold == /\ cookie \in [Browsers -> Cookies]
               /\ \A w \in Browsers : cookie[w].login \in DOMAIN logins \cup {NoLogin}

\* What a request q needs to find again at its await, in the accounts and logins then.
Finds(q, users, opened) ==
  /\ q.at \in {"verify", "replace", "open"} => q.who \in DOMAIN users
  /\ q.at = "write" => q.who \in Accounts
  /\ q.at = "write" /\ q.op # "create" => q.who \in DOMAIN users /\ users[q.who].role = "user"
  /\ q.at = "answer" /\ q.op \in {"setup", "login", "password"} => q.new \in DOMAIN opened
VisitsHold == visit \in [Visits -> Visit] /\ \A v \in Visits : Finds(visit[v], accounts, logins)

IInv == AccountsHold /\ LoginsHold /\ CookiesHold /\ VisitsHold /\ LoginsFollowPassword /\ OneOwnerRemains

-----------------------------------------------------------------------------
(* What the steps are made of.                                             *)

\* Accounts and logins are never deleted, and a role is for good.
Grow == /\ DOMAIN accounts \subseteq DOMAIN accounts' /\ DOMAIN logins \subseteq DOMAIN logins'
        /\ \A a \in DOMAIN accounts : accounts'[a].role = accounts[a].role

\* One request changes, the others find what they need.
LEMMA OneVisit ==
  ASSUME VisitsHold, Grow, NEW v \in Visits, NEW q \in Visit,
         visit' = [visit EXCEPT ![v] = q], Finds(q, accounts', logins')
  PROVE  VisitsHold'
<1>1. visit' \in [Visits -> Visit]
  BY DEF VisitsHold
<1>2. \A x \in Visits : Finds(visit[x], accounts', logins')
  BY DEF VisitsHold, Grow, Finds
<1>3. \A x \in Visits : visit'[x] = IF x = v THEN q ELSE visit[x]
  BY DEF VisitsHold
<1> QED BY <1>1, <1>2, <1>3 DEF VisitsHold

LEMMA NoVisitFinds == NoVisit \in Visit /\ \A users, opened : Finds(NoVisit, users, opened)
<1>1. NoVisit = [op |-> "none", at |-> "none", browser |-> AnyBrowser, sent |-> NoLogin,
                 who |-> NoAccount, saw |-> 0, new |-> NoLogin]
  BY DEF NoVisit, AnyBrowser
<1> QED BY <1>1 DEF Visit, Finds, Operations, Awaits

LEMMA NewAccountTypes ==
  ASSUME NEW role \in {"instance_owner", "user"}
  PROVE  NewAccount(role) \in Account /\ NewAccount(role).role = role
         /\ NewAccount(role).status = "active"
  BY AccountsAssumption DEF NewAccount, Account

\* A new account changes no other.
LEMMA Added ==
  ASSUME AccountsHold, NEW a \in Accounts, a \notin DOMAIN accounts,
         NEW role \in {"instance_owner", "user"}, Holds(a, NewAccount(role))
  PROVE  /\ DOMAIN accounts' = DOMAIN accounts \cup {a} /\ AccountsHold'
         /\ accounts'[a].role = role /\ accounts'[a].status = "active"
         /\ \A x \in DOMAIN accounts : accounts'[x] = accounts[x]
<1> DEFINE n == NewAccount(role)
<1>1. n \in Account /\ n.role = role /\ n.status = "active"
  BY NewAccountTypes
<1>2. accounts' = [x \in DOMAIN accounts \cup {a} |-> IF x = a THEN n ELSE accounts[x]]
  BY DEF Holds
<1> HIDE DEF n
<1> QED BY <1>1, <1>2 DEF AccountsHold

LEMMA Replaced ==
  ASSUME AccountsHold, NEW a \in DOMAIN accounts, NEW must \in BOOLEAN, ReplacePassword(a, must)
  PROVE  /\ DOMAIN accounts' = DOMAIN accounts /\ AccountsHold'
         /\ \A x \in DOMAIN accounts : /\ accounts'[x].role = accounts[x].role
                                       /\ accounts'[x].status = accounts[x].status
                                       /\ x # a => accounts'[x] = accounts[x]
<1>1. accounts[a] \in Account /\ accounts[a].password + 1 \in 1 .. MaxPasswords
  BY AccountsAssumption DEF AccountsHold, ReplacePassword, Account
<1>2. accounts' = [accounts EXCEPT ![a] = [accounts[a] EXCEPT !.password = @ + 1, !.must = must]]
  BY DEF ReplacePassword
<1>3. [accounts[a] EXCEPT !.password = @ + 1, !.must = must] \in Account
  BY <1>1 DEF Account
<1>4. /\ [accounts[a] EXCEPT !.password = @ + 1, !.must = must].role = accounts[a].role
      /\ [accounts[a] EXCEPT !.password = @ + 1, !.must = must].status = accounts[a].status
  BY <1>1 DEF Account
<1> QED BY <1>2, <1>3, <1>4 DEF AccountsHold

\* Logins that end keep everything else.
LEMMA Ended ==
  ASSUME LoginsHold, NEW which, EndLogins(which), DOMAIN accounts' = DOMAIN accounts
  PROVE  /\ DOMAIN logins' = DOMAIN logins /\ LoginsHold'
         /\ \A l \in DOMAIN logins : logins'[l].live => l \notin which /\ logins'[l] = logins[l]
<1>1. \A l \in DOMAIN logins : /\ logins[l] \in Login
                               /\ logins'[l] = IF l \in which THEN [logins[l] EXCEPT !.live = FALSE] ELSE logins[l]
  BY DEF EndLogins, LoginsHold
<1>2. \A l \in DOMAIN logins : /\ [logins[l] EXCEPT !.live = FALSE] \in Login
                               /\ [logins[l] EXCEPT !.live = FALSE].live = FALSE
                               /\ [logins[l] EXCEPT !.live = FALSE].user = logins[l].user
  BY <1>1 DEF Login
<1>3. DOMAIN logins' = DOMAIN logins
  BY DEF EndLogins
<1> QED BY <1>1, <1>2, <1>3 DEF LoginsHold

-----------------------------------------------------------------------------
(* The two properties over a step.                                         *)

Owners == {a \in DOMAIN accounts : accounts[a].role = "instance_owner"}

LEMMA OwnersAre ==
  OneOwnerRemains <=>
    /\ \A a, b \in Owners : a = b
    /\ \A a \in Owners : accounts[a].status = "active"
    /\ \A v \in Visits : visit[v].op = "setup" /\ visit[v].at = "open" => Owners = {visit[v].who}
  BY DEF OneOwnerRemains, Owners

LEMMA OwnersWillBe ==
  (/\ \A a, b \in Owners' : a = b
   /\ \A a \in Owners' : accounts'[a].status = "active"
   /\ \A v \in Visits : visit'[v].op = "setup" /\ visit'[v].at = "open" => Owners' = {visit'[v].who})
  => OneOwnerRemains'
  BY DEF OneOwnerRemains, Owners

\* No owner comes or goes, and none is disabled.
OwnersKept ==
  /\ \A a \in DOMAIN accounts' : accounts'[a].role = "instance_owner" => a \in DOMAIN accounts
  /\ \A a \in Owners : accounts'[a].status = accounts[a].status

LEMMA OwnersStay ==
  ASSUME OneOwnerRemains, VisitsHold, Grow, OwnersKept, NEW v \in Visits, NEW q \in Visit,
         visit' = [visit EXCEPT ![v] = q], ~(q.op = "setup" /\ q.at = "open")
  PROVE  OneOwnerRemains'
<1>1. Owners' = Owners
  BY DEF Owners, OwnersKept, Grow
<1>2. \A x \in Visits : visit'[x] = IF x = v THEN q ELSE visit[x]
  BY DEF VisitsHold
<1> QED BY <1>1, <1>2, OwnersAre, OwnersWillBe DEF OwnersKept

\* A login that is still live, and was not late, is the one it was, of an account with
\* the same password and status.
LoginsKept ==
  \A l \in DOMAIN logins' : logins'[l].live /\ ~logins'[l].late =>
    /\ l \in DOMAIN logins /\ logins'[l] = logins[l]
    /\ accounts'[logins[l].user].password = accounts[logins[l].user].password
    /\ accounts'[logins[l].user].status = accounts[logins[l].user].status

LEMMA LoginsStay ==
  ASSUME LoginsFollowPassword, LoginsKept
  PROVE  LoginsFollowPassword'
  BY DEF LoginsFollowPassword, LoginsKept

LEMMA CookiesStay ==
  ASSUME CookiesHold, Grow, UNCHANGED cookie
  PROVE  CookiesHold'
  BY DEF CookiesHold, Grow

\* A step of one request.
LEMMA VisitStep ==
  ASSUME IInv, NEW v \in Visits, NEW q \in Visit, visit' = [visit EXCEPT ![v] = q],
         Finds(q, accounts', logins'), ~(q.op = "setup" /\ q.at = "open"),
         AccountsHold', LoginsHold', CookiesHold', Grow, OwnersKept, LoginsKept
  PROVE  IInv'
<1>1. VisitsHold'
  BY OneVisit DEF IInv
<1>2. OneOwnerRemains' /\ LoginsFollowPassword'
  BY OwnersStay, LoginsStay DEF IInv
<1> QED BY <1>1, <1>2 DEF IInv

\* A step of one request that leaves accounts and logins alone.
LEMMA QuietVisit ==
  ASSUME IInv, NEW v \in Visits, NEW q \in Visit, visit' = [visit EXCEPT ![v] = q],
         Finds(q, accounts, logins), ~(q.op = "setup" /\ q.at = "open"),
         UNCHANGED <<accounts, logins>>, CookiesHold'
  PROVE  IInv'
<1>1. Grow /\ OwnersKept /\ LoginsKept
  BY DEF Grow, OwnersKept, LoginsKept, Owners
<1>2. AccountsHold' /\ LoginsHold'
  BY DEF IInv, AccountsHold, LoginsHold
<1>3. Finds(q, accounts', logins')
  BY DEF Finds
<1> QED BY <1>1, <1>2, <1>3, VisitStep

LEMMA FromTypes ==
  ASSUME CookiesHold, NEW w \in Browsers, NEW op \in Operations, NEW at \in Awaits
  PROVE  /\ From(w, op, at) \in Visit
         /\ From(w, op, at).op = op /\ From(w, op, at).at = at
<1>1. NoVisit \in Visit /\ cookie[w].login \in Logins \cup {NoLogin}
  BY NoVisitFinds DEF CookiesHold, Cookies
<1> QED BY <1>1 DEF From, Visit

-----------------------------------------------------------------------------
(* The steps.                                                              *)

\* Requests that look at the account and wait.
LEMMA ReadStep ==
  ASSUME IInv, NEW v \in Visits, NEW w \in Browsers,
         \/ SetupRead(v, w) \/ PasswordRead(v, w) \/ ConnectStart(v, w) \/ Callback(v, w)
         \/ \E a \in Accounts : LoginRead(v, w, a)
         \/ \E a \in Accounts, op \in {"create", "reset", "disable", "activate"} : ManageRead(v, w, op, a)
  PROVE  IInv'
<1>1. UNCHANGED <<accounts, logins, cookie>>
  BY DEF SetupRead, PasswordRead, ConnectStart, Callback, LoginRead, ManageRead
<1>2. CookiesHold'
  BY <1>1 DEF IInv, CookiesHold
<1>3. ASSUME NEW op \in {"setup", "start", "callback"}, NEW at \in {"create", "answer", "exchange"},
             op # "setup" \/ at # "answer", Arrive(v, From(w, op, at))
      PROVE  IInv'
  <2>1. /\ From(w, op, at) \in Visit /\ From(w, op, at).op = op /\ From(w, op, at).at = at
    BY <1>3, FromTypes DEF IInv, Operations, Awaits
  <2>2. Finds(From(w, op, at), accounts, logins)
    BY <1>3, <2>1 DEF Finds
  <2>3. visit' = [visit EXCEPT ![v] = From(w, op, at)]
    BY <1>3 DEF Arrive
  <2> QED BY <1>1, <1>2, <1>3, <2>1, <2>2, <2>3, QuietVisit
<1>4. ASSUME NEW op \in {"login", "password", "create", "reset", "disable", "activate"},
             NEW at \in {"verify", "write"}, NEW a \in Accounts, NEW saw \in Nat,
             at = "verify" => a \in DOMAIN accounts,
             at = "write" /\ op # "create" => a \in DOMAIN accounts /\ accounts[a].role = "user",
             Arrive(v, [From(w, op, at) EXCEPT !.who = a, !.saw = saw])
      PROVE  IInv'
  <2> DEFINE q == [From(w, op, at) EXCEPT !.who = a, !.saw = saw]
  <2>1. /\ From(w, op, at) \in Visit /\ From(w, op, at).op = op /\ From(w, op, at).at = at
    BY <1>4, FromTypes DEF IInv, Operations, Awaits
  <2>2. q \in Visit /\ q.op = op /\ q.at = at /\ q.who = a
    BY <2>1 DEF Visit
  <2>3. visit' = [visit EXCEPT ![v] = q]
    BY <1>4 DEF Arrive
  <2> HIDE DEF q
  <2>4. Finds(q, accounts, logins)
    BY <1>4, <2>2 DEF Finds
  <2> QED BY <1>1, <1>2, <1>4, <2>2, <2>3, <2>4, QuietVisit
<1>5. CASE SetupRead(v, w) \/ ConnectStart(v, w) \/ Callback(v, w)
  BY <1>3, <1>5 DEF SetupRead, ConnectStart, Callback
<1>6. CASE PasswordRead(v, w)
  <2>1. PICK a : /\ a \in DOMAIN accounts
                 /\ Arrive(v, [From(w, "password", "verify") EXCEPT !.who = a, !.saw = accounts[a].password])
    BY <1>6 DEF PasswordRead, CurrentOwner, IInv, LoginsHold
  <2>2. a \in Accounts /\ accounts[a].password \in Nat
    BY <2>1, AccountsAssumption DEF IInv, AccountsHold, Account
  <2> QED BY <1>4, <2>1, <2>2
<1>7. CASE \E a \in Accounts : LoginRead(v, w, a)
  <2>1. PICK a \in Accounts : LoginRead(v, w, a)
    BY <1>7
  <2>2. /\ a \in DOMAIN accounts
        /\ Arrive(v, [From(w, "login", "verify") EXCEPT !.who = a, !.saw = accounts[a].password])
    BY <2>1 DEF LoginRead
  <2>3. accounts[a].password \in Nat
    BY <2>2, AccountsAssumption DEF IInv, AccountsHold, Account
  <2> QED BY <1>4, <2>2, <2>3
<1>8. CASE \E a \in Accounts, op \in {"create", "reset", "disable", "activate"} : ManageRead(v, w, op, a)
  <2>1. PICK a \in Accounts, op \in {"create", "reset", "disable", "activate"} : ManageRead(v, w, op, a)
    BY <1>8
  <2> DEFINE q == [From(w, op, "write") EXCEPT !.who = a]
  <2>2. /\ From(w, op, "write") \in Visit /\ From(w, op, "write").op = op /\ From(w, op, "write").at = "write"
    BY FromTypes DEF IInv, Operations, Awaits
  <2>3. q \in Visit /\ q.op = op /\ q.at = "write" /\ q.who = a
    BY <2>2 DEF Visit
  <2>4. visit' = [visit EXCEPT ![v] = q]
    BY <2>1 DEF ManageRead, Arrive
  <2> HIDE DEF q
  <2>5. Finds(q, accounts, logins)
    BY <2>1, <2>3 DEF Finds, ManageRead
  <2> QED BY <1>1, <1>2, <2>3, <2>4, <2>5, QuietVisit
<1> QED BY <1>5, <1>6, <1>7, <1>8

\* A password that was verified, or a request that ends.
LEMMA VerifyStep ==
  ASSUME IInv, NEW v \in Visits, LoginVerify(v) \/ PasswordVerify(v) \/ VisitFails(v)
  PROVE  IInv'
<1>1. UNCHANGED <<accounts, logins, cookie>>
  BY DEF LoginVerify, PasswordVerify, VisitFails
<1>2. CookiesHold'
  BY <1>1 DEF IInv, CookiesHold
<1>3. CASE Leave(v)
  <2>1. ~(NoVisit.op = "setup" /\ NoVisit.at = "open")
    BY DEF NoVisit
  <2> QED BY <1>1, <1>2, <1>3, <2>1, NoVisitFinds, QuietVisit DEF Leave
<1>4. ASSUME NEW at \in {"open", "replace"}, visit[v].op # "setup", visit[v].at = "verify", StepTo(v, at)
      PROVE  IInv'
  <2> DEFINE q == [visit[v] EXCEPT !.at = at]
  <2>1. visit[v] \in Visit /\ Finds(visit[v], accounts, logins)
    BY DEF IInv, VisitsHold
  <2>2. q \in Visit /\ q.op = visit[v].op /\ q.at = at /\ q.who = visit[v].who
    BY <2>1 DEF Visit, Awaits
  <2>3. visit' = [visit EXCEPT ![v] = q]
    BY <1>4 DEF StepTo
  <2> HIDE DEF q
  <2>4. Finds(q, accounts, logins)
    BY <1>4, <2>1, <2>2 DEF Finds
  <2> QED BY <1>1, <1>2, <1>4, <2>2, <2>3, <2>4, QuietVisit
<1> QED BY <1>3, <1>4 DEF LoginVerify, PasswordVerify, VisitFails, Here

\* A request that ends, whatever it wrote.
LEMMA LeaveStep ==
  ASSUME IInv, NEW v \in Visits, Leave(v), AccountsHold', LoginsHold', CookiesHold',
         Grow, OwnersKept, LoginsKept
  PROVE  IInv'
<1>1. ~(NoVisit.op = "setup" /\ NoVisit.at = "open")
  BY DEF NoVisit
<1>2. NoVisit \in Visit /\ Finds(NoVisit, accounts', logins')
  BY NoVisitFinds
<1> QED BY <1>1, <1>2, VisitStep DEF Leave

\* The cookies of an answer.
LEMMA AnswerStep ==
  ASSUME IInv, NEW v \in Visits,
         AnswerLogin(v) \/ AnswerLogout(v) \/ AnswerStart(v) \/ AnswerCallback(v)
  PROVE  IInv'
<1>1. UNCHANGED <<accounts, logins>> /\ Leave(v)
  BY DEF AnswerLogin, AnswerLogout, AnswerStart, AnswerCallback
<1>2. Grow /\ OwnersKept /\ LoginsKept /\ AccountsHold' /\ LoginsHold'
  BY <1>1 DEF Grow, OwnersKept, LoginsKept, Owners, IInv, AccountsHold, LoginsHold
<1>3. visit[v] \in Visit /\ Finds(visit[v], accounts, logins) /\ CookiesHold
  BY DEF IInv, VisitsHold
<1>4. ASSUME NEW w, NEW c \in Cookies, c.login \in DOMAIN logins \cup {NoLogin},
             cookie' = [cookie EXCEPT ![w] = c]
      PROVE  CookiesHold'
  BY <1>1, <1>3, <1>4 DEF CookiesHold
<1>5. CASE AnswerLogin(v)
  <2> DEFINE w == visit[v].browser
             c == [cookie[w] EXCEPT !.login = visit[v].new,
                    !.oauth = IF visit[v].op = "login" THEN FALSE ELSE @,
                    !.token = IF visit[v].op = "password" THEN @ ELSE NoAccount]
  <2>1. cookie' = [cookie EXCEPT ![w] = c]
    BY <1>5 DEF AnswerLogin
  <2>2. visit[v].new \in DOMAIN logins /\ DOMAIN logins \subseteq Logins
    BY <1>3, <1>5 DEF Finds, AnswerLogin, IInv, LoginsHold
  <2>3. CookiesHold'
    <3>1. CASE w \in Browsers
      <4>1. cookie[w] \in Cookies
        BY <1>3, <3>1 DEF CookiesHold
      <4>2. c \in Cookies /\ c.login \in DOMAIN logins \cup {NoLogin}
        BY <2>2, <4>1 DEF Cookies
      <4> HIDE DEF c
      <4> QED BY <1>4, <2>1, <4>2
    <3>2. CASE w \notin Browsers
      BY <1>1, <1>3, <2>1, <3>2 DEF CookiesHold
    <3> QED BY <3>1, <3>2
  <2> QED BY <1>1, <1>2, <2>3, LeaveStep
<1>6. CASE AnswerLogout(v)
  <2>1. NoCookies \in Cookies /\ NoCookies.login = NoLogin
    BY DEF NoCookies, Cookies
  <2> QED BY <1>1, <1>2, <1>4, <1>6, <2>1, LeaveStep DEF AnswerLogout
<1>7. ASSUME NEW w, NEW token \in Accounts \cup {NoAccount}, NEW oauth \in BOOLEAN,
             \/ cookie' = [cookie EXCEPT ![w].oauth = oauth, ![w].token = token]
             \/ cookie' = [cookie EXCEPT ![w].oauth = oauth]
      PROVE  CookiesHold'
  <2> DEFINE c == [cookie[w] EXCEPT !.oauth = oauth, !.token = token]
             d == [cookie[w] EXCEPT !.oauth = oauth]
  <2>1. cookie' = [cookie EXCEPT ![w] = c] \/ cookie' = [cookie EXCEPT ![w] = d]
    BY <1>7
  <2>2. CASE w \in Browsers
    <3>1. cookie[w] \in Cookies /\ cookie[w].login \in DOMAIN logins \cup {NoLogin}
      BY <1>3, <2>2 DEF CookiesHold
    <3>2. /\ c \in Cookies /\ c.login \in DOMAIN logins \cup {NoLogin}
          /\ d \in Cookies /\ d.login \in DOMAIN logins \cup {NoLogin}
      BY <3>1 DEF Cookies
    <3> HIDE DEF c, d
    <3> QED BY <1>4, <2>1, <3>2
  <2>3. CASE w \notin Browsers
    BY <1>1, <1>3, <2>1, <2>3 DEF CookiesHold
  <2> QED BY <2>2, <2>3
<1>8. CASE AnswerStart(v)
  BY <1>1, <1>2, <1>7, <1>8, LeaveStep DEF AnswerStart
<1>9. CASE AnswerCallback(v)
  <2> DEFINE w == visit[v].browser
  <2>1. cookie' = [cookie EXCEPT ![w].oauth = FALSE,
                    ![w].token = IF visit[v].who = NoAccount THEN @ ELSE visit[v].who]
    BY <1>9 DEF AnswerCallback
  <2>2. CASE visit[v].who = NoAccount
    <3>1. cookie' = [cookie EXCEPT ![w] = [cookie[w] EXCEPT !.oauth = FALSE, !.token = @]]
      BY <2>1, <2>2
    <3>2. CASE w \in Browsers
      <4> DEFINE c == [cookie[w] EXCEPT !.oauth = FALSE, !.token = @]
      <4>1. cookie[w] \in Cookies /\ cookie[w].login \in DOMAIN logins \cup {NoLogin}
        BY <1>3, <3>2 DEF CookiesHold
      <4>2. c \in Cookies /\ c.login \in DOMAIN logins \cup {NoLogin}
        BY <4>1 DEF Cookies
      <4>3. cookie' = [cookie EXCEPT ![w] = c]
        BY <3>1
      <4> HIDE DEF c
      <4> QED BY <1>1, <1>2, <1>4, <4>2, <4>3, LeaveStep
    <3>3. CASE w \notin Browsers
      <4>1. CookiesHold'
        BY <1>1, <1>3, <3>1, <3>3 DEF CookiesHold
      <4> QED BY <1>1, <1>2, <4>1, LeaveStep
    <3> QED BY <3>2, <3>3
  <2>3. CASE visit[v].who # NoAccount
    <3>1. visit[v].who \in Accounts
      BY <1>3, <2>3 DEF Visit
    <3>2. cookie' = [cookie EXCEPT ![w].oauth = FALSE, ![w].token = visit[v].who]
      BY <2>1, <2>3
    <3>3. CookiesHold'
      BY <1>7, <3>1, <3>2
    <3> QED BY <1>1, <1>2, <3>3, LeaveStep
  <2> QED BY <2>2, <2>3
<1> QED BY <1>5, <1>6, <1>8, <1>9

\* Logins end: of the account a whose password or status changes with them.
LEMMA EndedKept ==
  ASSUME IInv, NEW a, EndLogins(LoginsOf(a)), DOMAIN accounts' = DOMAIN accounts,
         \A x \in DOMAIN accounts : x # a => accounts'[x] = accounts[x]
  PROVE  LoginsKept /\ LoginsHold' /\ DOMAIN logins' = DOMAIN logins
<1>1. /\ DOMAIN logins' = DOMAIN logins /\ LoginsHold'
      /\ \A l \in DOMAIN logins : logins'[l].live => l \notin LoginsOf(a) /\ logins'[l] = logins[l]
  BY Ended DEF IInv
<1>2. \A l \in DOMAIN logins : logins[l].user \in DOMAIN accounts
  BY DEF IInv, LoginsHold
<1> QED BY <1>1, <1>2 DEF LoginsKept, LoginsOf

\* A login that is revoked, or runs out.
LEMMA OneEnded ==
  ASSUME IInv, NEW which, EndLogins(which), UNCHANGED accounts
  PROVE  /\ AccountsHold' /\ LoginsHold' /\ Grow /\ OwnersKept /\ LoginsKept
         /\ DOMAIN logins' = DOMAIN logins
<1>1. /\ DOMAIN logins' = DOMAIN logins /\ LoginsHold'
      /\ \A l \in DOMAIN logins : logins'[l].live => logins'[l] = logins[l]
  BY Ended DEF IInv
<1> QED BY <1>1 DEF IInv, AccountsHold, Grow, OwnersKept, Owners, LoginsKept

LEMMA LogoutStep ==
  ASSUME IInv, NEW v \in Visits, NEW w \in Browsers, LogoutRevoke(v, w)
  PROVE  IInv'
<1> DEFINE q == From(w, "logout", "answer")
<1>1. /\ AccountsHold' /\ LoginsHold' /\ Grow /\ OwnersKept /\ LoginsKept
  BY OneEnded DEF LogoutRevoke
<1>2. CookiesHold'
  BY <1>1, CookiesStay DEF IInv, LogoutRevoke
<1>3. q \in Visit /\ q.op = "logout" /\ q.at = "answer"
  BY FromTypes DEF IInv, Operations, Awaits
<1>4. visit' = [visit EXCEPT ![v] = q]
  BY DEF LogoutRevoke, Arrive
<1> HIDE DEF q
<1>5. Finds(q, accounts', logins')
  BY <1>3 DEF Finds
<1> QED BY <1>1, <1>2, <1>3, <1>4, <1>5, VisitStep

LEMMA ExpiryStep ==
  ASSUME IInv, NEW l, LoginExpires(l)
  PROVE  IInv'
<1>1. /\ AccountsHold' /\ LoginsHold' /\ Grow /\ OwnersKept /\ LoginsKept
      /\ UNCHANGED <<accounts, cookie, visit>> /\ DOMAIN logins' = DOMAIN logins
  BY OneEnded DEF LoginExpires
<1>2. CookiesHold' /\ LoginsFollowPassword'
  BY <1>1, CookiesStay, LoginsStay DEF IInv
<1>3. VisitsHold'
  BY <1>1 DEF IInv, VisitsHold, Finds
<1>4. OneOwnerRemains'
  BY <1>1 DEF IInv, OneOwnerRemains
<1> QED BY <1>1, <1>2, <1>3, <1>4 DEF IInv

\* A password is replaced: with a login to open, or by the owner.
LEMMA PasswordStep ==
  ASSUME IInv, NEW v \in Visits, PasswordReplace(v) \/ ResetPassword(v)
  PROVE  IInv'
<1> DEFINE a == visit[v].who
<1>1. visit[v] \in Visit /\ Finds(visit[v], accounts, logins)
  BY DEF IInv, VisitsHold
<1>2. a \in DOMAIN accounts
  BY <1>1 DEF Finds, PasswordReplace, ResetPassword, Here
<1>3. PICK must \in BOOLEAN : ReplacePassword(a, must)
  BY DEF PasswordReplace, ResetPassword
<1>4. EndLogins(LoginsOf(a)) /\ UNCHANGED cookie
  BY DEF PasswordReplace, ResetPassword
<1> HIDE DEF a
<1>5. /\ DOMAIN accounts' = DOMAIN accounts /\ AccountsHold'
      /\ \A x \in DOMAIN accounts : /\ accounts'[x].role = accounts[x].role
                                    /\ accounts'[x].status = accounts[x].status
                                    /\ x # a => accounts'[x] = accounts[x]
  BY <1>2, <1>3, Replaced DEF IInv
<1>6. LoginsKept /\ LoginsHold' /\ DOMAIN logins' = DOMAIN logins
  BY <1>4, <1>5, EndedKept
<1>7. Grow /\ OwnersKept
  BY <1>5, <1>6 DEF Grow, OwnersKept, Owners
<1>8. CookiesHold'
  BY <1>4, <1>7, CookiesStay DEF IInv
<1>9. CASE ResetPassword(v)
  BY <1>5, <1>6, <1>7, <1>8, <1>9, LeaveStep DEF ResetPassword
<1>10. CASE PasswordReplace(v)
  <2> DEFINE q == [visit[v] EXCEPT !.at = "open", !.saw = accounts[a].password + 1]
  <2>1. accounts[a].password + 1 \in Nat
    BY <1>2, AccountsAssumption DEF IInv, AccountsHold, Account
  <2>2. q \in Visit /\ q.op = visit[v].op /\ q.at = "open" /\ q.who = a
    BY <1>1, <2>1 DEF Visit, Awaits, a
  <2>3. visit' = [visit EXCEPT ![v] = q] /\ visit[v].op = "password"
    BY <1>10 DEF PasswordReplace, Here, a
  <2> HIDE DEF q
  <2>4. Finds(q, accounts', logins')
    BY <1>2, <1>5, <2>2 DEF Finds
  <2> QED BY <1>5, <1>6, <1>7, <1>8, <2>2, <2>3, <2>4, VisitStep
<1> QED BY <1>9, <1>10

\* Disabled, its logins end; activated, it had none that are live and were not late.
LEMMA StatusStep ==
  ASSUME IInv, NEW v \in Visits, SetAccountStatus(v)
  PROVE  IInv'
<1> DEFINE a == visit[v].who
           status == IF visit[v].op = "disable" THEN "disabled" ELSE "active"
<1>1. visit[v] \in Visit /\ Finds(visit[v], accounts, logins)
  BY DEF IInv, VisitsHold
<1>2. a \in DOMAIN accounts /\ accounts[a].role = "user" /\ accounts[a] \in Account
  BY <1>1 DEF Finds, SetAccountStatus, IInv, AccountsHold
<1>3. /\ accounts' = [accounts EXCEPT ![a] = [accounts[a] EXCEPT !.status = status]]
      /\ Leave(v) /\ UNCHANGED cookie
  BY DEF SetAccountStatus
<1>4. status \in {"active", "disabled"}
  OBVIOUS
<1>5. /\ [accounts[a] EXCEPT !.status = status] \in Account
      /\ [accounts[a] EXCEPT !.status = status].status = status
      /\ [accounts[a] EXCEPT !.status = status].role = accounts[a].role
      /\ [accounts[a] EXCEPT !.status = status].password = accounts[a].password
  BY <1>2, <1>4 DEF Account
<1>6. \/ visit[v].op = "disable" /\ EndLogins(LoginsOf(a))
      \/ status = "active" /\ UNCHANGED logins
  BY DEF SetAccountStatus
<1> HIDE DEF a, status
<1>7. /\ DOMAIN accounts' = DOMAIN accounts /\ AccountsHold'
      /\ \A x \in DOMAIN accounts : /\ accounts'[x].role = accounts[x].role
                                    /\ accounts'[x].password = accounts[x].password
                                    /\ x # a => accounts'[x] = accounts[x]
      /\ accounts'[a].status = status
  BY <1>2, <1>3, <1>5 DEF IInv, AccountsHold
<1>8. LoginsKept /\ LoginsHold' /\ DOMAIN logins' = DOMAIN logins
  <2>1. CASE EndLogins(LoginsOf(a))
    BY <1>7, <2>1, EndedKept
  <2>2. CASE status = "active" /\ UNCHANGED logins
    <3>1. LoginsHold'
      BY <1>7, <2>2 DEF IInv, LoginsHold
    <3>2. \A l \in DOMAIN logins : logins[l].user \in DOMAIN accounts
      BY DEF IInv, LoginsHold
    <3>3. \A l \in DOMAIN logins : logins[l].live /\ ~logins[l].late =>
             accounts[logins[l].user].status = "active"
      BY DEF IInv, LoginsFollowPassword
    <3> QED BY <1>7, <2>2, <3>1, <3>2, <3>3 DEF LoginsKept
  <2> QED BY <1>6, <2>1, <2>2
<1>9. Grow /\ OwnersKept
  BY <1>2, <1>7, <1>8 DEF Grow, OwnersKept, Owners
<1>10. CookiesHold'
  BY <1>3, <1>9, CookiesStay DEF IInv
<1> QED BY <1>3, <1>7, <1>8, <1>9, <1>10, LeaveStep

\* What a new account leaves to the logins.
LEMMA AddedKept ==
  ASSUME IInv, NEW a \in Accounts, a \notin DOMAIN accounts,
         NEW role \in {"instance_owner", "user"}, Holds(a, NewAccount(role)), UNCHANGED logins
  PROVE  AccountsHold' /\ LoginsHold' /\ LoginsKept /\ Grow
<1>1. /\ DOMAIN accounts' = DOMAIN accounts \cup {a} /\ AccountsHold'
      /\ \A x \in DOMAIN accounts : accounts'[x] = accounts[x]
  BY Added DEF IInv
<1>2. LoginsHold' /\ LoginsKept
  BY <1>1 DEF IInv, LoginsHold, LoginsKept
<1>3. Grow
  BY <1>1 DEF Grow
<1> QED BY <1>1, <1>2, <1>3

\* A user account, unless another request created it first.
LEMMA CreateStep ==
  ASSUME IInv, NEW v \in Visits, CreateUser(v)
  PROVE  IInv'
<1> DEFINE a == visit[v].who
<1>1. UNCHANGED <<logins, cookie>> /\ Leave(v)
  BY DEF CreateUser
<1>2. CASE a \in DOMAIN accounts
  <2>1. UNCHANGED accounts
    BY <1>2 DEF CreateUser
  <2>2. Grow /\ OwnersKept /\ LoginsKept /\ AccountsHold' /\ LoginsHold'
    BY <1>1, <2>1 DEF Grow, OwnersKept, Owners, LoginsKept, IInv, AccountsHold, LoginsHold
  <2>3. CookiesHold'
    BY <1>1, <2>2, CookiesStay DEF IInv
  <2> QED BY <1>1, <2>2, <2>3, LeaveStep
<1>3. CASE a \notin DOMAIN accounts
  <2>1. a \in Accounts
    BY DEF IInv, VisitsHold, Finds, CreateUser, Here
  <2>2. Holds(a, NewAccount("user"))
    BY <1>3 DEF CreateUser
  <2> HIDE DEF a
  <2>3. AccountsHold' /\ LoginsHold' /\ LoginsKept /\ Grow
    BY <1>1, <1>3, <2>1, <2>2, AddedKept
  <2>4. OwnersKept
    BY <1>3, <2>1, <2>2, Added DEF IInv, OwnersKept, Owners
  <2>5. CookiesHold'
    BY <1>1, <2>3, CookiesStay DEF IInv
  <2> QED BY <1>1, <2>3, <2>4, <2>5, LeaveStep
<1> QED BY <1>2, <1>3

\* The owner: the unique index lets only the first setup through, and then no other
\* setup has an account to open a login for.
LEMMA SetupStep ==
  ASSUME IInv, NEW v \in Visits, NEW a \in Accounts, SetupCreate(v, a)
  PROVE  IInv'
<1>1. UNCHANGED <<logins, cookie>>
  BY DEF SetupCreate
<1>2. CASE \A x \in DOMAIN accounts : accounts[x].role # "instance_owner"
  <2> DEFINE q == [visit[v] EXCEPT !.at = "open", !.who = a, !.saw = 1]
  <2>1. a \notin DOMAIN accounts /\ Holds(a, NewAccount("instance_owner")) /\ visit[v].op = "setup"
    BY <1>2 DEF SetupCreate, Here
  <2>2. AccountsHold' /\ LoginsHold' /\ LoginsKept /\ Grow
    BY <1>1, <2>1, AddedKept
  <2>3. /\ DOMAIN accounts' = DOMAIN accounts \cup {a}
        /\ accounts'[a].role = "instance_owner" /\ accounts'[a].status = "active"
        /\ \A x \in DOMAIN accounts : accounts'[x] = accounts[x]
    BY <2>1, Added DEF IInv
  <2>4. visit[v] \in Visit
    BY DEF IInv, VisitsHold
  <2>5. q \in Visit /\ q.op = "setup" /\ q.at = "open" /\ q.who = a
    BY <2>1, <2>4 DEF Visit, Awaits
  <2>6. visit' = [visit EXCEPT ![v] = q]
    BY <1>2 DEF SetupCreate
  <2> HIDE DEF q
  <2>7. VisitsHold'
    <3>1. Finds(q, accounts', logins')
      BY <2>3, <2>5 DEF Finds
    <3> QED BY <2>2, <2>5, <2>6, <3>1, OneVisit DEF IInv
  <2>8. Owners = {} /\ Owners' = {a}
    BY <1>2, <2>3 DEF Owners
  <2>9. \A x \in Visits : visit'[x] = IF x = v THEN q ELSE visit[x]
    BY <2>6 DEF IInv, VisitsHold
  <2>10. OneOwnerRemains'
    BY <2>3, <2>5, <2>8, <2>9, OwnersAre, OwnersWillBe DEF IInv
  <2>11. CookiesHold' /\ LoginsFollowPassword'
    BY <1>1, <2>2, CookiesStay, LoginsStay DEF IInv
  <2> QED BY <2>2, <2>7, <2>10, <2>11 DEF IInv
<1>3. CASE ~(\A x \in DOMAIN accounts : accounts[x].role # "instance_owner")
  <2>1. UNCHANGED accounts /\ Leave(v)
    BY <1>3 DEF SetupCreate
  <2>2. Grow /\ OwnersKept /\ LoginsKept /\ AccountsHold' /\ LoginsHold'
    BY <1>1, <2>1 DEF Grow, OwnersKept, Owners, LoginsKept, IInv, AccountsHold, LoginsHold
  <2>3. CookiesHold'
    BY <1>1, <2>2, CookiesStay DEF IInv
  <2> QED BY <2>1, <2>2, <2>3, LeaveStep
<1> QED BY <1>2, <1>3

\* A login is opened with the password the request saw; it is late if that is replaced by now.
LEMMA OpenStep ==
  ASSUME IInv, NEW v \in Visits, NEW l \in Logins, Open(v, l)
  PROVE  IInv'
<1> DEFINE q == [visit[v] EXCEPT !.at = "answer", !.new = l]
           a == visit[v].who
           n == [user |-> a, password |-> visit[v].saw, live |-> TRUE,
                 late |-> accounts[a].password # visit[v].saw \/ accounts[a].status # "active"]
<1>1. visit[v] \in Visit /\ Finds(visit[v], accounts, logins)
  BY DEF IInv, VisitsHold
<1>2. a \in DOMAIN accounts /\ a \in Accounts
  BY <1>1 DEF Open, Finds, IInv, AccountsHold
<1>3. /\ l \notin DOMAIN logins /\ logins' = [x \in DOMAIN logins \cup {l} |-> IF x = l THEN n ELSE logins[x]]
      /\ UNCHANGED <<accounts, cookie>>
  BY DEF Open, OpenLogin
<1>4. n \in Login /\ n.user = a
  BY <1>1, <1>2 DEF Login, Visit
<1>5. ~n.late => n.password = accounts[n.user].password /\ accounts[n.user].status = "active"
  OBVIOUS
<1>6. q \in Visit /\ q.at = "answer" /\ q.new = l
  BY <1>1 DEF Visit, Awaits
<1>7. visit' = [visit EXCEPT ![v] = q]
  BY DEF Open
<1> HIDE DEF q, n, a
<1>8. DOMAIN logins' = DOMAIN logins \cup {l} /\ logins'[l] = n /\ \A x \in DOMAIN logins : logins'[x] = logins[x]
  BY <1>3
<1>9. LoginsHold' /\ AccountsHold' /\ Grow /\ OwnersKept
  BY <1>2, <1>3, <1>4, <1>8 DEF IInv, LoginsHold, AccountsHold, Grow, OwnersKept, Owners
<1>10. LoginsFollowPassword'
  BY <1>3, <1>5, <1>8 DEF IInv, LoginsFollowPassword
<1>11. Finds(q, accounts', logins')
  BY <1>6, <1>8 DEF Finds
<1>12. CookiesHold' /\ VisitsHold' /\ OneOwnerRemains'
  BY <1>3, <1>6, <1>7, <1>9, <1>11, CookiesStay, OneVisit, OwnersStay DEF IInv
<1> QED BY <1>9, <1>10, <1>12 DEF IInv

\* The GitHub connection is the account's, not its password's.
LEMMA LinkStep ==
  ASSUME IInv, NEW v \in Visits, CallbackLink(v)
  PROVE  IInv'
<1> DEFINE a == CurrentOwner(visit[v].sent)
           q == [visit[v] EXCEPT !.at = "answer", !.who = a]
<1>1. a = NoAccount \/ a \in DOMAIN accounts
  BY DEF CurrentOwner, IInv, LoginsHold
<1>2. /\ visit[v].op = "callback" /\ visit' = [visit EXCEPT ![v] = q] /\ UNCHANGED <<logins, cookie>>
      /\ accounts' = IF a = NoAccount THEN accounts ELSE [accounts EXCEPT ![a].github = TRUE]
  BY DEF CallbackLink, Here
<1> HIDE DEF a
<1>3. visit[v] \in Visit /\ AccountsHold
  BY DEF IInv, VisitsHold
<1>4. q \in Visit /\ q.op = "callback" /\ q.at = "answer"
  BY <1>1, <1>2, <1>3 DEF Visit, Awaits, AccountsHold
<1> HIDE DEF q
<1>5. /\ DOMAIN accounts' = DOMAIN accounts /\ AccountsHold'
      /\ \A x \in DOMAIN accounts : /\ accounts'[x].role = accounts[x].role
                                    /\ accounts'[x].status = accounts[x].status
                                    /\ accounts'[x].password = accounts[x].password
  <2>1. CASE a = NoAccount
    BY <1>2, <1>3, <2>1 DEF AccountsHold
  <2>2. CASE a # NoAccount
    <3>1. accounts[a] \in Account /\ accounts' = [accounts EXCEPT ![a] = [accounts[a] EXCEPT !.github = TRUE]]
      BY <1>1, <1>2, <1>3, <2>2 DEF AccountsHold
    <3>2. /\ [accounts[a] EXCEPT !.github = TRUE] \in Account
          /\ [accounts[a] EXCEPT !.github = TRUE].role = accounts[a].role
          /\ [accounts[a] EXCEPT !.github = TRUE].status = accounts[a].status
          /\ [accounts[a] EXCEPT !.github = TRUE].password = accounts[a].password
      BY <3>1 DEF Account
    <3> QED BY <1>3, <3>1, <3>2 DEF AccountsHold
  <2> QED BY <2>1, <2>2
<1>6. \A l \in DOMAIN logins : logins[l].user \in DOMAIN accounts
  BY DEF IInv, LoginsHold
<1>7. LoginsHold' /\ LoginsKept /\ Grow /\ OwnersKept
  BY <1>2, <1>5, <1>6 DEF IInv, LoginsHold, LoginsKept, Grow, OwnersKept, Owners
<1>8. CookiesHold' /\ Finds(q, accounts', logins')
  BY <1>2, <1>4, <1>7, CookiesStay DEF IInv, Finds
<1> QED BY <1>2, <1>4, <1>5, <1>7, <1>8, VisitStep

-----------------------------------------------------------------------------
(* The theorems.                                                           *)

LEMMA IInvInit == AccountsInit => IInv
<1> SUFFICES ASSUME AccountsInit PROVE IInv
  OBVIOUS
<1>1. NoCookies \in Cookies /\ NoCookies.login = NoLogin
  BY DEF NoCookies, Cookies
<1>2. DOMAIN accounts = {} /\ DOMAIN logins = {}
  BY DEF AccountsInit
<1>3. NoVisit.op = "none"
  BY DEF NoVisit
<1>4. CookiesHold
  BY <1>1 DEF AccountsInit, CookiesHold
<1>5. VisitsHold
  BY NoVisitFinds DEF AccountsInit, VisitsHold
<1>6. OneOwnerRemains
  BY <1>2, <1>3 DEF AccountsInit, OneOwnerRemains
<1> QED BY <1>2, <1>4, <1>5, <1>6 DEF IInv, AccountsHold, LoginsHold, LoginsFollowPassword

LEMMA IInvStep == IInv /\ [AccountsNext]_accountVars => IInv'
<1> SUFFICES ASSUME IInv, [AccountsNext]_accountVars PROVE IInv'
  OBVIOUS
<1>1. CASE UNCHANGED accountVars
  BY <1>1 DEF accountVars, IInv, AccountsHold, LoginsHold, CookiesHold, VisitsHold, Finds,
              LoginsFollowPassword, OneOwnerRemains
<1>2. ASSUME NEW l \in Logins, LoginExpires(l) PROVE IInv'
  BY <1>2, ExpiryStep
<1>3. ASSUME NEW v \in Visits, NEW w \in Browsers,
             \/ SetupRead(v, w) \/ LogoutRevoke(v, w) \/ PasswordRead(v, w)
             \/ ConnectStart(v, w) \/ Callback(v, w)
             \/ \E a \in Accounts : LoginRead(v, w, a)
             \/ \E a \in Accounts, op \in {"create", "reset", "disable", "activate"} : ManageRead(v, w, op, a)
      PROVE  IInv'
  BY <1>3, ReadStep, LogoutStep
<1>4. ASSUME NEW v \in Visits,
             \/ \E a \in Accounts : SetupCreate(v, a)
             \/ \E l \in Logins : Open(v, l)
             \/ LoginVerify(v) \/ AnswerLogin(v) \/ AnswerLogout(v)
             \/ PasswordVerify(v) \/ PasswordReplace(v)
             \/ CreateUser(v) \/ ResetPassword(v) \/ SetAccountStatus(v)
             \/ AnswerStart(v) \/ CallbackLink(v) \/ AnswerCallback(v) \/ VisitFails(v)
      PROVE  IInv'
  BY <1>4, SetupStep, OpenStep, VerifyStep, AnswerStep, PasswordStep, CreateStep, StatusStep, LinkStep
<1> QED BY <1>1, <1>2, <1>3, <1>4 DEF AccountsNext

\* The invariant holds whatever requests cross.
THEOREM AccountsHoldAlways == AccountsSpec => []IInv
  BY IInvInit, IInvStep, PTL DEF AccountsSpec

\* For any number of crossing requests: a login that is live, and was not late, was
\* opened with the account's present password, and the account is active.
THEOREM LoginsEndWithPassword == AccountsSpec => []LoginsFollowPassword
<1>1. IInv => LoginsFollowPassword
  BY DEF IInv
<1> QED BY <1>1, AccountsHoldAlways, PTL

\* Whatever setups cross and whatever is done to accounts, there is one instance
\* owner, who is active, and only the request that created it opens its first login.
THEOREM OwnerIsOne == AccountsSpec => []OneOwnerRemains
<1>1. IInv => OneOwnerRemains
  BY DEF IInv
<1> QED BY <1>1, AccountsHoldAlways, PTL

-----------------------------------------------------------------------------
(* The repositories the members connect.                                   *)

RepoOperations == {"none", "connect", "disconnect", "scan"}
RepoAwaits == {"none", "choose", "save", "promote", "github", "write"}
RepoRequest == [op: RepoOperations, at: RepoAwaits, u: Members \cup {Default},
                id: RecordIds \cup {<<Instance, Default>>}, github: Nat, was: BOOLEAN,
                next: SUBSET RecordIds]

RecordsHold ==
  /\ DOMAIN records \subseteq RecordIds
  /\ \A id \in DOMAIN records : records[id] \in [by: Members, fresh: BOOLEAN]
  /\ \A u \in Members : <<Instance, u>> \in DOMAIN records => records[<<Instance, u>>].by = u
  /\ inUse \subseteq DOMAIN records /\ crossed \subseteq Members

SelectionsHold ==
  /\ DOMAIN selections \subseteq Members \X DOMAIN records
  /\ \A x \in DOMAIN selections : selections[x] \in [active: BOOLEAN, github: Nat]

StepsHold ==
  /\ step \in [RepoRequests -> RepoRequest] /\ identity \in [Members -> Nat]
  /\ \A r \in RepoRequests : step[r].op = "connect" =>
       step[r].u \in Members /\ step[r].id \in RecordIds /\ step[r].id[1] \in GitHubRepos
  /\ \A r \in RepoRequests : step[r].op = "disconnect" => step[r].u \in Members

\* A disconnection of the member is about to delete the selection.
Disconnects(r, u) == step[r].u = u /\ Doing(r, "disconnect", "promote")

\* What a member who is not crossed has selected is the member's own, one of it active.
OwnSelected(u) == \A x \in SelectionsOf(u) : records[x[2]].by = u
OneActive(u) ==
  SelectionsOf(u) # {} =>
    \E id \in ActiveRepository(u) : \A x \in SelectionsOf(u) : selections[x].active <=> x = <<u, id>>

\* What a disconnection read is so still: the active selection goes only if it
\* is the last one or another one is to take its place.
Agreed(r, u) ==
  IF step[r].next = {}
    THEN <<u, step[r].id>> \in DOMAIN selections /\ selections[<<u, step[r].id>>].active
           => SelectionsOf(u) = {<<u, step[r].id>>}
    ELSE /\ \E id \in RecordIds : id # step[r].id /\ step[r].next = {id}
         /\ <<u, step[r].id>> \in DOMAIN selections /\ selections[<<u, step[r].id>>].active

\* No two disconnections delete the same selection.
Apart(r, u) == \A o \in RepoRequests : o # r /\ Disconnects(o, u) => step[o].id # step[r].id

MemberInv(u) ==
  /\ OwnSelected(u) /\ OneActive(u)
  /\ \A r \in RepoRequests : Disconnects(r, u) => Agreed(r, u) /\ Apart(r, u)

ReposInv == /\ RecordsHold /\ SelectionsHold /\ StepsHold
            /\ \A u \in Members \ crossed : MemberInv(u)

LEMMA WaitingTypes ==
  /\ Waiting \in RepoRequest /\ Waiting.op = "none" /\ Waiting.u = Default
  /\ Waiting.at = "none"
  BY DEF Waiting, RepoRequest, RepoOperations, RepoAwaits

LEMMA ReposInit == RepositoriesInit => ReposInv
<1> SUFFICES ASSUME RepositoriesInit PROVE ReposInv
  OBVIOUS
<1>1. DOMAIN records = {} /\ DOMAIN selections = {} /\ inUse = {} /\ crossed = {}
  BY DEF RepositoriesInit
<1>2. \A r \in RepoRequests : step[r] = Waiting
  BY DEF RepositoriesInit
<1>3. step \in [RepoRequests -> RepoRequest] /\ identity \in [Members -> Nat]
  BY WaitingTypes DEF RepositoriesInit
<1>4. StepsHold
  BY <1>2, <1>3, WaitingTypes DEF StepsHold
<1>5. \A u \in Members : SelectionsOf(u) = {}
  BY <1>1 DEF SelectionsOf
<1>6. \A u \in Members : MemberInv(u)
  BY <1>2, <1>5, WaitingTypes DEF MemberInv, OwnSelected, OneActive, Disconnects, Doing
<1> QED BY <1>1, <1>4, <1>6 DEF ReposInv, RecordsHold, SelectionsHold

\* A member whose selections and disconnections stay keeps what holds of them.
LEMMA Untouched ==
  ASSUME NEW u \in Members, MemberInv(u), SelectionsHold,
         SelectionsOf(u)' = SelectionsOf(u),
         \A x \in SelectionsOf(u) : /\ selections'[x] = selections[x]
                                    /\ x[2] \in DOMAIN records' /\ records'[x[2]].by = records[x[2]].by,
         \A r \in RepoRequests : Disconnects(r, u)' => Disconnects(r, u) /\ step'[r] = step[r]
  PROVE  MemberInv(u)'
<1> DEFINE S == SelectionsOf(u)
<1>1. \A id : <<u, id>> \in DOMAIN selections <=> <<u, id>> \in S
  BY DEF SelectionsOf
<1>2. \A id : <<u, id>> \in DOMAIN selections' <=> <<u, id>> \in S
  BY DEF SelectionsOf
<1>3. OwnSelected(u)'
  BY DEF MemberInv, OwnSelected
<1>4. OneActive(u)'
  <2> SUFFICES ASSUME S # {} PROVE OneActive(u)'
    BY DEF OneActive
  <2>1. PICK id \in ActiveRepository(u) : \A x \in S : selections[x].active <=> x = <<u, id>>
    BY DEF MemberInv, OneActive
  <2>2. <<u, id>> \in S /\ selections[<<u, id>>].active /\ records[id].by = u
    BY <2>1, <1>1 DEF ActiveRepository
  <2>3. id \in ActiveRepository(u)'
    BY <2>2, <1>2 DEF ActiveRepository
  <2> QED BY <2>1, <2>3 DEF OneActive
<1>5. ASSUME NEW r \in RepoRequests, Disconnects(r, u)' PROVE Agreed(r, u)' /\ Apart(r, u)'
  <2>1. Agreed(r, u) /\ Apart(r, u) /\ step'[r] = step[r]
    BY <1>5 DEF MemberInv
  <2>2. Apart(r, u)'
    BY <2>1 DEF Apart
  <2>3. Agreed(r, u)'
    BY <2>1, <1>1, <1>2 DEF Agreed
  <2> QED BY <2>2, <2>3
<1> QED BY <1>3, <1>4, <1>5 DEF MemberInv

\* One request changes.
LEMMA OneRequest ==
  ASSUME StepsHold, NEW r \in RepoRequests, NEW q \in RepoRequest, step' = [step EXCEPT ![r] = q],
         identity' \in [Members -> Nat], q.op \in {"connect", "disconnect"} => q.u \in Members,
         q.op = "connect" => q.id \in RecordIds /\ q.id[1] \in GitHubRepos
  PROVE  StepsHold' /\ step'[r] = q /\ \A o \in RepoRequests : o # r => step'[o] = step[o]
<1>1. step'[r] = q /\ \A o \in RepoRequests : o # r => step'[o] = step[o]
  BY DEF StepsHold
<1>2. step' \in [RepoRequests -> RepoRequest]
  BY DEF StepsHold
<1>3. \A o \in RepoRequests : step'[o].op = "connect" =>
        step'[o].u \in Members /\ step'[o].id \in RecordIds /\ step'[o].id[1] \in GitHubRepos
  BY <1>1 DEF StepsHold
<1>4. \A o \in RepoRequests : step'[o].op = "disconnect" => step'[o].u \in Members
  BY <1>1 DEF StepsHold
<1> QED BY <1>1, <1>2, <1>3, <1>4 DEF StepsHold

\* A step that changes no selection and starts no disconnection.
LEMMA SameChoice ==
  ASSUME ReposInv, UNCHANGED <<selections, crossed>>, DOMAIN records' = DOMAIN records,
         \A id \in DOMAIN records : records'[id] \in [by: Members, fresh: BOOLEAN]
                                    /\ records'[id].by = records[id].by,
         inUse' \subseteq DOMAIN records, StepsHold',
         \A r \in RepoRequests : Doing(r, "disconnect", "promote")' => step'[r] = step[r]
  PROVE  ReposInv'
<1>1. RecordsHold'
  BY DEF ReposInv, RecordsHold
<1>2. SelectionsHold'
  BY DEF ReposInv, SelectionsHold
<1>3. ASSUME NEW u \in Members \ crossed PROVE MemberInv(u)'
  <2>1. SelectionsOf(u)' = SelectionsOf(u)
    BY DEF SelectionsOf
  <2>2. \A x \in SelectionsOf(u) : x[2] \in DOMAIN records
    BY DEF SelectionsOf, ReposInv, SelectionsHold
  <2>3. \A r \in RepoRequests : Disconnects(r, u)' => Disconnects(r, u) /\ step'[r] = step[r]
    BY DEF Disconnects, Doing
  <2> QED BY <2>1, <2>2, <2>3, Untouched DEF ReposInv
<1> QED BY <1>1, <1>2, <1>3 DEF ReposInv

\* The ids a connection names.
LEMMA RecordIdsOf ==
  ASSUME NEW g \in GitHubRepos, NEW u \in Members
  PROVE  /\ <<g, Default>> \in RecordIds /\ <<g, u>> \in RecordIds /\ <<Instance, u>> \in RecordIds
         /\ <<g, Default>>[1] = g /\ <<g, u>>[1] = g
  BY DEF RecordIds

LEMMA ConnectingStep ==
  ASSUME ReposInv, NEW r \in RepoRequests,
         \/ \E u \in Members, g \in GitHubRepos : ConnectRead(r, u, g)
         \/ \E u \in Members : ListDrawings(r, u)
         \/ \E u \in Members, id \in RecordIds : ScanRead(r, u, id)
  PROVE  ReposInv'
<1>1. PICK q \in RepoRequest : /\ step' = [step EXCEPT ![r] = q] /\ q.op \in {"connect", "scan"}
                               /\ q.op = "connect" => q.u \in Members /\ q.id \in RecordIds /\ q.id[1] \in GitHubRepos
  <2>1. ASSUME NEW u \in Members, NEW g \in GitHubRepos,
               step' = [step EXCEPT ![r] = [Waiting EXCEPT !.op = "connect", !.at = "choose", !.u = u,
                                              !.id = <<g, Default>>, !.github = identity[u]]]
        PROVE  \E q \in RepoRequest :
                 /\ step' = [step EXCEPT ![r] = q] /\ q.op \in {"connect", "scan"}
                 /\ q.op = "connect" => q.u \in Members /\ q.id \in RecordIds /\ q.id[1] \in GitHubRepos
    <3>1. identity[u] \in Nat
      BY DEF ReposInv, StepsHold
    <3> DEFINE q == [Waiting EXCEPT !.op = "connect", !.at = "choose", !.u = u,
                                    !.id = <<g, Default>>, !.github = identity[u]]
    <3>2. "connect" \in RepoOperations /\ "choose" \in RepoAwaits /\ <<g, Default>> \in RecordIds
      BY RecordIdsOf DEF RepoOperations, RepoAwaits
    <3>3. q \in RepoRequest /\ q.op = "connect" /\ q.u = u /\ q.id = <<g, Default>>
      BY <3>1, <3>2, WaitingTypes DEF RepoRequest
    <3>4. step' = [step EXCEPT ![r] = q]
      BY <2>1
    <3> HIDE DEF q
    <3> QED BY <3>3, <3>4, RecordIdsOf
  <2>2. CASE \E u \in Members, g \in GitHubRepos : ConnectRead(r, u, g)
    BY <2>1, <2>2 DEF ConnectRead, Take
  <2>3. ASSUME NEW u \in Members, ListDrawings(r, u)
        PROVE  \E g \in GitHubRepos :
                 step' = [step EXCEPT ![r] = [Waiting EXCEPT !.op = "connect", !.at = "choose", !.u = u,
                                                !.id = <<g, Default>>, !.github = identity[u]]]
    <3>1. PICK id \in ActiveRepository(u) : id[1] # Instance /\
            step' = [step EXCEPT ![r] = [Waiting EXCEPT !.op = "connect", !.at = "choose", !.u = u,
                                                !.id = <<id[1], Default>>, !.github = identity[u]]]
      BY <2>3 DEF ListDrawings, Take
    <3>2. id \in RecordIds
      BY DEF ActiveRepository, ReposInv, RecordsHold
    <3>3. id[1] \in GitHubRepos
      BY <3>1, <3>2 DEF RecordIds
    <3> QED BY <3>1, <3>3
  <2>4. ASSUME NEW u \in Members, NEW id \in RecordIds, ScanRead(r, u, id)
        PROVE  \E q \in RepoRequest : step' = [step EXCEPT ![r] = q] /\ q.op = "scan"
    <3> DEFINE q == [Waiting EXCEPT !.op = "scan", !.at = "github", !.u = u, !.id = id]
    <3>1. "scan" \in RepoOperations /\ "github" \in RepoAwaits
      BY DEF RepoOperations, RepoAwaits
    <3>2. q \in RepoRequest /\ q.op = "scan"
      BY <3>1, WaitingTypes DEF RepoRequest
    <3>3. step' = [step EXCEPT ![r] = q]
      BY <2>4 DEF ScanRead, Take
    <3> HIDE DEF q
    <3> QED BY <3>2, <3>3
  <2> QED BY <2>1, <2>2, <2>3, <2>4
<1>2. UNCHANGED <<records, selections, identity, inUse, crossed>>
  BY DEF ConnectRead, ListDrawings, ScanRead
<1>3. StepsHold' /\ step'[r] = q /\ \A o \in RepoRequests : o # r => step'[o] = step[o]
  <2>1. q.op # "disconnect"
    BY <1>1
  <2> QED BY <1>1, <1>2, <2>1, OneRequest DEF ReposInv, StepsHold
<1>4. \A o \in RepoRequests : Doing(o, "disconnect", "promote")' => step'[o] = step[o]
  BY <1>1, <1>3 DEF Doing
<1> QED BY <1>2, <1>3, <1>4, SameChoice DEF ReposInv, RecordsHold

\* The id a connection is to be saved under.
LEMMA ChooseStep ==
  ASSUME ReposInv, NEW r \in RepoRequests, ConnectChoose(r)
  PROVE  ReposInv'
<1> DEFINE u == step[r].u
           g == step[r].id[1]
           own == {id \in DOMAIN records : id[1] = g /\ records[id].by = u}
           new == IF own # {} THEN CHOOSE id \in own : TRUE
                  ELSE IF <<g, Default>> \notin DOMAIN records THEN <<g, Default>> ELSE <<g, u>>
           q == [step[r] EXCEPT !.at = "save", !.id = new]
<1>1. step[r].op = "connect" /\ step[r] \in RepoRequest /\ u \in Members /\ g \in GitHubRepos
  BY DEF ConnectChoose, Doing, ReposInv, StepsHold
<1>2. UNCHANGED <<records, selections, identity, inUse, crossed>>
  BY DEF ConnectChoose
<1>3. step' = [step EXCEPT ![r].at = "save", ![r].id = new]
  BY DEF ConnectChoose
<1>4. new \in RecordIds /\ new[1] = g
  <2>1. own # {} => (CHOOSE id \in own : TRUE) \in own
    OBVIOUS
  <2>2. own \subseteq RecordIds
    BY DEF ReposInv, RecordsHold
  <2>3. own # {} => new \in own
    BY <2>1
  <2>4. own = {} => new \in {<<g, Default>>, <<g, u>>}
    OBVIOUS
  <2> QED BY <1>1, <2>2, <2>3, <2>4, RecordIdsOf
<1> HIDE DEF new
<1>5. q \in RepoRequest /\ q.op = "connect" /\ q.u = u /\ q.id = new
  BY <1>1, <1>4 DEF RepoRequest, RepoAwaits
<1>6. step' = [step EXCEPT ![r] = q]
  BY <1>1, <1>3 DEF ReposInv, StepsHold, RepoRequest
<1> HIDE DEF q
<1>7. StepsHold' /\ step'[r] = q /\ \A o \in RepoRequests : o # r => step'[o] = step[o]
  BY <1>1, <1>2, <1>4, <1>5, <1>6, OneRequest DEF ReposInv, StepsHold
<1>8. \A o \in RepoRequests : Doing(o, "disconnect", "promote")' => step'[o] = step[o]
  BY <1>5, <1>7 DEF Doing
<1> QED BY <1>2, <1>7, <1>8, SameChoice DEF ReposInv, RecordsHold

\* Scans, failures and what happens elsewhere.
LEMMA AsideStep ==
  ASSUME ReposInv,
         \/ \E r \in RepoRequests : ScanAnswered(r) \/ ScanWrite(r) \/ RequestFails(r)
         \/ \E u \in Members : Relink(u)
         \/ \E id \in RecordIds : Outdate(id) \/ Depend(id)
  PROVE  ReposInv'
<1>1. UNCHANGED <<selections, crossed>>
  BY DEF ScanAnswered, ScanWrite, RequestFails, Relink, Outdate, Depend
<1>2. inUse' \subseteq DOMAIN records
  BY DEF ScanAnswered, ScanWrite, RequestFails, Relink, Outdate, Depend, ReposInv, RecordsHold
<1>3. /\ DOMAIN records' = DOMAIN records
      /\ \A id \in DOMAIN records : records'[id] \in [by: Members, fresh: BOOLEAN]
                                    /\ records'[id].by = records[id].by
  <2>1. \/ records' = records
        \/ \E id \in DOMAIN records, b \in BOOLEAN : records' = [records EXCEPT ![id].fresh = b]
    BY DEF ScanAnswered, ScanWrite, RequestFails, Relink, Outdate, Depend, Owned
  <2>2. \A id \in DOMAIN records : records[id] \in [by: Members, fresh: BOOLEAN]
    BY DEF ReposInv, RecordsHold
  <2> QED BY <2>1, <2>2
<1>4. CASE UNCHANGED step
  <2>1. UNCHANGED identity \/ \E u \in Members : identity' = [identity EXCEPT ![u] = @ + 1]
    BY DEF ScanAnswered, ScanWrite, RequestFails, Relink, Outdate, Depend
  <2>3. identity' \in [Members -> Nat]
    BY <2>1 DEF ReposInv, StepsHold
  <2>2. StepsHold'
    BY <1>4, <2>3 DEF ReposInv, StepsHold
  <2> QED BY <1>1, <1>2, <1>3, <1>4, <2>2, SameChoice
<1>5. ASSUME NEW r \in RepoRequests, ScanAnswered(r) \/ ScanWrite(r) \/ RequestFails(r)
      PROVE  ReposInv'
  <2>1. PICK q \in RepoRequest : step' = [step EXCEPT ![r] = q] /\ q.op \in {"scan", "none"}
    <3>1. CASE ScanAnswered(r)
      <4>1. [step[r] EXCEPT !.at = "write"] \in RepoRequest
            /\ [step[r] EXCEPT !.at = "write"].op = "scan"
        BY <3>1 DEF ScanAnswered, Doing, ReposInv, StepsHold, RepoRequest, RepoAwaits
      <4>2. step' = [step EXCEPT ![r] = [step[r] EXCEPT !.at = "write"]]
        BY <3>1 DEF ScanAnswered, ReposInv, StepsHold
      <4> QED BY <4>1, <4>2
    <3>2. CASE ScanWrite(r) \/ RequestFails(r)
      BY <3>2, WaitingTypes DEF ScanWrite, RequestFails, Done
    <3> QED BY <1>5, <3>1, <3>2
  <2>2. UNCHANGED identity
    BY <1>5 DEF ScanAnswered, ScanWrite, RequestFails
  <2>3. q.op \notin {"connect", "disconnect"}
    BY <2>1
  <2>4. StepsHold' /\ step'[r] = q /\ \A o \in RepoRequests : o # r => step'[o] = step[o]
    BY <2>1, <2>2, <2>3, OneRequest DEF ReposInv, StepsHold
  <2>5. \A o \in RepoRequests : Doing(o, "disconnect", "promote")' => step'[o] = step[o]
    BY <2>3, <2>4 DEF Doing
  <2> QED BY <1>1, <1>2, <1>3, <2>4, <2>5, SameChoice
<1>6. (\E r \in RepoRequests : ScanAnswered(r) \/ ScanWrite(r) \/ RequestFails(r)) \/ UNCHANGED step
  BY DEF Relink, Outdate, Depend
<1> QED BY <1>4, <1>5, <1>6

\* Activate: the member's only active selection.
LEMMA Activated ==
  ASSUME SelectionsHold, NEW v \in Members, NEW id, NEW new \in [active: BOOLEAN, github: Nat],
         new.active, Activate(v, <<v, id>>, new)
  PROVE  /\ DOMAIN selections' = DOMAIN selections \cup {<<v, id>>}
         /\ \A x \in DOMAIN selections' : selections'[x] \in [active: BOOLEAN, github: Nat]
         /\ \A u \in Members : u # v => SelectionsOf(u)' = SelectionsOf(u)
         /\ \A u \in Members : u # v => \A x \in SelectionsOf(u) : selections'[x] = selections[x]
         /\ \A x \in SelectionsOf(v)' : selections'[x].active <=> x = <<v, id>>
         /\ \A x \in SelectionsOf(v)' : x \in SelectionsOf(v) \/ x = <<v, id>>
         /\ <<v, id>> \in DOMAIN selections' /\ selections'[<<v, id>>].active
<1>1. selections' = [y \in DOMAIN selections \cup {<<v, id>>} |->
        IF y = <<v, id>> THEN new
        ELSE IF y[1] = v THEN [selections[y] EXCEPT !.active = FALSE] ELSE selections[y]]
  BY DEF Activate
<1>2. \A y \in DOMAIN selections : /\ selections[y] \in [active: BOOLEAN, github: Nat]
                                   /\ [selections[y] EXCEPT !.active = FALSE] \in [active: BOOLEAN, github: Nat]
                                   /\ [selections[y] EXCEPT !.active = FALSE].active = FALSE
  BY DEF SelectionsHold
<1>3. DOMAIN selections' = DOMAIN selections \cup {<<v, id>>}
  BY <1>1
<1>4. \A u : SelectionsOf(u)' = {x \in DOMAIN selections \cup {<<v, id>>} : x[1] = u}
  BY <1>3 DEF SelectionsOf
<1>5. <<v, id>>[1] = v
  OBVIOUS
<1> QED BY <1>1, <1>2, <1>3, <1>4, <1>5 DEF SelectionsOf

\* The invariant after a selection was activated, unless the member is crossed.
LEMMA ActivatedHolds ==
  ASSUME ReposInv, NEW v \in Members, NEW id \in DOMAIN records',
         NEW new \in [active: BOOLEAN, github: Nat], new.active,
         Activate(v, <<v, id>>, new), ~Locked(v), RecordsHold', StepsHold', crossed \subseteq crossed',
         \A x \in DOMAIN records : x \in DOMAIN records' /\ records'[x].by = records[x].by,
         v \notin crossed' => records'[id].by = v,
         \A r \in RepoRequests : Doing(r, "disconnect", "promote")' => step'[r] = step[r]
  PROVE  ReposInv'
<1> DEFINE after == <<v, id>>
<1>1. /\ DOMAIN selections' = DOMAIN selections \cup {after}
      /\ \A x \in DOMAIN selections' : selections'[x] \in [active: BOOLEAN, github: Nat]
      /\ \A u \in Members : u # v => SelectionsOf(u)' = SelectionsOf(u)
      /\ \A u \in Members : u # v => \A x \in SelectionsOf(u) : selections'[x] = selections[x]
      /\ \A x \in SelectionsOf(v)' : selections'[x].active <=> x = after
      /\ \A x \in SelectionsOf(v)' : x \in SelectionsOf(v) \/ x = after
      /\ after \in DOMAIN selections' /\ selections'[after].active
  BY Activated DEF ReposInv
<1>2. SelectionsHold'
  BY <1>1 DEF ReposInv, SelectionsHold
<1>3. \A u \in Members : \A x \in SelectionsOf(u) : x[2] \in DOMAIN records /\ x = <<u, x[2]>>
  BY DEF SelectionsOf, ReposInv, SelectionsHold
<1>4. \A u \in Members : \A r \in RepoRequests : Disconnects(r, u)' => Disconnects(r, u) /\ step'[r] = step[r]
  BY DEF Disconnects, Doing
<1>5. ASSUME NEW u \in Members \ crossed', u # v PROVE MemberInv(u)'
  <2>1. \A x \in SelectionsOf(u) : /\ selections'[x] = selections[x]
                                    /\ x[2] \in DOMAIN records' /\ records'[x[2]].by = records[x[2]].by
    BY <1>1, <1>3, <1>5
  <2> QED BY <1>1, <1>4, <1>5, <2>1, Untouched DEF ReposInv
<1>6. ASSUME v \notin crossed' PROVE MemberInv(v)'
  <2>1. OwnSelected(v)'
    <3>1. \A x \in SelectionsOf(v) : records'[x[2]].by = v
      BY <1>3, <1>6 DEF ReposInv, MemberInv, OwnSelected
    <3> QED BY <1>1, <1>6, <3>1 DEF OwnSelected
  <2>2. id \in ActiveRepository(v)'
    BY <1>1, <1>6 DEF ActiveRepository
  <2>3. OneActive(v)'
    BY <1>1, <2>2 DEF OneActive
  <2>4. \A r \in RepoRequests : ~Disconnects(r, v)'
    BY <1>4 DEF Locked, Disconnects, Doing
  <2> QED BY <2>1, <2>3, <2>4 DEF MemberInv
<1> QED BY <1>2, <1>5, <1>6 DEF ReposInv

LEMMA ActivateStep ==
  ASSUME ReposInv, NEW v \in Members, NEW id \in RecordIds, ActivateOwned(v, id)
  PROVE  ReposInv'
<1> DEFINE new == [selections[<<v, id>>] EXCEPT !.active = TRUE]
<1>1. /\ id \in DOMAIN records /\ records[id].by = v /\ <<v, id>> \in DOMAIN selections /\ ~Locked(v)
      /\ Activate(v, <<v, id>>, new) /\ UNCHANGED <<records, identity, inUse, step, crossed>>
  BY DEF ActivateOwned, Owned
<1>2. new \in [active: BOOLEAN, github: Nat] /\ new.active
  BY <1>1 DEF ReposInv, SelectionsHold
<1> HIDE DEF new
<1>3. RecordsHold' /\ StepsHold'
  BY <1>1 DEF ReposInv, RecordsHold, StepsHold
<1> QED BY <1>1, <1>2, <1>3, ActivatedHolds

\* A record is written.
LEMMA RecordWritten ==
  ASSUME RecordsHold, NEW v \in Members, NEW id \in RecordIds,
         records' = With(records, id, [by |-> v, fresh |-> TRUE]),
         \A u \in Members : id = <<Instance, u>> => u = v,
         id \in DOMAIN records => records[id].by = v, UNCHANGED inUse, crossed' \subseteq Members
  PROVE  /\ RecordsHold' /\ id \in DOMAIN records' /\ records'[id].by = v
         /\ \A x \in DOMAIN records : x \in DOMAIN records' /\ records'[x].by = records[x].by
<1> DEFINE n == [by |-> v, fresh |-> TRUE]
<1>1. n \in [by: Members, fresh: BOOLEAN] /\ n.by = v
  OBVIOUS
<1> HIDE DEF n
<1>2. records' = [y \in DOMAIN records \cup {id} |-> IF y = id THEN n ELSE records[y]]
  BY DEF With, n
<1>3. /\ DOMAIN records' = DOMAIN records \cup {id} /\ records'[id] = n
      /\ \A x \in DOMAIN records : x # id => records'[x] = records[x]
  BY <1>2
<1>4. \A u \in Members : <<Instance, u>> \in DOMAIN records' => records'[<<Instance, u>>].by = u
  BY <1>1, <1>3 DEF RecordsHold
<1> QED BY <1>1, <1>3, <1>4 DEF RecordsHold

LEMMA ConnectStep ==
  ASSUME ReposInv, NEW r \in RepoRequests, ConnectSave(r)
  PROVE  ReposInv'
<1> DEFINE v == step[r].u
           id == step[r].id
           new == [active |-> TRUE, github |-> step[r].github]
           theirs == id \in DOMAIN records /\ records[id].by # v
<1>1. /\ v \in Members /\ id \in RecordIds /\ id[1] \in GitHubRepos /\ ~Locked(v)
      /\ step' = [step EXCEPT ![r] = Waiting] /\ UNCHANGED <<identity, inUse>>
      /\ step[r].github \in Nat
  BY DEF ConnectSave, Doing, Done, ReposInv, StepsHold, RepoRequest
<1>2. StepsHold' /\ step'[r] = Waiting /\ \A o \in RepoRequests : o # r => step'[o] = step[o]
  BY <1>1, WaitingTypes, OneRequest DEF ReposInv, StepsHold
<1>3. \A o \in RepoRequests : Doing(o, "disconnect", "promote")' => step'[o] = step[o]
  BY <1>2, WaitingTypes DEF Doing
<1>4. CASE UNCHANGED <<records, selections, crossed>>
  BY <1>1, <1>2, <1>3, <1>4, SameChoice DEF ReposInv, RecordsHold
<1>5. CASE /\ records' = IF theirs THEN records ELSE With(records, id, [by |-> v, fresh |-> TRUE])
           /\ Activate(v, <<v, id>>, new)
           /\ crossed' = IF theirs THEN crossed \cup {v} ELSE crossed
  <2>1. new \in [active: BOOLEAN, github: Nat] /\ new.active
    BY <1>1
  <2> HIDE DEF new
  <2>2. crossed \subseteq crossed' /\ crossed' \subseteq Members
    BY <1>1, <1>5 DEF ReposInv, RecordsHold
  <2>3. CASE theirs
    <3>1. records' = records /\ v \in crossed' /\ id \in DOMAIN records
      BY <1>5, <2>3
    <3>2. RecordsHold'
      BY <1>1, <2>2, <3>1 DEF ReposInv, RecordsHold
    <3> QED BY <1>1, <1>2, <1>3, <1>5, <2>1, <2>2, <3>1, <3>2, ActivatedHolds
  <2>4. CASE ~theirs
    <3>1. records' = With(records, id, [by |-> v, fresh |-> TRUE])
      BY <1>5, <2>4
    <3>2. \A u \in Members : id = <<Instance, u>> => u = v
      BY <1>1, RepositoriesAssumption
    <3>3. /\ RecordsHold' /\ id \in DOMAIN records' /\ records'[id].by = v
          /\ \A x \in DOMAIN records : x \in DOMAIN records' /\ records'[x].by = records[x].by
      BY <1>1, <2>2, <2>4, <3>1, <3>2, RecordWritten DEF ReposInv
    <3> QED BY <1>1, <1>2, <1>3, <1>5, <2>1, <2>2, <3>3, ActivatedHolds
  <2> QED BY <2>3, <2>4
<1> QED BY <1>4, <1>5 DEF ConnectSave

LEMMA EnsureStep ==
  ASSUME ReposInv, NEW v \in Members, EnsureInstance(v)
  PROVE  ReposInv'
<1> DEFINE id == <<Instance, v>>
           new == [active |-> \A x \in SelectionsOf(v) : ~selections[x].active, github |-> 0]
<1>1. /\ <<v, id>> \notin DOMAIN selections
      /\ records' = With(records, id, [by |-> v, fresh |-> TRUE])
      /\ selections' = With(selections, <<v, id>>, new)
      /\ crossed' = IF Locked(v) THEN crossed \cup {v} ELSE crossed
      /\ UNCHANGED <<identity, inUse, step>>
  BY DEF EnsureInstance
<1>2. id \in RecordIds /\ \A u \in Members : id = <<Instance, u>> => u = v
  BY DEF RecordIds
<1>3. crossed \subseteq crossed' /\ crossed' \subseteq Members
  BY <1>1 DEF ReposInv, RecordsHold
<1>4. /\ RecordsHold' /\ id \in DOMAIN records' /\ records'[id].by = v
      /\ \A x \in DOMAIN records : x \in DOMAIN records' /\ records'[x].by = records[x].by
  <2>1. id \in DOMAIN records => records[id].by = v
    BY DEF ReposInv, RecordsHold
  <2> QED BY <1>1, <1>2, <1>3, <2>1, RecordWritten DEF ReposInv
<1>5. StepsHold'
  BY <1>1 DEF ReposInv, StepsHold
<1>6. /\ new \in [active: BOOLEAN, github: Nat]
      /\ new.active <=> \A x \in SelectionsOf(v) : ~selections[x].active
  OBVIOUS
<1> HIDE DEF new
<1>7. /\ DOMAIN selections' = DOMAIN selections \cup {<<v, id>>} /\ selections'[<<v, id>>] = new
      /\ \A x \in DOMAIN selections : selections'[x] = selections[x]
  BY <1>1 DEF With
<1>8. SelectionsHold'
  BY <1>4, <1>6, <1>7 DEF ReposInv, SelectionsHold
<1>9. \A u \in Members : \A x \in SelectionsOf(u) : x[2] \in DOMAIN records /\ x = <<u, x[2]>> /\ x \in DOMAIN selections
  BY DEF SelectionsOf, ReposInv, SelectionsHold
<1>10. \A u \in Members : u # v => SelectionsOf(u)' = SelectionsOf(u)
  BY <1>7 DEF SelectionsOf
<1>11. SelectionsOf(v)' = SelectionsOf(v) \cup {<<v, id>>}
  BY <1>7 DEF SelectionsOf
<1>12. ASSUME NEW u \in Members \ crossed', u # v PROVE MemberInv(u)'
  <2>1. \A x \in SelectionsOf(u) : /\ selections'[x] = selections[x]
                                    /\ x[2] \in DOMAIN records' /\ records'[x[2]].by = records[x[2]].by
    BY <1>4, <1>7, <1>9
  <2>2. \A r \in RepoRequests : Disconnects(r, u)' => Disconnects(r, u) /\ step'[r] = step[r]
    BY <1>1 DEF Disconnects, Doing
  <2> QED BY <1>3, <1>10, <1>12, <2>1, <2>2, Untouched DEF ReposInv
<1>13. ASSUME v \notin crossed' PROVE MemberInv(v)'
  <2>1. ~Locked(v) /\ MemberInv(v)
    BY <1>1, <1>13 DEF ReposInv
  <2>2. OwnSelected(v)'
    <3>1. \A x \in SelectionsOf(v) : records'[x[2]].by = v
      BY <1>4, <1>9, <2>1 DEF MemberInv, OwnSelected
    <3> QED BY <1>4, <1>11, <3>1 DEF OwnSelected
  <2>3. ASSUME SelectionsOf(v) = {} PROVE OneActive(v)'
    <3>1. new.active /\ id \in ActiveRepository(v)'
      BY <1>4, <1>6, <1>7, <2>3 DEF ActiveRepository
    <3> QED BY <1>7, <1>11, <2>3, <3>1 DEF OneActive
  <2>4. ASSUME SelectionsOf(v) # {} PROVE OneActive(v)'
    <3>1. PICK i \in ActiveRepository(v) : \A x \in SelectionsOf(v) : selections[x].active <=> x = <<v, i>>
      BY <2>1, <2>4 DEF MemberInv, OneActive
    <3>2. /\ i \in DOMAIN records /\ <<v, i>> \in DOMAIN selections /\ selections[<<v, i>>].active
          /\ records[i].by = v /\ <<v, i>> \in SelectionsOf(v)
      BY <3>1 DEF ActiveRepository, SelectionsOf
    <3>3. ~new.active /\ <<v, id>> # <<v, i>>
      BY <1>1, <1>6, <3>2
    <3>4. i \in ActiveRepository(v)'
      BY <1>4, <1>7, <3>2 DEF ActiveRepository
    <3>5. \A x \in SelectionsOf(v)' : selections'[x].active <=> x = <<v, i>>
      BY <1>7, <1>9, <1>11, <3>1, <3>3
    <3> QED BY <3>4, <3>5 DEF OneActive
  <2>5. \A r \in RepoRequests : ~Disconnects(r, v)'
    BY <1>1, <2>1 DEF Locked, Disconnects, Doing
  <2> QED BY <2>2, <2>3, <2>4, <2>5 DEF MemberInv
<1> QED BY <1>4, <1>5, <1>8, <1>12, <1>13 DEF ReposInv

\* A disconnection has been checked and is about to delete.
LEMMA DisconnectStep ==
  ASSUME ReposInv, NEW r \in RepoRequests, NEW v \in Members, NEW id \in RecordIds, DisconnectDelete(r, v, id)
  PROVE  ReposInv'
<1> DEFINE x == <<v, id>>
<1>1. /\ x \in DOMAIN selections
      /\ UNCHANGED <<records, selections, identity, inUse, crossed>>
      /\ \A o \in RepoRequests : Disconnects(o, v) => step[o].id # id /\ step[o].next # {id}
  BY DEF DisconnectDelete, Disconnects
<1>2. PICK next \in {{}} \cup {{y[2]} : y \in SelectionsOf(v) \ {x}} :
        /\ (next = {}) <=> (~selections[x].active \/ SelectionsOf(v) = {x})
        /\ step[r] = Waiting
        /\ step' = [step EXCEPT ![r] = [Waiting EXCEPT !.op = "disconnect", !.at = "promote", !.u = v,
                      !.id = id, !.was = selections[x].active, !.next = next]]
  BY DEF DisconnectDelete, Take
<1>3. \A y \in SelectionsOf(v) : y = <<v, y[2]>> /\ y[2] \in RecordIds
  BY DEF SelectionsOf, ReposInv, SelectionsHold, RecordsHold
<1>4. next = {} \/ \E i \in RecordIds : i # id /\ next = {i}
  BY <1>2, <1>3
<1> DEFINE q == [Waiting EXCEPT !.op = "disconnect", !.at = "promote", !.u = v,
                   !.id = id, !.was = selections[x].active, !.next = next]
<1>5. /\ q \in RepoRequest /\ q.op = "disconnect" /\ q.at = "promote" /\ q.u = v /\ q.id = id
      /\ q.next = next
  <2>1. "disconnect" \in RepoOperations /\ "promote" \in RepoAwaits
    BY DEF RepoOperations, RepoAwaits
  <2>2. selections[x].active \in BOOLEAN /\ next \in SUBSET RecordIds
    BY <1>1, <1>4 DEF ReposInv, SelectionsHold
  <2> QED BY <2>1, <2>2, WaitingTypes DEF RepoRequest
<1>6. step' = [step EXCEPT ![r] = q]
  BY <1>2
<1> HIDE DEF q
<1>7. StepsHold' /\ step'[r] = q /\ \A o \in RepoRequests : o # r => step'[o] = step[o]
  BY <1>1, <1>5, <1>6, OneRequest DEF ReposInv, StepsHold
<1>8. RecordsHold' /\ SelectionsHold'
  BY <1>1 DEF ReposInv, RecordsHold, SelectionsHold
<1>9. \A u \in Members : SelectionsOf(u)' = SelectionsOf(u)
  BY <1>1 DEF SelectionsOf
<1>10. ~Disconnects(r, v)
  BY <1>2, WaitingTypes DEF Disconnects, Doing
<1>11. ASSUME NEW u \in Members \ crossed, u # v PROVE MemberInv(u)'
  <2>1. \A y \in SelectionsOf(u) : /\ selections'[y] = selections[y]
                                    /\ y[2] \in DOMAIN records' /\ records'[y[2]].by = records[y[2]].by
    BY <1>1 DEF SelectionsOf, ReposInv, SelectionsHold
  <2>2. \A o \in RepoRequests : Disconnects(o, u)' => Disconnects(o, u) /\ step'[o] = step[o]
    BY <1>5, <1>7, <1>11 DEF Disconnects, Doing
  <2> QED BY <1>9, <1>11, <2>1, <2>2, Untouched DEF ReposInv
<1>12. ASSUME v \notin crossed PROVE MemberInv(v)'
  <2>1. MemberInv(v)
    BY <1>12 DEF ReposInv
  <2>2. OwnSelected(v)' /\ OneActive(v)'
    BY <1>1, <1>9, <2>1 DEF MemberInv, OwnSelected, OneActive, ActiveRepository
  <2>3. \A o \in RepoRequests : o # r /\ Disconnects(o, v)' => Disconnects(o, v) /\ step'[o] = step[o]
    BY <1>7 DEF Disconnects, Doing
  <2>4. ASSUME NEW o \in RepoRequests, o # r, Disconnects(o, v)' PROVE Agreed(o, v)' /\ Apart(o, v)'
    <3>1. Disconnects(o, v) /\ step'[o] = step[o] /\ Agreed(o, v) /\ Apart(o, v)
      BY <2>1, <2>3, <2>4 DEF MemberInv
    <3>2. Agreed(o, v)'
      BY <1>1, <1>9, <3>1 DEF Agreed
    <3>3. Apart(o, v)'
      BY <1>1, <1>5, <1>7, <2>3, <3>1 DEF Apart
    <3> QED BY <3>2, <3>3
  <2>5. Apart(r, v)'
    BY <1>1, <1>5, <1>7, <2>3 DEF Apart
  <2>6. Agreed(r, v)'
    <3>1. step'[r].next = next /\ step'[r].id = id
      BY <1>5, <1>7
    <3>2. CASE next = {}
      BY <1>1, <1>2, <1>9, <3>1, <3>2 DEF Agreed
    <3>3. CASE next # {}
      BY <1>1, <1>2, <1>4, <3>1, <3>3 DEF Agreed
    <3> QED BY <3>2, <3>3
  <2> QED BY <2>2, <2>4, <2>5, <2>6 DEF MemberInv
<1> QED BY <1>1, <1>7, <1>8, <1>11, <1>12 DEF ReposInv

\* The selection goes, with the record if it is the member's; the next one is active.
LEMMA PromoteHolds ==
  ASSUME ReposInv, NEW r \in RepoRequests, DisconnectPromote(r),
         NEW v, NEW id, NEW next, v = step[r].u, id = step[r].id, next = step[r].next
  PROVE  ReposInv'
<1> DEFINE x == <<v, id>>
           gone == {i \in {id} : Owned(v, i)}
           left == {y \in DOMAIN selections : y # x /\ y[2] \notin gone}
           late == next # {} /\ \A y \in left : ~(y[1] = v /\ y[2] \in next)
<1>1. /\ Disconnects(r, v) /\ v \in Members /\ step' = [step EXCEPT ![r] = Waiting]
      /\ \A o \in RepoRequests : o # r /\ Disconnects(o, v) => step[o].id \notin next
      /\ records' = [i \in DOMAIN records \ gone |-> records[i]]
      /\ selections' = [y \in left |->
           IF y[1] = v /\ y[2] \in next THEN [selections[y] EXCEPT !.active = TRUE] ELSE selections[y]]
      /\ crossed' = IF late THEN crossed \cup {v} ELSE crossed
      /\ inUse' = inUse \ gone /\ UNCHANGED identity
  BY DEF DisconnectPromote, Disconnects, Doing, Done, ReposInv, StepsHold
<1>2. StepsHold' /\ step'[r] = Waiting /\ \A o \in RepoRequests : o # r => step'[o] = step[o]
  BY <1>1, WaitingTypes, OneRequest DEF ReposInv, StepsHold
<1>3. \A i \in gone : i = id /\ i \in DOMAIN records /\ records[i].by = v
  BY DEF Owned
<1>4. /\ DOMAIN records' = DOMAIN records \ gone
      /\ \A i \in DOMAIN records' : records'[i] = records[i]
  BY <1>1
<1>5. RecordsHold'
  <2>1. inUse' \subseteq DOMAIN records' /\ crossed' \subseteq Members
    BY <1>1, <1>4 DEF ReposInv, RecordsHold
  <2> QED BY <1>4, <2>1 DEF ReposInv, RecordsHold
<1>6. \A y \in DOMAIN selections : /\ selections[y] \in [active: BOOLEAN, github: Nat]
                                   /\ y = <<y[1], y[2]>> /\ y[1] \in Members /\ y[2] \in DOMAIN records
  BY DEF ReposInv, SelectionsHold
<1>15. \A y \in DOMAIN selections :
        /\ [selections[y] EXCEPT !.active = TRUE] \in [active: BOOLEAN, github: Nat]
        /\ [selections[y] EXCEPT !.active = TRUE].active = TRUE
  BY <1>6
<1>7. /\ DOMAIN selections' = left
      /\ \A y \in left : selections'[y] \in [active: BOOLEAN, github: Nat]
      /\ \A y \in left : ~(y[1] = v /\ y[2] \in next) => selections'[y] = selections[y]
      /\ \A y \in left : y[1] = v /\ y[2] \in next => selections'[y].active
  BY <1>1, <1>6, <1>15
<1>8. SelectionsHold'
  BY <1>4, <1>6, <1>7 DEF SelectionsHold
<1>9. crossed \subseteq crossed'
  BY <1>1
<1>10. \A u \in Members : Disconnects(r, u)' => FALSE
  BY <1>2, WaitingTypes DEF Disconnects, Doing
<1>11. \A u \in Members : \A o \in RepoRequests : Disconnects(o, u)' => o # r /\ Disconnects(o, u) /\ step'[o] = step[o]
  BY <1>2, <1>10 DEF Disconnects, Doing
<1>12. \A u : SelectionsOf(u)' = {y \in left : y[1] = u}
  BY <1>7 DEF SelectionsOf
<1>13. ASSUME NEW u \in Members \ crossed', u # v PROVE MemberInv(u)'
  <2>1. MemberInv(u)
    BY <1>9, <1>13 DEF ReposInv
  <2>2. \A y \in SelectionsOf(u) : y \in left /\ y[1] = u
    <3>1. \A y \in SelectionsOf(u) : records[y[2]].by = u /\ y[1] = u /\ y \in DOMAIN selections
      BY <2>1 DEF MemberInv, OwnSelected, SelectionsOf
    <3> QED BY <1>3, <1>13, <3>1
  <2>3. SelectionsOf(u)' = SelectionsOf(u)
    BY <1>12, <2>2 DEF SelectionsOf
  <2>4. \A y \in SelectionsOf(u) : /\ selections'[y] = selections[y]
                                    /\ y[2] \in DOMAIN records' /\ records'[y[2]].by = records[y[2]].by
    BY <1>4, <1>6, <1>7, <1>13, <2>2
  <2> QED BY <1>11, <1>13, <2>1, <2>3, <2>4, Untouched DEF ReposInv
<1>14. ASSUME v \notin crossed' PROVE MemberInv(v)'
  <2>1. v \notin crossed /\ ~late /\ MemberInv(v)
    BY <1>1, <1>9, <1>14 DEF ReposInv
  <2>2. Agreed(r, v) /\ Apart(r, v) /\ OwnSelected(v) /\ OneActive(v)
    BY <1>1, <2>1 DEF MemberInv
  <2>3. \A y \in SelectionsOf(v)' : y \in left /\ y[1] = v /\ y \in SelectionsOf(v) /\ y = <<v, y[2]>>
    BY <1>6, <1>12 DEF SelectionsOf
  <2>4. OwnSelected(v)'
    <3>1. \A y \in SelectionsOf(v)' : y[2] \in DOMAIN records' /\ records[y[2]].by = v
      BY <1>4, <1>6, <2>2, <2>3 DEF OwnSelected
    <3> QED BY <1>4, <3>1 DEF OwnSelected
  <2>5. \A y \in SelectionsOf(v) : y # x => y \in left /\ y[2] \in DOMAIN records'
    BY <1>3, <1>4, <1>6 DEF SelectionsOf
  <2>6. ASSUME SelectionsOf(v)' # {} PROVE OneActive(v)'
    <3>1. PICK i \in ActiveRepository(v) : \A y \in SelectionsOf(v) : selections[y].active <=> y = <<v, i>>
      BY <2>2, <2>3, <2>6 DEF OneActive
    <3>2. /\ i \in DOMAIN records /\ <<v, i>> \in DOMAIN selections /\ selections[<<v, i>>].active
          /\ records[i].by = v /\ <<v, i>> \in SelectionsOf(v)
      BY <3>1 DEF ActiveRepository, SelectionsOf
    <3>3. ASSUME next = {} PROVE OneActive(v)'
      <4>1. i # id
        <5>1. i = id => SelectionsOf(v) = {x}
          BY <2>2, <3>2, <3>3 DEF Agreed
        <5> QED BY <2>3, <2>6, <5>1
      <4>2. <<v, i>> \in left /\ <<v, i>> \in DOMAIN selections' /\ i \in DOMAIN records'
        BY <1>7, <2>5, <3>2, <4>1
      <4>3. \A y \in left : selections'[y] = selections[y]
        BY <1>7, <3>3
      <4>4. i \in ActiveRepository(v)'
        BY <1>4, <3>2, <4>2, <4>3 DEF ActiveRepository
      <4> QED BY <2>3, <3>1, <4>3, <4>4 DEF OneActive
    <3>4. ASSUME next # {} PROVE OneActive(v)'
      <4>1. PICK n \in RecordIds : n # id /\ next = {n}
        BY <2>2, <3>4 DEF Agreed
      <4>2. x \in DOMAIN selections /\ selections[x].active
        BY <2>2, <3>4 DEF Agreed
      <4>3. x = <<v, i>>
        BY <3>1, <4>2 DEF SelectionsOf
      <4>4. <<v, n>> \in left /\ <<v, n>> \in SelectionsOf(v)
        <5>1. PICK y \in left : y[1] = v /\ y[2] \in next
          BY <2>1, <3>4
        <5>2. y = <<v, n>> /\ y \in DOMAIN selections
          BY <1>6, <4>1, <5>1
        <5> QED BY <5>1, <5>2 DEF SelectionsOf
      <4>5. n \in DOMAIN records' /\ records'[n].by = v
        <5>1. <<v, n>> # x
          BY <4>1
        <5>2. n \in DOMAIN records' /\ records[n].by = v
          BY <2>2, <2>5, <4>4, <5>1 DEF OwnSelected
        <5> QED BY <1>4, <5>2
      <4>6. n \in ActiveRepository(v)'
        BY <1>7, <4>1, <4>4, <4>5 DEF ActiveRepository
      <4>7. ASSUME NEW y \in SelectionsOf(v)' PROVE selections'[y].active <=> y = <<v, n>>
        <5>1. y \in left /\ y[1] = v /\ y \in SelectionsOf(v) /\ y = <<v, y[2]>> /\ y # x
          BY <2>3, <4>7
        <5>2. ~selections[y].active
          BY <3>1, <4>3, <5>1
        <5> QED BY <1>7, <4>1, <5>1, <5>2
      <4> QED BY <4>6, <4>7 DEF OneActive
    <3> QED BY <3>3, <3>4
  <2>7. OneActive(v)'
    BY <2>6 DEF OneActive
  <2>8. ASSUME NEW o \in RepoRequests, Disconnects(o, v)' PROVE Agreed(o, v)' /\ Apart(o, v)'
    <3>1. o # r /\ Disconnects(o, v) /\ step'[o] = step[o]
      BY <1>1, <1>11, <2>8
    <3>2. Agreed(o, v) /\ Apart(o, v) /\ step[o].id # id /\ step[o].id \notin next
      BY <1>1, <2>1, <2>2, <3>1 DEF MemberInv, Apart
    <3>3. Apart(o, v)'
      BY <1>1, <1>11, <3>1, <3>2 DEF Apart
    <3> DEFINE z == <<v, step[o].id>>
    <3>4. z \in DOMAIN selections' => z \in DOMAIN selections /\ selections'[z] = selections[z]
      BY <1>7, <3>2
    <3>5. ASSUME step[o].next = {} PROVE Agreed(o, v)'
      <4>1. z \in DOMAIN selections' /\ selections'[z].active => SelectionsOf(v) = {z}
        BY <3>2, <3>4, <3>5 DEF Agreed
      <4>2. z \in DOMAIN selections' => z \in SelectionsOf(v)'
        BY <1>7, <1>12
      <4> QED BY <2>3, <3>1, <3>5, <4>1, <4>2 DEF Agreed
    <3>6. ASSUME step[o].next # {} PROVE Agreed(o, v)'
      <4>1. z \in DOMAIN selections /\ selections[z].active /\ z # x
        BY <3>2, <3>6 DEF Agreed
      <4>2. z \in DOMAIN selections'
        BY <1>7, <2>5, <4>1 DEF SelectionsOf
      <4> QED BY <3>1, <3>2, <3>4, <3>6, <4>1, <4>2 DEF Agreed
    <3> QED BY <3>3, <3>5, <3>6
  <2> QED BY <2>4, <2>7, <2>8 DEF MemberInv
<1> QED BY <1>1, <1>2, <1>5, <1>8, <1>13, <1>14 DEF ReposInv

LEMMA PromoteStep ==
  ASSUME ReposInv, NEW r \in RepoRequests, DisconnectPromote(r)
  PROVE  ReposInv'
<1>1. PICK v, id, next : v = step[r].u /\ id = step[r].id /\ next = step[r].next
  OBVIOUS
<1> QED BY <1>1, PromoteHolds

LEMMA ReposStep == ReposInv /\ [RepositoriesNext]_reposVars => ReposInv'
<1> SUFFICES ASSUME ReposInv, [RepositoriesNext]_reposVars PROVE ReposInv'
  OBVIOUS
<1>1. CASE UNCHANGED reposVars
  <2>1. StepsHold' /\ DOMAIN records' = DOMAIN records
    BY <1>1 DEF reposVars, ReposInv, StepsHold
  <2> QED BY <1>1, <2>1, SameChoice DEF reposVars, ReposInv, RecordsHold
<1>2. ASSUME NEW u \in Members, EnsureInstance(u) \/ Relink(u) \/ \E id \in RecordIds : ActivateOwned(u, id)
      PROVE  ReposInv'
  BY <1>2, EnsureStep, AsideStep, ActivateStep
<1>3. ASSUME NEW r \in RepoRequests,
             \/ \E u \in Members : ListDrawings(r, u)
             \/ \E u \in Members, g \in GitHubRepos : ConnectRead(r, u, g)
             \/ \E u \in Members, id \in RecordIds : ScanRead(r, u, id)
      PROVE  ReposInv'
  BY <1>3, ConnectingStep
<1>4. ASSUME NEW r \in RepoRequests,
             \/ \E u \in Members, id \in RecordIds : DisconnectDelete(r, u, id)
             \/ ConnectChoose(r) \/ ConnectSave(r) \/ DisconnectPromote(r)
      PROVE  ReposInv'
  BY <1>4, DisconnectStep, ChooseStep, ConnectStep, PromoteStep
<1>5. ASSUME NEW r \in RepoRequests, ScanAnswered(r) \/ ScanWrite(r) \/ RequestFails(r) PROVE ReposInv'
  BY <1>5, AsideStep
<1>6. ASSUME NEW id \in RecordIds, Outdate(id) \/ Depend(id) PROVE ReposInv'
  BY <1>6, AsideStep
<1> QED BY <1>1, <1>2, <1>3, <1>4, <1>5, <1>6 DEF RepositoriesNext

\* Whatever connections, switches, disconnections and scans of any number of
\* members cross: a member who has repositories has exactly one active, which the
\* member connected, unless one of the two crossings in crossed has hit the member.
THEOREM OneRepositoryIsActive == RepositoriesSpec => []OneActiveOwn
<1>1. ReposInv => OneActiveOwn
  BY DEF ReposInv, MemberInv, OneActive, OneActiveOwn
<1> QED BY <1>1, ReposInit, ReposStep, PTL DEF RepositoriesSpec

\* Accounts, logins and cookies have the values they are meant to have, whatever
\* requests cross: a login is of an account that exists, a cookie of a login that does.
THEOREM AccountTypeCorrect == AccountsSpec => []AccountTypes
<1>1. IInv => AccountTypes
  BY DEF IInv, AccountsHold, LoginsHold, CookiesHold, Account, Login, AccountTypes
<1> QED BY <1>1, AccountsHoldAlways, PTL

\* However connections, disconnections and scans cross: a selection is of a member and
\* of a record that exists, a record is a member's, and only records that exist are in use.
THEOREM RepositoryTypeCorrect == RepositoriesSpec => []RepositoryTypes
<1>1. ReposInv => RepositoryTypes
  BY DEF ReposInv, RecordsHold, SelectionsHold, RepositoryTypes
<1> QED BY <1>1, ReposInit, ReposStep, PTL DEF RepositoriesSpec
=============================================================================
