SPECIFICATION WebSpec
CONSTANTS
  b1 = b1  b2 = b2  t1 = t1  k1 = k1  k2 = k2  d1 = d1  r1 = r1  r2 = r2
  o1 = o1  u1 = u1  g1 = g1  s1 = s1  s2 = s2  s3 = s3
  a0 = a0  a1 = a1  l1 = l1  l2 = l2  l3 = l3  w1 = w1  w2 = w2  v1 = v1  v2 = v2
  m1 = m1  m2 = m2  p1 = p1  p2 = p2  A = A  B = B
  Boards = {b1, b2}  Titles = {t1}  Contents = {k1, k2}  MaxRevision = 3  MaxVersions = 2
  Somebody = Somebody  Sessions = {d1}  WebRequests = {r1, r2}  NoSha = NoSha  NoDoc = NoDoc
  Users = {u1}  Guests = {g1}  Owner = o1  Sockets = {s1, s2, s3}  Holder <- Holders
  AccessTasks = {r1, r2}  MaxLinks = 2  MaxTime = 2  MaxPolicies = 2  Nobody = Nobody
  Accounts = {a0, a1}  Logins = {l1, l2, l3}  Browsers = {w1, w2}  Visits = {v1, v2}
  MaxPasswords = 2  NoAccount = NoAccount  NoLogin = NoLogin
  Members = {m1, m2}  GitHubRepos = {p1, p2}  RepoRequests = {r1, r2}  MaxIdentities = 2
  Instance = Instance  Default = Default
  pa = pa  pb = pb  ea = ea  eb = eb  Pages = {pa, pb}  Host = pa  Elements = {ea, eb}
  Board = {ea}  MaxClient = 3  MaxDraws = 2  MaxCheck = 2  None = None
  va = va  vb = vb  Participants = {pa, pb}  Moderator = pa  ActorOf <- IdentityOf
  Votable = {ea, eb}  Viewports = {va, vb}  Limits = {1}  DefaultLimit = 1  MaxMail = 2
  NoViewport = NoViewport
  EditRepos = {A, B}  Drawings = {k1, k2}  Absent = Absent
INVARIANTS WebTypes VersionsComplete EndedIsEndedEverywhere OwnSaveIsNoConflict
  AnnouncedIsRegistered GoneIsClosed RemovedStaysOut RevokedGuestsAreOut LoginsFollowPassword
  OneOwnerRemains OneActiveOwn UnsavedIsShown NothingIsDropped SettledCanvasesAgree
  RoomShowsFacilitation FollowersSeeModerator
PROPERTIES HistoryIntact SaveReplacesWhatItSaw EditorOverwritesWhatItShowed
VIEW ScopeView
CHECK_DEADLOCK FALSE
