SPECIFICATION RoomSpec
CONSTANTS
  s1 = s1  s2 = s2  s3 = s3  alice = alice  bob = bob
  Sockets = {s1, s2}
  User <- OneEach
  Requests = {q1, q2}
  Ops = {"join", "update", "facilitate", "write", "canvas", "save", "close", "purge", "kick"}
  MaxClients = 1
  MaxFailures = 1
  Nobody = Nobody
  Eviction = Eviction
SYMMETRY Symmetry
INVARIANTS TypeOK NoGhosts NobodyHidden PresentHaveDocument DocumentIsTended
PROPERTIES FacilitationKept
CHECK_DEADLOCK FALSE
