SPECIFICATION Spec
CONSTANTS
  s1 = s1  s2 = s2  s3 = s3  alice = alice  bob = bob
  Sockets = {s1}
  User <- OneEach
  Requests = {q1}
  Ops = {"join", "close"}
  MaxClients = 1
  MaxFailures = 0
  Nobody = Nobody
  Eviction = Eviction
INVARIANTS ClosedIsEmpty
CHECK_DEADLOCK FALSE
