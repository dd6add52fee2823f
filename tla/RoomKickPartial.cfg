SPECIFICATION Spec
CONSTANTS
  s1 = s1  s2 = s2  s3 = s3  alice = alice  bob = bob
  Sockets = {s1, s2, s3}
  User <- AllAlice
  Requests = {q1}
  Ops = {"join", "kick"}
  MaxClients = 3
  MaxFailures = 0
  Nobody = Nobody
  Eviction = Eviction
PROPERTIES KickRemovesAll
CHECK_DEADLOCK FALSE
