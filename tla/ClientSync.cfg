SPECIFICATION FairSpec
CONSTANTS
  owner = owner
  guest = guest
  Clients <- TwoClients
  Owners <- OneOwner
  Drawn <- FewEdits
  RetryLimit = 2
  Weight <- Weights
  MaxFaults = 2
INVARIANTS TypeOK NothingForgotten NothingMissed
PROPERTIES EditsArrive EveryoneSees
CHECK_DEADLOCK FALSE
