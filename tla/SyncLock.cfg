SPECIFICATION FairSpec
CONSTANTS
  owner = owner
  guest = guest
  Clients <- TwoClients
  Owners <- OneOwner
  Drawn <- FewEdits
  RetryLimit = 2
  Weight <- OnlyTheLock
  MaxFaults = 2
PROPERTY ConvergesWithoutAnotherEdit
CHECK_DEADLOCK FALSE
