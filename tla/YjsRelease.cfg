SPECIFICATION FairSpec
CONSTANTS
  Edits = {u1, u2}
  Revisions = {1}
  Releasers = {r1, r2}
  Purgers = {}
  MaxDocChanges = 2
  MaxWrites = 3
  MaxGen = 6
  MaxFailures = 1
  MaxCrashes = 1
INVARIANTS TypeOK LiveDocumentComplete ReleasedIsStored UnsavedIsScheduled
PROPERTIES AcceptedIsStored CallsReturn
CHECK_DEADLOCK FALSE
