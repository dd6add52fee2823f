SPECIFICATION Spec
CONSTANTS
  Edits = {u1, u2}
  Revisions = {1}
  Releasers = {r1}
  Purgers = {p1}
  MaxDocChanges = 3
  MaxWrites = 3
  MaxGen = 6
  MaxFailures = 1
  MaxCrashes = 1
SYMMETRY Symmetry
PROPERTIES PurgedRowStaysGone ImplementsMemory
CHECK_DEADLOCK FALSE
