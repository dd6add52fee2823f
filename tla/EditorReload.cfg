SPECIFICATION EditorSpec
CONSTANTS EditRepos = {A, B}  Drawings = {k1, k2}  Absent = Absent
INVARIANT ReloadedIsSaveable
CHECK_DEADLOCK FALSE
