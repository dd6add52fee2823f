SPECIFICATION LiveSpec
CONSTANTS Pages = {pa, pb}  Host = pa  Elements = {ea, eb}  Board = {ea}
  MaxClient = 2  MaxDraws = 3  MaxCheck = 2  None = None
INVARIANT DrawnIsKept
CHECK_DEADLOCK FALSE
