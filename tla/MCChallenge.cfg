CONSTANTS
  Ids = {i1, i2, i3}
  NoId = NoId
  Requests = {r1, r2}
  Capacity = 2
  TTL = 1
  MaxTime = 2
  Scores = {0, 80}
  DenyThreshold = 80
SYMMETRY MCSymmetry
SPECIFICATION Spec
CHECK_DEADLOCK FALSE
INVARIANTS SpentIdsStayGone NoSequentialReuse TokenEarned RefusedForCause
