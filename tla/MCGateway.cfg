CONSTANTS
  Upstreams <- MCUpstreams
  Requests <- MCRequests
  Difficulty = 4
  MaxHops = 3
  MaxVisits = 2
  Calls = {c1, c2}
  Sdk <- MCSdk
  MaxParts = 2
  MaxActive = 2
  Parts = {"visit", "sdk", "process"}
SPECIFICATION MCSpec
INVARIANTS ForwardedAsJudged ServedForCause ShutsDownInOrder
PROPERTIES NavigationsSettle CallsEnd StopsWhenAsked
CHECK_DEADLOCK FALSE
