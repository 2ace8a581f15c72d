CONSTANTS
  Upstreams <- MCBundle
  Requests <- MCRequests
  Difficulty = 4
  MaxHops = 3
  MaxVisits = 1
  Calls = {c1, c2}
  Sdk <- MCSdk
  MaxParts = 2
  MaxActive = 2
  Parts = {"visit"}
SPECIFICATION MCSpec
PROPERTIES BrowserPassesAfterChallenge
CHECK_DEADLOCK FALSE
