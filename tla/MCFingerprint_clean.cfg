CONSTANTS
  MaxTraits = 0
  MaxFailed = 0
SPECIFICATION Spec
INVARIANTS CleanBrowsersScoreLow
CHECK_DEADLOCK FALSE
