CONSTANTS
  ClickLow = 1
  ClickHigh = 2
  KeptIntervals = 1
  MinMoveCount = 1
  HiddenFactor = 2
  MaxTime = 4
  MaxClicks = 3
  MaxMoves = 3
  MaxEdits = 2
  RandomLength = 2
  MaxShift = 14
  MaxFrames = 4
  MaxLost = 2
  MaxTraits = 2
  MaxFailed = 1
SPECIFICATION MCSpec
INVARIANTS TimeIsAccounted BeaconIsTrue BrowsersRaiseNothing SignalsNameTheirCause
  HelloReadExactly FramesReadExactly
PROPERTIES InsertionsNeverHurt TraitsNeverHelp FallbacksAreNeutral FingerprintsAreStable
CHECK_DEADLOCK FALSE
