CONSTANTS
  Sessions = {s1, s2}
  Addresses = {a1}
  Beacons = {b1, b2}
  MaxPerKey = 2
  MaxAge = 2
  MaxTime = 4
  Requests = {r1, r2}
  AuditSize = 3
  WindowSize = 6
  NoWindow = NoWindow
  Conns = {c1, c2}
  Peers = {p1, p2}
  NoConn = NoConn
  Cap = 2
  MaxRecord = 3
  MaxExtra = 1
SPECIFICATION MCSpec
INVARIANTS WindowsBoundedAndOrdered NewestIsServed RefererAnswersRight OwnHelloOrNone CapturesReclaimed CapturesWholeRecord
PROPERTIES AuditImplementsLog
