SPECIFICATION Spec
CONSTANTS
  c1 = c1  c2 = c2
  Chapters = {c1, c2}
  Clients = {r1, r2}
  Requests <- Bodies
  MaxTake <- TwoThenOne
  MaxAttempts = 2
  MaxRequests = 2
  MaxTroubles = 1
INVARIANTS AudioOfResult NoJobLeftBehind FanInNotLost
CHECK_DEADLOCK FALSE
