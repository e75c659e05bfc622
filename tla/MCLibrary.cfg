SPECIFICATION Spec
CONSTANTS
  Clients = {c1, c2}
  Sessions = {s1, s2}
  Contents = {h1, h2}
  MaxRequests = 3
  MaxTroubles = 1
  MaxAttempts = 2
SYMMETRY Symmetry
INVARIANTS AnsweredIsDone ObjectsKept
 
CHECK_DEADLOCK FALSE
