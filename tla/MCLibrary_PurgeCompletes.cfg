SPECIFICATION FairSpec
CONSTANTS
  Clients = {c1}
  Sessions = {s1}
  Contents = {h1}
  MaxRequests = 3
  MaxTroubles = 0
  MaxAttempts = 3
PROPERTY PurgeCompletes
CHECK_DEADLOCK FALSE
