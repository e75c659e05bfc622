SPECIFICATION FairSpec
CONSTANTS
  Jobs = {j1}
  Clients = {c1, c2}
  Workers = {w1, w2}
  NoJob = NoJob
  MaxAttempts = 2
  MaxStalled = 1
  MaxCrashes = 1
  MaxRedisFaults = 1
  MaxDbFaults = 1
INVARIANTS DispatchRecoverable AttemptBudget ResultOnce
PROPERTIES OutcomeStands Settles
CHECK_DEADLOCK FALSE
