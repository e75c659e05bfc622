SPECIFICATION FairSpec
CONSTANTS
  Events = {1, 2, 3}
  WorkerEvents = {2}
  Public = {1, 3}
  Skew = 1
  Resolution = 2
  Conns = {k1}
  Polls = {p1, p2}
  NoConn = NoConn
  StreamBatch = 2
  MaxStreams = 1
  Window = 1
  MaxTime = 2
  MaxBreaks = 1
INVARIANT NothingSkipped
PROPERTY Delivers
CHECK_DEADLOCK FALSE
