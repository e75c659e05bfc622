SPECIFICATION Spec
CONSTANTS
  w1 = w1  w2 = w2  v1 = v1  v2 = v2
  Chunks = {k1}
  Voices = {v1, v2}
  FirstVoice = v1
  Workers = {w1, w2}
  Loaded <- OneKnowsBoth
  Jobs = {1, 2}
  NoJob = NoJob  NoWorker = NoWorker
  MaxAttempts = 2
  MaxTroubles = 1
  MaxEditions = 1
  MaxInterventions = 1
INVARIANTS BytesOfRows ResultLineage AckedIsSettled NoWorkAfterRelease
CHECK_DEADLOCK FALSE
