SPECIFICATION Spec
CONSTANTS
  M4B = M4B  MP3 = MP3
  AJobs = {a1, a2}
  Formats = {M4B}
  PerChapter = {}
  Chapters = {c1, c2}
  Whole = Whole
  Requests <- JustDefault
  MaxAttempts = 2
  MaxVersion = 2
  MaxManifest = 2
  MaxCrashes = 1
  MaxFaults = 1
  MaxTroubles = 2
CHECK_DEADLOCK FALSE
SYMMETRY Symmetry
INVARIANTS CurrentIsNewest ResultOfManifest
PROPERTY AssemblyOutcomeStands
