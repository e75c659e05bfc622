SPECIFICATION Spec
CONSTANTS
  c1 = c1  c2 = c2
  Runs = {1, 2}
  Chapters = {c1, c2}
  Plans <- WholeBookOrSecond
  Modes = {"INCREMENTAL"}
  Names = {"Alice"}
  Mentions <- EveryChapterMentions
  Jobs <- AllJobs
  Roots <- AnalyzeJobs
  MaxAttempts = 2
  MaxTroubles = 1
  MaxCancels = 1
INVARIANT OneCurrent
PROPERTIES VersionsKept RunEnds
CHECK_DEADLOCK FALSE
