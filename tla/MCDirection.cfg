SPECIFICATION Spec
CONSTANTS
  c1 = c1  c2 = c2
  Runs = {1, 2}
  Chapters = {c1, c2}
  Plans <- BookOrChapter
  Revised = {c2}
  Jobs <- AllJobs
  Roots <- AllJobs
  MaxAttempts = 2
  MaxTroubles = 1
  MaxCancels = 0
  MaxEdits = 1
PROPERTIES ScriptsKept DirectionEnds FrozenOnceSeen
CHECK_DEADLOCK FALSE
