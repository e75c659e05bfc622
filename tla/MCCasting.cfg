SPECIFICATION CastingSpec
CONSTANTS
  Users = {u1, u2}
  Characters = {c1, c2, c3}
  Cast = {c1, narrator}
  Narrator = narrator
  Names = {n1}
  MaxVersions = 2
  MaxCalls = 6
SYMMETRY Symmetry
INVARIANTS LockedWasApproved RetiredOnlyByRace
PROPERTIES SupersededOnlyIfSeen FormsPassByMerge
CHECK_DEADLOCK FALSE
