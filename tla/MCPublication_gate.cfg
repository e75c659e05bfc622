SPECIFICATION FairSpec
CONSTANTS
  M4B = M4B  MP3 = MP3
  AJobs = {a1}
  Formats = {M4B, MP3}
  PerChapter = {MP3}
  Chapters = {c1, c2}
  Whole = Whole
  Requests <- ChaptersFirst
  MaxAttempts = 2
  MaxVersion = 1
  MaxManifest = 1
  MaxCrashes = 1
  MaxFaults = 1
  MaxTroubles = 2
CHECK_DEADLOCK FALSE
INVARIANTS SucceededIsEncoded AdvertisedReady
PROPERTY Publishes
