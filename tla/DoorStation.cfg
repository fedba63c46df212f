SPECIFICATION FairSpec
CONSTANTS
  Chunks = {"a1", "a2", "b1", "b2", "b3"}
  Images <- MCImages
  NoDigest = NoDigest
  MaxAttempts = 3
  MaxSwaps = 1
  Holds = {0, 2}
  MaxRestarts = 1
INVARIANTS TypeOK ResumeContinues
PROPERTIES OnlyAnnounced TimedOpeningLasts TimedOpeningEnds DownloadEnds
