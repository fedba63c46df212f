SPECIFICATION Spec
CONSTANTS
  Chunks = {"a1", "a2", "b1", "b2", "b3"}
  Images <- MCImages
  NoDigest = NoDigest
  MaxAttempts = 1
  MaxSwaps = 0
  Holds = {0, 2}
  MaxRestarts = 0
PROPERTIES UnlockHolds
