SPECIFICATION FairSpec
CONSTANTS
  MaxControls = 1
  MaxCommands = 1
  MaxBreaks = 1
PROPERTY ClearReleases
