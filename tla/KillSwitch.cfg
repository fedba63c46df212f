SPECIFICATION FairSpec
CONSTANTS
  MaxControls = 3
  MaxCommands = 3
  MaxBreaks = 2
INVARIANT TypeOK
INVARIANT Agreement
INVARIANT LateCommandRejected
PROPERTY HeardHaltStopsActs
PROPERTY TakesHold
