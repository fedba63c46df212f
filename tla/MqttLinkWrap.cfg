SPECIFICATION Spec
CONSTANTS
  BaseMs = 4
  MaxMs = 8
  Wrap = 20
  MaxTime = 30
PROPERTY DropsAreRetried
CHECK_DEADLOCK FALSE
