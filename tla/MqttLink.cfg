SPECIFICATION Spec
CONSTANTS
  BaseMs = 8
  MaxMs = 20
  Wrap = 100
  MaxTime = 40
INVARIANT TypeOK
INVARIANT DueSoon
INVARIANT QuickReturn
PROPERTY AttemptsSpaced
CHECK_DEADLOCK FALSE
