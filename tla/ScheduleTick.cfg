SPECIFICATION Spec
CONSTANTS
  DayMinutes = 10
  Window = 2
  Rollover = 5
  Tables <- MCSpaced
  MaxDays = 1
  MaxReloads = 2
INVARIANT TypeOK
INVARIANT OncePerWindow
INVARIANT DueSlotsHaveFired
INVARIANT AckedSurvives
INVARIANT NextIsNext
