SPECIFICATION Spec
CONSTANTS
  DayMinutes = 10
  Window = 2
  Rollover = 5
  Tables <- MCOverlapping
  MaxDays = 0
  MaxReloads = 1
INVARIANT OncePerWindow
