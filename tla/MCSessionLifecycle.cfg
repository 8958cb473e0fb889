CONSTANTS
  cursor = cursor
  screen = screen
  Raw = raw
  Kitty = kitty
  Mode = {cursor, screen}
  Thread = {t1, t2}
  HasHandle = TRUE
  WritesFail = TRUE
  NoKind = none
  MaxLevel = 2
SPECIFICATION Spec
CHECK_DEADLOCK FALSE
INVARIANTS
  CleanAfterLeave
  EmergencyCovers
  RestoredOncePerPeriod
