CONSTANTS
  screen = screen
  Raw = raw
  Kitty = kitty
  Mode = {screen}
  Thread = {t1}
  HasHandle = TRUE
  WritesFail = TRUE
  NoKind = none
  MaxLevel = 2
  Retries = 2
SPECIFICATION FairSpec
CHECK_DEADLOCK FALSE
INVARIANTS
  AwayIsClean
  FlagsNeverLeak
PROPERTIES
  HandBackIsComplete
  EveryJobEnds
