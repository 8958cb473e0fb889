CONSTANTS
  Scripts <- MCScripts
  MaxText = 3
  MaxMouse = 3
  MAX_UNITS_PER_RECORD = 2
  RECORD_BATCH = 2
  CHANNEL_CAPACITY = 1
  MaxBuffer = 2
  MaxJobs = 1
SPECIFICATION FairSpec
CHECK_DEADLOCK FALSE
INVARIANTS
  OneReader
  NoFalseEof
  InputInOrder
  ButtonsAreFollowed
PROPERTIES
  TeardownEnds
