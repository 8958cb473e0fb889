CONSTANTS
  Limits = {3}
  MaxRead = 3
  Inputs <- MCInputs
  MaxItems = 3
  MaxPasted = 4
  MaxDrops = 1
SPECIFICATION FairSpec
CHECK_DEADLOCK FALSE
INVARIANTS
  EventsDoNotDependOnReads
  PasteTextIgnoresSegments
PROPERTIES
  EscapeIsDelivered
