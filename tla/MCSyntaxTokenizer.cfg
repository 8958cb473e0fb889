CONSTANTS
  Limits = {0, 3}
  Inputs <- MCInputs
  PasteBytes = 3
  StringBytes = 3
  OtherBytes = 3
SPECIFICATION Spec
CHECK_DEADLOCK FALSE
INVARIANTS
  MemoryIsBounded
  SplitEquivalent
  EveryByteIsAccountedFor
  PasteEndsAtItsBracket
