CONSTANTS
  kitty = kitty
  da1 = da1
  Query = {kitty}
  Optional <- MCOptional
  Fence = da1
  NoReply = NoReply
  NoId = NoId
  MaxKeys = 2
  MaxResizes = 2
  MaxInput = 3
  MaxIds = 4
  MaxWire = 2
SPECIFICATION LiveSpec
CHECK_DEADLOCK FALSE
INVARIANTS
  SlotsAreOwned
  TypeaheadInOrder
  LastGeometryArrives
  OwnReplyUnlessGaveUp
PROPERTIES
  FenceWaitsForBatch
  EveryCallEnds
