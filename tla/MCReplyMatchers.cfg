CONSTANTS
  Finals = {"R", "n", "c", "u", "y", "t", "A", "I", "M", "_"}
  PrivateMarkers = {"", "?", "<", ">"}
  Intermediates = {"", "$"}
  Values = {0, 1, 2, 3, 4, 6, 48, 65536}
  MaxFields = 3
  Discriminators = {1, 6}
SPECIFICATION TokenSpec
INVARIANTS
  OneClaimant
  RepliesReachCorrelator
  AnswersAreAccepted
  KeysReadAsPressed
CHECK_DEADLOCK FALSE
