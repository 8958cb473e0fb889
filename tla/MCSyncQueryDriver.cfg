CONSTANTS
  Limit = 4
  Query <- MCQuery
  Optional <- MCOptional
  Fence <- MCFence
  reply_of <- MCreply_of
  Typed <- MCTyped
  NoReply = NoReply
  NoId = NoId
  MaxTyped = 1
  MaxCalls = 2
SPECIFICATION Spec
CHECK_DEADLOCK FALSE
INVARIANTS
  TypeaheadSurvives
  RepliesAreTaken
  SlotsAreOwned
