CONSTANTS
  cursor = cursor
  status = status
  cpr1 = cpr1
  cpr2 = cpr2
  dsr = dsr
  key = key
  Expectation = {cursor, status}
  Event = {cpr1, cpr2, dsr, key}
  Matches <- MCMatches
  NoReply = NoReply
  NoId = NoId
  NoExpectation = NoExpectation
  Waiter = {w1, w2, w3}
  MaxIds = 4
SPECIFICATION Spec
INVARIANTS
  PairwiseDistinct
  WaiterAccounting
PROPERTIES
  HeldReplyIsStable
  ImplementsSharedReply
