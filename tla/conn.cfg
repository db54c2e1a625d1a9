SPECIFICATION Spec
CONSTANTS
  MaxSent = 5
  MaxLine = 2
  ReadSize = 3
  SocketRoom = 1
  MaxUnflushed = 2
INVARIANTS
  ExecutedAreRequests
  LengthLimitExact
  NothingWithheld
  RepliesInOrder
PROPERTIES
  Answered
CHECK_DEADLOCK FALSE
