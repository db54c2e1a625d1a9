SPECIFICATION Spec
CONSTANTS
  MaxSent = 4
  MaxLine = 3
  ReadSize = 3
  SocketRoom = 1
  MaxUnflushed = 2
INVARIANTS
  ExecutedAreLines
CHECK_DEADLOCK FALSE
