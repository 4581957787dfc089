SPECIFICATION Spec
CONSTANTS
  Sock = {1, 2}
  NoSock = NoSock
  ThreadCount = 1
  Ids = {1}
  Sizes = {1}
  MaxEvents = 2
  EarlyClose = FALSE
INVARIANT NoBadTimeout
CHECK_DEADLOCK FALSE
