SPECIFICATION Spec
CONSTANTS
  Sock = {1, 2}
  NoSock = NoSock
  ThreadCount = 1
  Ids = {1}
  Sizes = {1}
  MaxEvents = 3
  EarlyClose = FALSE
INVARIANT CleanedUp
CHECK_DEADLOCK FALSE
