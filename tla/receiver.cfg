SPECIFICATION FairSpec
CONSTANTS
  Sock = {1, 2}
  NoSock = NoSock
  ThreadCount = 1
  Ids = {1, 2}
  Sizes = {0, 1}
  MaxEvents = 3
  EarlyClose = TRUE
INVARIANTS TypeOK HeaderNext InOrder NoLostWakeup
PROPERTIES TakenOver MessagesDelivered
CHECK_DEADLOCK FALSE
