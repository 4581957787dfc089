SPECIFICATION FairSpec
CONSTANTS
  Client = {c1, c2}
  Limits = {2, 3}
  Sizes = {0, 2}
  Hdr = 2
  MaxMsgs = 2
INVARIANTS DeliveredWhole EndedHeardAll TerminatesOnlyIf
PROPERTY SentIsDelivered
CHECK_DEADLOCK FALSE
