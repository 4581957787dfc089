SPECIFICATION FairSpec
CONSTANTS
  Threads = {t1, t2}
  Moduli = {1, 2}
  IdMod = 3
  MaxMsgs = 2
  None = None
INVARIANTS ClashOnlyByOverlap PairedRight RoleComesFirst HeardInOrder
PROPERTIES SpawnEnds MessagesHeard
CHECK_DEADLOCK FALSE
