SPECIFICATION BlockingFairSpec
CONSTANT
  Queues <- MCQueues
INVARIANTS SlotsOwned NothingLeaks SizeInRange TokensMatchItems
PROPERTIES RefinesFifo WaitEnds
CHECK_DEADLOCK FALSE
