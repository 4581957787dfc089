SPECIFICATION FairSpec
CONSTANTS
  Obj = {o1, o2, o3}
  Fd = {3, 4}
  Blocks = Blocks
  NoFd = NoFd
  NoObj = NoObj
  MaxAdds = 4
INVARIANT WatchedAreOwned
PROPERTIES ErasedOnlyIfBroken ReadyServed
CHECK_DEADLOCK FALSE
