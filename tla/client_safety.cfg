SPECIFICATION Spec
CONSTANTS
  Conn = {A, B}
  NoConn = NoConn
  FrameSizes = {0, 2}
  Requests = {0, 1, 3}
  MaxFrames = 2
  Builds = {TRUE}
INVARIANTS TypeOK LockInv OneBuffer NoMessageUnderLock FrameAligned Conserved
PROPERTY RefinesChannels
SYMMETRY Symmetry
