SPECIFICATION FairSpec
CONSTANTS
  Conn = {A, B}
  NoConn = NoConn
  FrameSizes = {2}
  Requests = {1}
  MaxFrames = 2
  Builds = {TRUE, FALSE}
PROPERTIES Delivery InterruptEndsCall
