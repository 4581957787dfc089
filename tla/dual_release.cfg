SPECIFICATION DualFairSpec
CONSTANTS
  Data = Data
  Ctl = Ctl
  Conn = {Data, Ctl}
  NoConn = NoConn
  FrameSizes = {1}
  Requests = {0, 1}
  MaxFrames = 2
  Builds = {FALSE}
PROPERTY ControlSurfaces
