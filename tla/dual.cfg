SPECIFICATION DualFairSpec
CONSTANTS
  Data = Data
  Ctl = Ctl
  Conn = {Data, Ctl}
  NoConn = NoConn
  FrameSizes = {2}
  Requests = {0, 1, 2}
  MaxFrames = 3
  Builds = {TRUE}
INVARIANTS InterruptMeansControl OneControlReader FlagsAgree ChannelReady
PROPERTIES ControlSurfaces DestructorEnds
