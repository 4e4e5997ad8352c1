SPECIFICATION SnapSpec
CONSTANTS
  p1 = p1
  p2 = p2
  PipeId <- MCPipeId
  Channel <- MCChannel
  Service <- MCService
  Saveable <- MCSaveable
  Thread <- MCThread
  Raisable <- MCRaisableBoth
  MaxLoad = 2
SYMMETRY MCSymmetry
INVARIANTS TypeOK SignaledAreLive SignalHoldsLine RaisedStaysPending SleepersAreHeard ResumedAreWoken
