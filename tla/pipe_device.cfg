SPECIFICATION Spec
CONSTANTS
  p1 = p1
  p2 = p2
  PipeId <- MCPipeId2
  Channel <- MCChannel2
  Service <- MCService
  Thread <- MCThread3
  Raisable <- MCRaisable
SYMMETRY MCSymmetry
INVARIANTS TypeOK SignaledAreLive SignalHoldsLine RaisedStaysPending NoDeafSleeper
PROPERTIES ReportsEvents
