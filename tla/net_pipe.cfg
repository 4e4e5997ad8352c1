SPECIFICATION NetFairSpec
CONSTANTS
  p1 = p1
  p2 = p2
  PipeId <- MCPipeId2
  Channel <- MCChannel1
  Service <- MCService
  Thread <- MCThread2
  Raisable <- MCRaisable
INVARIANTS NetTypeOK SleepersAreWatched
PROPERTIES ImplementsDevice SocketWakesSleepers
CHECK_DEADLOCK FALSE
