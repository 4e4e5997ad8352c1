SPECIFICATION NetSpec
CONSTANTS
  p1 = p1
  p2 = p2
  PipeId <- MCPipeId1
  Channel <- MCChannel1
  Service <- MCService
  Thread <- MCThread2
  Raisable <- MCRaisable
INVARIANTS WakesItsPipe
CHECK_DEADLOCK FALSE
