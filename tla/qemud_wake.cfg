SPECIFICATION QemudSpec
CONSTANTS
  p1 = p1
  p2 = p2
  PipeId <- MCPipeId
  Channel <- MCChannel1
  Service <- MCService
  Thread <- MCThread1
  Raisable <- MCRaisable
  MaxSent = 3
  MaxMessage = 2
  MaxRead = 2
INVARIANTS ReaderIsWoken
