SPECIFICATION BoardFairSpec
CONSTANTS
  p1 = p1
  p2 = p2
  PipeId <- MCPipeId2
  Channel <- MCChannel2
  Service <- MCService
  Thread <- MCThread1
  Raisable <- MCRaisableRead
  MaxInput = 1
INVARIANTS BoardTypeOK PendingIsCounted WaitingIsHeard EventsStayWhole
PROPERTIES IsGoldfishPipe ReportedInTurn WokenInTurn InputIsRead
