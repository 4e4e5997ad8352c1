SPECIFICATION QemudSpec
CONSTANTS
  p1 = p1
  p2 = p2
  PipeId <- MCPipeId
  Channel <- MCChannel2
  Service <- MCService
  Thread <- MCThread2
  Raisable <- MCRaisable
  MaxSent = 3
  MaxMessage = 2
  MaxRead = 2
SYMMETRY MCSymmetry
INVARIANTS QemudTypeOK StreamInOrder ClientsAreServed
PROPERTIES ImplementsDevice
