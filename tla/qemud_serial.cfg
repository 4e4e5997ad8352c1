SPECIFICATION SerialSpec
CONSTANTS
  Service <- MCService
  Framed <- MCFramed
  PipeService <- MCPipeService
  MaxClients <- MCMaxClients
  blank = blank
  BIP_BUFFER_SIZE = 2
  reader_size = 1
  MAX_SERIAL_PAYLOAD = 3
  MaxChannel = 2
  MaxWritten = 2
  MaxPipes = 2
  MaxSaid = 1
  MaxMessage = 1
  MaxPiece = 4
  MaxLine = 1
INVARIANTS SerialTypeOK FramesArrive ClientsAreCounted SidesAgree GuestStreamInOrder
