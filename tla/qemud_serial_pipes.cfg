SPECIFICATION SerialSpec
CONSTANTS
  Service <- MCService
  Framed <- MCFramed
  PipeService <- MCPipeService
  MaxClients <- MCMaxClients
  blank = blank
  BIP_BUFFER_SIZE = 2
  reader_size = 1
  MAX_SERIAL_PAYLOAD = 3
  MaxChannel = 1
  MaxWritten = 0
  MaxPipes = 1
  MaxSaid = 1
  MaxMessage = 1
  MaxPiece = 4
  MaxLine = 1
INVARIANTS LimitHolds
