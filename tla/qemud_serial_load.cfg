SPECIFICATION SnapshotSpec
CONSTANTS
  Service <- MCService
  Framed <- MCService
  PipeService = {}
  MaxClients <- MCMaxClients
  blank = blank
  BIP_BUFFER_SIZE = 2
  reader_size = 1
  MAX_SERIAL_PAYLOAD = 3
  MaxChannel = 2
  MaxWritten = 0
  MaxPipes = 0
  MaxSaid = 1
  MaxMessage = 1
  MaxPiece = 4
  MaxLine = 0
INVARIANTS LimitHolds
