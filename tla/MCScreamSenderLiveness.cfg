SPECIFICATION Spec
CONSTANTS
  Streams = {x}
  Negotiated = {x}
  MaxPackets = 3
  None = None
  Offset <- MCOffset
PROPERTIES
  PacketsLeave
  WriteReturns
  ReadReturns
  BitrateReturns
  CloseReturns
CHECK_DEADLOCK FALSE
