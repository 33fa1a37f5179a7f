SPECIFICATION Spec
CONSTANTS
  x = x
  y = y
  Streams = {x, y}
  Negotiated = {x, y}
  MaxPackets = 1
  None = None
  Offset <- MCOffset
PROPERTIES
  BindReturns
CHECK_DEADLOCK FALSE
