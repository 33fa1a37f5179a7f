SPECIFICATION SafeSpec
CONSTANTS
  x = x
  y = y
  Streams = {x, y}
  Negotiated = {x, y}
  MaxPackets = 2
  None = None
  Offset <- MCOffset
INVARIANTS
  LoopsJoined
  BytesMatchQueue
  PacketConservation
  OfferMeetsLoop
  IInv
PROPERTIES
  ImplementsPipe
CHECK_DEADLOCK FALSE
