SPECIFICATION SenderSpec
CONSTANTS
  ssrc = ssrc
  Streams = {ssrc}
  Negotiated = {ssrc}
  MaxPackets = 2
  None = None
  Offset <- MCOffset
INVARIANTS
  FilesOutliveLog
  ShutdownOrder
PROPERTIES
  UsesScreamSender
  QuietAfterStart
  StartReturns
  EncoderNotBlocked
CHECK_DEADLOCK FALSE
