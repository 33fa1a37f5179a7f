SPECIFICATION Spec
CONSTANTS
  MaxPackets = 3
  SeqNrs = 3
  AckedCapacity = 1
  ReceivedCapacity = 1
  RTTs = {0, 4}
  Clocks = {1}
  TimeMod = 3
  Saturates = FALSE
INVARIANTS
  IInv
PROPERTIES
  ImplementsPromise
  AcksCounted
  ReportsArrive
  BufferReturns
CHECK_DEADLOCK FALSE
