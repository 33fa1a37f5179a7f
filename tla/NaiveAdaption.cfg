SPECIFICATION Spec
CONSTANTS
  x = x
  y = y
  Streams = {x, y}
  Removed = {y}
  MaxPackets = 3
  Capacity = 2
  Steps = 3
  GrowLimit = 0
  ShrinkLimit = 1
  Long = 1
  Short = 2
INVARIANTS
  IInv
PROPERTIES
  OneStepPerPacket
  ImplementsPipe
  PacketsLeave
  CloseReturns
CHECK_DEADLOCK FALSE
