SPECIFICATION SafeSpec
CONSTANTS
  x = x
  y = y
  Streams = {x, y}
  Removed = {y}
  MaxPackets = 2
  Capacity = 2
  Steps = 3
  GrowLimit = 0
  ShrinkLimit = 1
  Long = 1
  Short = 2
INVARIANT UnbindIsSafe
CHECK_DEADLOCK FALSE
