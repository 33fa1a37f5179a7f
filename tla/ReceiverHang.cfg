SPECIFICATION Spec
CONSTANTS
  Controls = {"none", "scream"}
  MaxPackets = 2
PROPERTIES
  ReceiveReturns
CHECK_DEADLOCK FALSE
