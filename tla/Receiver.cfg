SPECIFICATION Spec
CONSTANTS
  Controls = {"none", "scream"}
  MaxPackets = 4
INVARIANTS
  IInv
PROPERTIES
  QuietAfterReturn
  ReceiveReturnsUnlessLogGone
CHECK_DEADLOCK FALSE
