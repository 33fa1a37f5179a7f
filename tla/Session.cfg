SPECIFICATION Spec
CONSTANTS
  CCs = {"scream", "scream-infer"}
  Streams = {{}, {"send", "recv"}}
INVARIANTS
  IInv
  EndAnnounced
  FatalSpreads
PROPERTIES
  ReceiverLearns
  SenderLearns
CHECK_DEADLOCK FALSE
