SPECIFICATION TimesSpec
CONSTANTS
  Samples = {2, 4}
  RTTs = {0, 2, 4}
  MaxPackets = 3
  SeqNrs = 3
  AckedCapacity = 1
  ReceivedCapacity = 3
  Clocks <- MCClocks
  TimeMod = 3
  Saturates = FALSE
INVARIANTS
  MetricsConsistent
PROPERTIES
  TimesInOrder
CHECK_DEADLOCK FALSE
