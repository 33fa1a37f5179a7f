SPECIFICATION Spec
CONSTANTS
  MaxWords = 5
  MaxBlocks = 3
  MaxReports = 2
  Mod = 4
  Packets <- MCPackets
  Reports <- MCReports
INVARIANTS
  InBounds
  FindsSources
PROPERTIES
  Terminates
CHECK_DEADLOCK FALSE
