SPECIFICATION Spec
CONSTANTS
  Seps <- MCSeps
  Capabilities <- MCCapabilities
  MaxUnits = 3
INVARIANTS
  TypeOK
  ReadsInBounds
  ConfigurationAgrees
CHECK_DEADLOCK FALSE
