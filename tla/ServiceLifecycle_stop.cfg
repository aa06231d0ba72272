SPECIFICATION FairSpec
CONSTANTS
  MaxControls = 2
INVARIANTS
  TypeOK
  ComOrder
PROPERTIES
  StopEnds
CHECK_DEADLOCK FALSE
