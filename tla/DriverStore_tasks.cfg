SPECIFICATION FairSpec
CONSTANTS
  Names = {oem1, oem2}
  Tasks = {t1, t2}
  WINDOWS = windows
  MaxChanges = 1
  MaxFailures = 1
INVARIANTS
  TypeOK
  ResultsTrue
PROPERTIES
  ListSettles
CHECK_DEADLOCK FALSE
