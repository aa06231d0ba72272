SPECIFICATION FairSpec
CONSTANTS
  Stoppers = {s1}
  Codecs = {sbc, ldac}
  DefaultCodec = sbc
  HasAi = TRUE
  HasStream = TRUE
  MaxSessions = 2
INVARIANTS
  TypeOK
  HandlesOpenInUse
  RepliesPaired
  AckedSwitchApplied
PROPERTIES
  StopReturns
  ImplementsRequestReply
CHECK_DEADLOCK FALSE
