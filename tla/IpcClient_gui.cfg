SPECIFICATION FairSpec
CONSTANTS
  Codecs = {sbc, ldac}
  SBC = sbc
  MaxActions = 3
  MaxStarts = 2
  MaxCloses = 1
INVARIANTS
  TypeOK
  SessionNotDisposed
  AppliedIsCurrent
PROPERTIES
  ImplementsRequestReply
  UiNotBlocked
  Reconnects
CHECK_DEADLOCK FALSE
