SPECIFICATION Spec
CONSTANTS
  ByteBits = 3
  SeqSize = 2
  TsSize = 2048
  AuSizes = {6, 7, 14, 15}
  OutBytes = 29
  SbcSizes = {64, 128}
  MftDepth = 1
  MaxFrames = 3
  MaxSessions = 2
  MaxChanges = 2
INVARIANTS
  PacketsDecode
  TimestampsFollow
CHECK_DEADLOCK FALSE
