SPECIFICATION FairSpec
CONSTANTS
  sbc = sbc
  ldac = ldac
  aptx = aptx
  adaptive = adaptive
  Codecs = {sbc, ldac, aptx, adaptive}
  SBC = sbc
  Encodable = {sbc, ldac, aptx}
  Frames <- FramesOf
  Channels = 2
  MixRates = {48000}
  SbcRates = {44100, 48000}
  kReadSamples = 8
  kBlobFeedMax = 4
  kBlock = 4
  kAccumHardCap = 12
  MaxSwitches = 2
INVARIANTS
  TypeOK
  FrameTagged
  SwitchIsACut
  HandleClosedLast
PROPERTIES
  SwitchReturns
  ShutdownEnds
  ImplementsFrameSource
CHECK_DEADLOCK FALSE
