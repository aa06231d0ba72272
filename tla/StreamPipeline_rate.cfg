SPECIFICATION Spec
CONSTANTS
  sbc = sbc
  ldac = ldac
  aptx = aptx
  adaptive = adaptive
  Codecs = {sbc}
  SBC = sbc
  Encodable = {sbc}
  Frames <- FramesOf
  Channels = 2
  MixRates = {48000, 96000}
  SbcRates = {44100, 48000}
  kReadSamples = 8
  kBlobFeedMax = 4
  kBlock = 4
  kAccumHardCap = 12
  MaxSwitches = 0
INVARIANTS
  EncodesAtCaptureRate
CHECK_DEADLOCK FALSE
